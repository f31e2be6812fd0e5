----------------------------- MODULE SandboxProofs -----------------------------
(***************************************************************************)
(* Proofs about SandboxDispatch for every set of roles, peers and jobs and *)
(* every number of faults. The only assumption is SandboxAssumption.       *)
(*                                                                         *)
(* A lease ties one job to one peer for good (LeaseInv), a document        *)
(* reaches the peer of its lease alone (RanInv), the answer of a job is    *)
(* decided once (AnswerInv), the serving goroutine knows what its peer has *)
(* had (WorkerInv), and a peer the dispatcher holds descriptors of is      *)
(* proved gone, accounted for by RED, or some goroutine still owes its     *)
(* fence (DrainInv).                                                       *)
(***************************************************************************)
EXTENDS SandboxDispatch, FiniteSetTheorems, TLAPS

\* Nobody serves the peer yet, and nobody has leased it.
Unserved(h) == wk[h].step \in {"NONE", "PROVING", "INSTALLED"}

\* RED is latched or about to be.
Alarm == red \/ <<"RED">> \in todo

\* The relay, the latch and the shutdown.
FlagInv ==
    /\ latched => red /\ relay = None
    /\ returned => closed
    /\ closed => Pending = {}
    /\ \A j \in Jobs : sub[j] = "WRITE" => relay = j

\* A handoff follows the launch, its registration consumes it, and a lease the
\* registered peer.
HandInv ==
    \A h \in Peers : /\ proc[h] = "NONE" => hand[h] = "NONE"
                     /\ hand[h] \in {"NONE", "SENT"} => fd[h] = "NONE"
                     /\ wk[h].step # "NONE" => hand[h] = "CONSUMED"
                     /\ Unserved(h) => ~wk[h].ready /\ ~wk[h].used

\* A job has at most one peer and a peer at most one job, for good.
LeaseInv ==
    /\ \A j \in Jobs : /\ lease[j].peer = None <=> lease[j].state = "NONE"
                       /\ lease[j].peer # None => wk[lease[j].peer].used
                       /\ lease[j].state = "NONE" => ~lease[j].sent /\ ~lease[j].result
                       /\ lease[j].result => <<j, lease[j].peer>> \in ran
                       /\ lease[j].state = "RESOLVED" => fd[lease[j].peer] = "CLOSED"
                       /\ abort[j].step # "NONE" => lease[j].peer # None
                       /\ abort[j].proven => /\ lease[j].peer # None
                                             /\ proc[lease[j].peer] = "GONE"
    /\ \A j, k \in Jobs : lease[j].peer # None /\ lease[j].peer = lease[k].peer => j = k

\* The answer of a job is given once, and then true for good.
AnswerOf(j) ==
    /\ sub[j] = "NEW" => lease[j].state = "NONE" /\ chan[j] = None
    /\ chan[j] # None => lease[j].state \in {"NONE", "RESOLVED"}
    /\ chan[j] = "RETRY" => ~lease[j].sent
    /\ chan[j] = "CONFIRMED" => /\ lease[j].peer # None /\ proc[lease[j].peer] = "GONE"
                                /\ <<j, lease[j].peer>> \in ran
    /\ told[j] # None => told[j] = chan[j]

AnswerInv == \A j \in Jobs : AnswerOf(j)

\* What the goroutine of a connection knows from where it stands.
Knows(h) ==
    /\ wk[h].active # None => lease[wk[h].active].peer = h
    /\ wk[h].step = "TRANSFER" => \E j \in Jobs : lease[j].peer = h /\ lease[j].sent
    /\ wk[h].step = "SERVING" =>
         \A j \in Jobs : lease[j].peer = h /\ lease[j].sent => <<j, h>> \in ran
    /\ wk[h].step \in {"CONFIRM", "PROVEN", "QUARANTINE"} =>
         \E j \in Jobs : lease[j].peer = h /\ <<j, h>> \in ran
    /\ wk[h].step = "PROVEN" => proc[h] = "GONE"

WorkerInv == \A h \in Peers : Knows(h)

\* A document reaches the peer of its lease, marked as transferred before.
RanInv == \A j \in Jobs, h \in Peers : <<j, h>> \in ran => lease[j].peer = h /\ lease[j].sent

\* A role is REAPED, in memory and in the file, only of a peer that is gone.
Reaped(row) == row.state = "REAPED" => row.peer # None /\ proc[row.peer] = "GONE"
StatusInv   == \A r \in Roles : Reaped(status[r]) /\ Reaped(doc.roles[r])

\* Some goroutine or timer still has to end peer h.
Tracked(h) ==
    \/ hand[h] = "ACKNOWLEDGED" \/ wk[h].step \notin {"NONE", "ENDED"}
    \/ \E call \in {"FENCE", "EXPIRED", "DROP"} : <<call, h>> \in todo
    \/ \E j \in Jobs : /\ lease[j].peer = h
                       /\ <<"ABORT", j>> \in todo \/ abort[j].step # "NONE"

DrainInv ==
    \A h \in Peers : /\ fd[h] = "OPEN" => Alarm \/ Tracked(h)
                     /\ fd[h] = "CLOSED" => Alarm \/ proc[h] = "GONE"

\* The inductive invariant.
IInv ==
    /\ TypeOK /\ FlagInv /\ HandInv /\ LeaseInv /\ AnswerInv /\ WorkerInv /\ RanInv
    /\ StatusInv /\ DrainInv /\ ShutdownDrains

ProcStates == {"NONE", "CREATED", "RUNNING", "GONE"}
HandStates == {"NONE", "SENT", "ACKNOWLEDGED", "CONSUMED", "EXPIRED", "CLOSED"}
SubStates  == {"NEW", "OFFER", "WAIT", "GATE", "WRITE", "DONE"}
SupRow     == [run : Peers \cup {None}, step : {"IDLE", "SENT", "ACKED", "STARTED", "OWNED"}]
WkSteps    == {"NONE", "PROVING", "INSTALLED", "SERVING", "TRANSFER", "CONFIRM", "PROVEN",
               "QUARANTINE", "ENDED"}
WkRow      == [step : WkSteps,
               ready : BOOLEAN, used : BOOLEAN, active : Jobs \cup {None}]
LeaseRow   == [state : {"NONE", "OFFERED", "TRANSFERRED", "RESOLVED"},
               peer : Peers \cup {None}, sent : BOOLEAN, result : BOOLEAN]
AbortRow   == [step : {"NONE", "TEAR", "END"}, sent : BOOLEAN, proven : BOOLEAN]

\* What TypeOK says, with the rows named.
Typed ==
    /\ proc \in [Peers -> ProcStates] /\ sup \in [Roles -> SupRow]
    /\ supState \in {"RUN", "DRAIN", "END"}
    /\ hand \in [Peers -> HandStates] /\ fd \in [Peers -> {"NONE", "OPEN", "CLOSED"}]
    /\ worker \in [Roles -> Peers \cup {None}] /\ wk \in [Peers -> WkRow]
    /\ lease \in [Jobs -> LeaseRow] /\ abort \in [Jobs -> AbortRow] /\ todo \subseteq Calls
    /\ red \in BOOLEAN /\ latched \in BOOLEAN /\ closed \in BOOLEAN /\ returned \in BOOLEAN
    /\ status \in [Roles -> RoleStatus] /\ doc \in Documents
    /\ sub \in [Jobs -> SubStates] /\ chan \in [Jobs -> Answers \cup {None}]
    /\ told \in [Jobs -> Answers \cup {None}] /\ relay \in Jobs \cup {None}
    /\ ran \subseteq Jobs \X Peers /\ faults \in 0 .. MaxFaults

LEMMA TypedOK == (TypeOK <=> Typed) /\ (TypeOK' <=> Typed')
<1>1. TypeOK <=> Typed
  BY DEF TypeOK, Typed, ProcStates, HandStates, SubStates, SupRow, WkSteps, WkRow, LeaseRow, AbortRow
<1>2. TypeOK' <=> Typed'
  BY DEF TypeOK, Typed, ProcStates, HandStates, SubStates, SupRow, WkSteps, WkRow, LeaseRow, AbortRow
<1> QED BY <1>1, <1>2

-----------------------------------------------------------------------------
(* Operators.                                                              *)

\* A lease's peer is the peer of no other lease.
LEMMA LeaseOfIs ==
    ASSUME LeaseInv, NEW j \in Jobs, NEW h \in Peers, lease[j].peer = h
    PROVE  LeaseOf(h) = j
<1>1. \A k \in Jobs : lease[k].peer = h <=> k = j
  BY SandboxAssumption DEF LeaseInv
<1> QED BY <1>1 DEF LeaseOf

\* A role becomes what it is set to, or nothing changes.
LEMMA RoleAfterIs ==
    ASSUME Typed, NEW h \in Peers, NEW x \in {"READY", "BUSY", "REAPED"}
    PROVE  /\ RoleAfter(h, x) \in [Roles -> RoleStatus]
           /\ \A r \in Roles : \/ RoleAfter(h, x)[r] = status[r]
                               \/ RoleAfter(h, x)[r].peer = h /\ RoleAfter(h, x)[r].state = x
<1> DEFINE r == PeerRole[h]
           from == CASE x = "READY" -> {"HANDED_OFF"}
                     [] x = "BUSY" -> {"READY"}
                     [] x = "REAPED" -> {"HANDED_OFF", "READY", "BUSY"}
<1>1. r \in Roles /\ status \in [Roles -> RoleStatus]
  BY SandboxAssumption DEF Typed
<1>2. RoleAfter(h, x) = IF status[r].peer = h /\ status[r].state \in from /\ ~red
                        THEN [status EXCEPT ![r].state = x] ELSE status
  BY DEF RoleAfter
<1> HIDE DEF r, from
<1>3. [status EXCEPT ![r].state = x] \in [Roles -> RoleStatus]
  <2>1. [status[r] EXCEPT !.state = x] \in RoleStatus
    BY <1>1 DEF RoleStatus, RoleStates
  <2>2. [status EXCEPT ![r].state = x] = [status EXCEPT ![r] = [status[r] EXCEPT !.state = x]]
    BY <1>1
  <2> HIDE DEF RoleStatus
  <2> QED BY <1>1, <2>1, <2>2
<1>4. status[r] \in RoleStatus
  BY <1>1
<1>5. ASSUME status[r].peer = h, NEW q \in Roles
      PROVE  LET s == [status EXCEPT ![r].state = x] IN
             \/ s[q] = status[q]
             \/ s[q].peer = h /\ s[q].state = x
  BY <1>1, <1>4, <1>5 DEF RoleStatus
<1> QED
  <2>1. CASE status[r].peer = h /\ status[r].state \in from /\ ~red
    BY <2>1, <1>2, <1>3, <1>5
  <2>2. CASE ~(status[r].peer = h /\ status[r].state \in from /\ ~red)
    BY <2>2, <1>1, <1>2
  <2> QED BY <2>1, <2>2

\* The goroutine of a connection moves on, or ends.
LEMMA WorkerMoves ==
    ASSUME wk \in [Peers -> WkRow], NEW h \in Peers, NEW x \in WkSteps
    PROVE  LET w == [wk EXCEPT ![h].step = x] IN
           /\ w \in [Peers -> WkRow]
           /\ \A q \in Peers : /\ w[q].step = IF q = h THEN x ELSE wk[q].step
                               /\ w[q].ready = wk[q].ready /\ w[q].used = wk[q].used
                               /\ w[q].active = wk[q].active
<1>1. [wk[h] EXCEPT !.step = x] \in WkRow
  BY DEF WkRow, WkSteps
<1>2. [wk EXCEPT ![h].step = x] = [wk EXCEPT ![h] = [wk[h] EXCEPT !.step = x]]
  OBVIOUS
<1>3. \A q \in Peers : wk[q] \in WkRow
  OBVIOUS
<1>4. [wk EXCEPT ![h].step = x] \in [Peers -> WkRow]
  <2> HIDE DEF WkRow
  <2> QED BY <1>1, <1>2
<1> QED BY <1>3, <1>4 DEF WkRow

\* A worker is ready, or is dropped.
LEMMA WorkerReady ==
    ASSUME wk \in [Peers -> WkRow], NEW h \in Peers
    PROVE  LET d == [wk EXCEPT ![h].active = None, ![h].ready = FALSE] IN
           /\ \A x \in WkSteps :
                LET a == [wk EXCEPT ![h].ready = TRUE, ![h].step = x] IN
                /\ a \in [Peers -> WkRow] /\ \A q \in Peers \ {h} : a[q] = wk[q]
                /\ a[h].step = x /\ a[h].used = wk[h].used /\ a[h].active = wk[h].active
           /\ d \in [Peers -> WkRow] /\ \A q \in Peers \ {h} : d[q] = wk[q]
           /\ d[h].step = wk[h].step /\ d[h].used = wk[h].used /\ d[h].active = None
           /\ ~d[h].ready
<1>1. wk[h] \in WkRow
  OBVIOUS
<1>2. ASSUME NEW x \in WkSteps
      PROVE  LET a == [wk EXCEPT ![h].ready = TRUE, ![h].step = x] IN
             /\ a \in [Peers -> WkRow] /\ \A q \in Peers \ {h} : a[q] = wk[q]
             /\ a[h].step = x /\ a[h].used = wk[h].used /\ a[h].active = wk[h].active
  <2>1. [wk[h] EXCEPT !.ready = TRUE, !.step = x] \in WkRow
    BY <1>1 DEF WkRow
  <2>2. [wk EXCEPT ![h].ready = TRUE, ![h].step = x] =
          [wk EXCEPT ![h] = [wk[h] EXCEPT !.ready = TRUE, !.step = x]]
    OBVIOUS
  <2>3. [wk EXCEPT ![h].ready = TRUE, ![h].step = x] \in [Peers -> WkRow]
    <3> HIDE DEF WkRow
    <3> QED BY <2>1, <2>2
  <2> QED BY <1>1, <2>3 DEF WkRow
<1>3. [wk EXCEPT ![h].active = None, ![h].ready = FALSE] \in [Peers -> WkRow]
  <2>1. [wk[h] EXCEPT !.active = None, !.ready = FALSE] \in WkRow
    BY <1>1 DEF WkRow
  <2>2. [wk EXCEPT ![h].active = None, ![h].ready = FALSE] =
          [wk EXCEPT ![h] = [wk[h] EXCEPT !.active = None, !.ready = FALSE]]
    OBVIOUS
  <2> HIDE DEF WkRow
  <2> QED BY <2>1, <2>2
<1> QED BY <1>1, <1>2, <1>3 DEF WkRow

\* A worker is leased to a job.
LEMMA WorkerLeased ==
    ASSUME wk \in [Peers -> WkRow], NEW h \in Peers, NEW j \in Jobs
    PROVE  LET u == [wk EXCEPT ![h].used = TRUE, ![h].active = j] IN
           /\ u \in [Peers -> WkRow] /\ \A q \in Peers \ {h} : u[q] = wk[q]
           /\ u[h].step = wk[h].step /\ u[h].ready = wk[h].ready /\ u[h].used
           /\ u[h].active = j
<1>1. wk[h] \in WkRow
  OBVIOUS
<1>2. [wk[h] EXCEPT !.used = TRUE, !.active = j] \in WkRow
  BY <1>1 DEF WkRow
<1>3. [wk EXCEPT ![h].used = TRUE, ![h].active = j] =
        [wk EXCEPT ![h] = [wk[h] EXCEPT !.used = TRUE, !.active = j]]
  OBVIOUS
<1>4. [wk EXCEPT ![h].used = TRUE, ![h].active = j] \in [Peers -> WkRow]
  <2> HIDE DEF WkRow
  <2> QED BY <1>2, <1>3
<1> QED BY <1>1, <1>4 DEF WkRow

\* A lease is offered to a peer.
LEMMA LeaseOffered ==
    ASSUME lease \in [Jobs -> LeaseRow], NEW j \in Jobs, NEW h \in Peers
    PROVE  LET o == [lease EXCEPT ![j].state = "OFFERED", ![j].peer = h] IN
           /\ o \in [Jobs -> LeaseRow] /\ \A k \in Jobs \ {j} : o[k] = lease[k]
           /\ o[j].state = "OFFERED" /\ o[j].peer = h
           /\ o[j].sent = lease[j].sent /\ o[j].result = lease[j].result
<1>1. lease[j] \in LeaseRow
  OBVIOUS
<1>2. [lease[j] EXCEPT !.state = "OFFERED", !.peer = h] \in LeaseRow
  BY <1>1 DEF LeaseRow
<1>3. [lease EXCEPT ![j].state = "OFFERED", ![j].peer = h] =
        [lease EXCEPT ![j] = [lease[j] EXCEPT !.state = "OFFERED", !.peer = h]]
  OBVIOUS
<1>4. [lease EXCEPT ![j].state = "OFFERED", ![j].peer = h] \in [Jobs -> LeaseRow]
  <2> HIDE DEF LeaseRow
  <2> QED BY <1>2, <1>3
<1> QED BY <1>1, <1>4 DEF LeaseRow

\* A lease is transferred, has its result, or is resolved.
LEMMA LeaseSet ==
    ASSUME lease \in [Jobs -> LeaseRow], NEW j \in Jobs
    PROVE  LET c == [lease EXCEPT ![j].state = "TRANSFERRED", ![j].sent = TRUE]
               a == [lease EXCEPT ![j].result = TRUE]
               d == [lease EXCEPT ![j].state = "RESOLVED"]
           IN
           /\ c \in [Jobs -> LeaseRow] /\ a \in [Jobs -> LeaseRow] /\ d \in [Jobs -> LeaseRow]
           /\ \A k \in Jobs \ {j} : c[k] = lease[k] /\ a[k] = lease[k] /\ d[k] = lease[k]
           /\ c[j].state = "TRANSFERRED" /\ c[j].peer = lease[j].peer
           /\ c[j].sent /\ c[j].result = lease[j].result
           /\ a[j].state = lease[j].state /\ a[j].peer = lease[j].peer
           /\ a[j].sent = lease[j].sent /\ a[j].result
           /\ d[j].state = "RESOLVED" /\ d[j].peer = lease[j].peer
           /\ d[j].sent = lease[j].sent /\ d[j].result = lease[j].result
<1>1. lease[j] \in LeaseRow
  OBVIOUS
<1>2. /\ [lease[j] EXCEPT !.state = "TRANSFERRED", !.sent = TRUE] \in LeaseRow
      /\ [lease[j] EXCEPT !.result = TRUE] \in LeaseRow
      /\ [lease[j] EXCEPT !.state = "RESOLVED"] \in LeaseRow
  BY <1>1 DEF LeaseRow
<1>3. /\ [lease EXCEPT ![j].state = "TRANSFERRED", ![j].sent = TRUE] =
            [lease EXCEPT ![j] = [lease[j] EXCEPT !.state = "TRANSFERRED", !.sent = TRUE]]
      /\ [lease EXCEPT ![j].result = TRUE] =
            [lease EXCEPT ![j] = [lease[j] EXCEPT !.result = TRUE]]
      /\ [lease EXCEPT ![j].state = "RESOLVED"] =
            [lease EXCEPT ![j] = [lease[j] EXCEPT !.state = "RESOLVED"]]
  OBVIOUS
<1>4. /\ [lease EXCEPT ![j].state = "TRANSFERRED", ![j].sent = TRUE] \in [Jobs -> LeaseRow]
      /\ [lease EXCEPT ![j].result = TRUE] \in [Jobs -> LeaseRow]
      /\ [lease EXCEPT ![j].state = "RESOLVED"] \in [Jobs -> LeaseRow]
  <2> HIDE DEF LeaseRow
  <2> QED BY <1>2, <1>3
<1> QED BY <1>1, <1>4 DEF LeaseRow

\* An abort begins, proves its peer gone or fails to, and ends.
LEMMA AbortSet ==
    ASSUME abort \in [Jobs -> AbortRow], NEW j \in Jobs, NEW s \in BOOLEAN
    PROVE  LET b == [abort EXCEPT ![j] = [step |-> "TEAR", sent |-> s, proven |-> FALSE]]
               p == [abort EXCEPT ![j].step = "END", ![j].proven = TRUE]
               f == [abort EXCEPT ![j].step = "END"]
               n == [abort EXCEPT ![j] = NoAbort]
           IN
           /\ b \in [Jobs -> AbortRow] /\ p \in [Jobs -> AbortRow]
           /\ f \in [Jobs -> AbortRow] /\ n \in [Jobs -> AbortRow]
           /\ \A k \in Jobs \ {j} : b[k] = abort[k] /\ p[k] = abort[k] /\ f[k] = abort[k]
                                  /\ n[k] = abort[k]
           /\ b[j].step = "TEAR" /\ ~b[j].proven /\ p[j].step = "END"
           /\ f[j].step = "END" /\ f[j].proven = abort[j].proven
           /\ n[j].step = "NONE" /\ ~n[j].proven
<1>1. abort[j] \in AbortRow
  OBVIOUS
<1>2. /\ [step |-> "TEAR", sent |-> s, proven |-> FALSE] \in AbortRow /\ NoAbort \in AbortRow
      /\ [abort[j] EXCEPT !.step = "END", !.proven = TRUE] \in AbortRow
      /\ [abort[j] EXCEPT !.step = "END"] \in AbortRow
  BY <1>1 DEF AbortRow, NoAbort
<1>3. /\ [abort EXCEPT ![j].step = "END", ![j].proven = TRUE] =
            [abort EXCEPT ![j] = [abort[j] EXCEPT !.step = "END", !.proven = TRUE]]
      /\ [abort EXCEPT ![j].step = "END"] =
            [abort EXCEPT ![j] = [abort[j] EXCEPT !.step = "END"]]
  OBVIOUS
<1>4. /\ [abort EXCEPT ![j] = [step |-> "TEAR", sent |-> s, proven |-> FALSE]]
            \in [Jobs -> AbortRow]
      /\ [abort EXCEPT ![j].step = "END", ![j].proven = TRUE] \in [Jobs -> AbortRow]
      /\ [abort EXCEPT ![j].step = "END"] \in [Jobs -> AbortRow]
      /\ [abort EXCEPT ![j] = NoAbort] \in [Jobs -> AbortRow]
  <2> HIDE DEF AbortRow, NoAbort
  <2> QED BY <1>2, <1>3
<1> QED BY <1>1, <1>4 DEF AbortRow, NoAbort

\* What resolveV2Locked changes: the lease, its peer's descriptors and role, the answer.
LEMMA Resolves ==
    ASSUME Typed, NEW j \in Jobs, NEW a \in Answers, NEW p \in BOOLEAN, NEW w \in [Peers -> WkRow],
           lease[j].peer \in Peers, Resolve(j, a, p, w)
    PROVE  LET h == lease[j].peer IN
           /\ lease' \in [Jobs -> LeaseRow]
           /\ \A k \in Jobs : /\ lease'[k].peer = lease[k].peer /\ lease'[k].sent = lease[k].sent
                              /\ lease'[k].result = lease[k].result
                              /\ lease'[k].state = IF k = j THEN "RESOLVED" ELSE lease[k].state
           /\ wk' \in [Peers -> WkRow]
           /\ \A q \in Peers : /\ wk'[q].step = w[q].step /\ wk'[q].ready = w[q].ready
                               /\ wk'[q].used = w[q].used
                               /\ wk'[q].active \in {w[q].active, None}
           /\ fd' \in [Peers -> {"NONE", "OPEN", "CLOSED"}]
           /\ \A q \in Peers : fd'[q] = IF q = h THEN "CLOSED" ELSE fd[q]
           /\ status' \in [Roles -> RoleStatus]
           /\ \A r \in Roles : \/ status'[r] = status[r]
                               \/ p /\ status'[r].peer = h /\ status'[r].state = "REAPED"
           /\ chan' \in [Jobs -> Answers \cup {None}]
           /\ \A k \in Jobs : chan'[k] = IF k = j THEN a ELSE chan[k]
<1> DEFINE h == lease[j].peer
           x == IF w[h].active = j THEN None ELSE w[h].active
<1>1. /\ lease' = [lease EXCEPT ![j].state = "RESOLVED"]
      /\ wk' = [w EXCEPT ![h].active = x]
      /\ fd' = [fd EXCEPT ![h] = "CLOSED"]
      /\ status' = IF p THEN RoleAfter(h, "REAPED") ELSE status
      /\ chan' = [chan EXCEPT ![j] = a]
      /\ h \in Peers
  BY DEF Resolve
<1>2. lease \in [Jobs -> LeaseRow] /\ fd \in [Peers -> {"NONE", "OPEN", "CLOSED"}]
      /\ status \in [Roles -> RoleStatus] /\ chan \in [Jobs -> Answers \cup {None}]
  BY DEF Typed
<1>3. w[h] \in WkRow /\ x \in Jobs \cup {None} /\ x \in {w[h].active, None}
  BY <1>1 DEF WkRow
<1> HIDE DEF h, x
<1>4. /\ wk' \in [Peers -> WkRow]
      /\ \A q \in Peers : /\ wk'[q].step = w[q].step /\ wk'[q].ready = w[q].ready
                          /\ wk'[q].used = w[q].used
                          /\ wk'[q].active \in {w[q].active, None}
  <2>1. [w[h] EXCEPT !.active = x] \in WkRow
    BY <1>3 DEF WkRow
  <2>2. wk' = [w EXCEPT ![h] = [w[h] EXCEPT !.active = x]]
    BY <1>1
  <2>3. wk' \in [Peers -> WkRow]
    <3> HIDE DEF WkRow
    <3> QED BY <2>1, <2>2
  <2> QED BY <1>1, <1>3, <2>2, <2>3 DEF WkRow
<1>5. /\ lease' \in [Jobs -> LeaseRow]
      /\ \A k \in Jobs : /\ lease'[k].peer = lease[k].peer /\ lease'[k].sent = lease[k].sent
                         /\ lease'[k].result = lease[k].result
                         /\ lease'[k].state = IF k = j THEN "RESOLVED" ELSE lease[k].state
  <2> HIDE DEF LeaseRow
  <2> DEFINE d == [lease EXCEPT ![j].state = "RESOLVED"]
  <2>1. /\ d \in [Jobs -> LeaseRow] /\ \A k \in Jobs \ {j} : d[k] = lease[k]
        /\ d[j].state = "RESOLVED" /\ d[j].peer = lease[j].peer
        /\ d[j].sent = lease[j].sent /\ d[j].result = lease[j].result
    BY <1>1, <1>2, LeaseSet
  <2>2. lease' = d
    BY <1>1
  <2> HIDE DEF d
  <2> QED BY <2>1, <2>2
<1>6. fd' \in [Peers -> {"NONE", "OPEN", "CLOSED"}]
      /\ \A q \in Peers : fd'[q] = IF q = h THEN "CLOSED" ELSE fd[q]
  BY <1>1, <1>2
<1>7. /\ status' \in [Roles -> RoleStatus]
      /\ \A r \in Roles : \/ status'[r] = status[r]
                          \/ p /\ status'[r].peer = h /\ status'[r].state = "REAPED"
  <2> HIDE DEF RoleStatus
  <2> QED BY <1>1, <1>2, RoleAfterIs
<1>8. chan' \in [Jobs -> Answers \cup {None}] /\ \A k \in Jobs : chan'[k] = IF k = j THEN a ELSE chan[k]
  BY <1>1, <1>2
<1> QED BY <1>4, <1>5, <1>6, <1>7, <1>8 DEF h

\* The roles of a dispatcher that is RED, and of a document taken now.
LEMMA RedRoles ==
    ASSUME Typed
    PROVE  /\ AllRed \in [Roles -> RoleStatus] /\ \A r \in Roles : AllRed[r].state = "RED"
           /\ ClosePending \in [Peers -> HandStates]
<1>1. status \in [Roles -> RoleStatus] /\ hand \in [Peers -> HandStates]
  BY DEF Typed
<1>2. \A r \in Roles : [status[r] EXCEPT !.state = "RED"] \in RoleStatus
  BY <1>1 DEF RoleStatus, RoleStates
<1> QED BY <1>1, <1>2 DEF AllRed, ClosePending, HandStates, RoleStatus

\* The goroutines that answer.
LEMMA Answering ==
    ASSUME Typed, NEW j \in Jobs
    PROVE  AbortAnswer(j) \in Answers /\ AbortAnswer(j) # "CONFIRMED"
           /\ (AbortAnswer(j) = "RETRY" => ~lease[j].sent)
BY DEF AbortAnswer, Answers

-----------------------------------------------------------------------------
(* Types.                                                                  *)

LEMMA TypeInit == ASSUME Init PROVE Typed
<1>1. /\ NoRun \in SupRow /\ NoWorker \in WkRow /\ NoLease \in LeaseRow /\ NoAbort \in AbortRow
      /\ [state |-> "EMPTY", peer |-> None] \in RoleStatus
  BY DEF SupRow, WkSteps, WkRow, LeaseRow, AbortRow, NoRun, NoWorker, NoLease, NoAbort,
         RoleStatus, RoleStates
<1>2. status \in [Roles -> RoleStatus]
  BY <1>1 DEF Init
<1>3. doc \in Documents
  BY <1>2 DEF Init, Documents
<1>4. sup \in [Roles -> SupRow] /\ wk \in [Peers -> WkRow] /\ lease \in [Jobs -> LeaseRow]
      /\ abort \in [Jobs -> AbortRow]
  BY <1>1 DEF Init
<1>5. faults \in 0 .. MaxFaults
  BY SandboxAssumption DEF Init
<1> QED BY <1>2, <1>3, <1>4, <1>5 DEF Init, Typed, ProcStates, HandStates, SubStates, Answers

LEMMA TypeHost == ASSUME Typed, Host PROVE Typed'
<1> USE DEF host, disp, flag, stat, subm
<1>0. \A r \in Roles : sup[r] \in SupRow
  BY DEF Typed
<1>1. ASSUME NEW r \in Roles, NEW h \in Peers, Launch(r, h) PROVE Typed'
  <2>1. [run |-> h, step |-> "SENT"] \in SupRow
    BY DEF SupRow
  <2>2. sup' \in [Roles -> SupRow]
    BY <1>1, <2>1 DEF Typed, Launch
  <2>3. proc' \in [Peers -> ProcStates] /\ hand' \in [Peers -> HandStates]
    BY <1>1 DEF Typed, Launch, ProcStates, HandStates
  <2> QED BY <1>1, <2>2, <2>3 DEF Typed, Launch
<1>2. ASSUME NEW r \in Roles, Start(r) PROVE Typed'
  <2>1. [sup[r] EXCEPT !.step = "STARTED"] \in SupRow
    BY <1>0 DEF SupRow
  <2>2. sup' = [sup EXCEPT ![r] = [sup[r] EXCEPT !.step = "STARTED"]]
    BY <1>2 DEF Start
  <2>3. sup' \in [Roles -> SupRow]
    BY <2>1, <2>2 DEF Typed
  <2>4. proc' \in [Peers -> ProcStates]
    BY <1>2 DEF Typed, Start, ProcStates
  <2> QED BY <1>2, <2>3, <2>4 DEF Typed, Start
<1>3. ASSUME NEW r \in Roles, SeeReady(r) PROVE Typed'
  <2>1. [sup[r] EXCEPT !.step = "OWNED"] \in SupRow
    BY <1>0 DEF SupRow
  <2>2. sup' = [sup EXCEPT ![r] = [sup[r] EXCEPT !.step = "OWNED"]]
    BY <1>3 DEF SeeReady
  <2>3. sup' \in [Roles -> SupRow]
    BY <2>1, <2>2 DEF Typed
  <2> QED BY <1>3, <2>3 DEF Typed, SeeReady
<1>4. ASSUME NEW r \in Roles, CleanupRun(r) PROVE Typed'
  <2>1. NoRun \in SupRow
    BY DEF NoRun, SupRow
  <2>2. sup' \in [Roles -> SupRow]
    BY <1>4, <2>1 DEF Typed, CleanupRun
  <2> QED BY <1>4, <2>2 DEF Typed, CleanupRun
<1>5. ASSUME StopSupervisor \/ SupervisorFails PROVE Typed'
  BY <1>5 DEF Typed, StopSupervisor, SupervisorFails
<1>6. ASSUME NEW h \in Peers, ProcessExits(h) PROVE Typed'
  BY <1>6 DEF Typed, ProcessExits, ProcStates
<1> QED BY <1>1, <1>2, <1>3, <1>4, <1>5, <1>6 DEF Host

\* The calls that handlers make.
LEMMA CallsAre ==
    /\ \A j \in Jobs : <<"ABORT", j>> \in Calls
    /\ \A h \in Peers : <<"DROP", h>> \in Calls /\ <<"FENCE", h>> \in Calls /\ <<"EXPIRED", h>> \in Calls
    /\ <<"RED">> \in Calls
BY DEF Calls

LEMMA TypeStatusHandoff ==
    ASSUME Typed, \/ WriteStatus \/ WriteStatusFails
                  \/ \E h \in Peers : AcceptHandoff(h) \/ RejectHandoff(h) \/ ExpireHandoff(h)
                                      \/ Fencing(h)
    PROVE  Typed'
<1> USE DEF host, disp, flag, stat, subm
<1>1. ASSUME WriteStatus PROVE Typed'
  <2> DEFINE now == [state |-> IF red THEN "RED" ELSE IF closed THEN "STOPPING" ELSE "RUNNING",
                     roles |-> IF red THEN AllRed ELSE status]
  <2>1. now \in Documents
    BY RedRoles DEF Documents, Typed
  <2>2. doc' = now
    BY <1>1 DEF WriteStatus
  <2> HIDE DEF now
  <2> QED BY <1>1, <2>1, <2>2 DEF WriteStatus, Typed
<1>2. ASSUME WriteStatusFails PROVE Typed'
  <2>1. status' \in [Roles -> RoleStatus]
    BY <1>2, RedRoles DEF WriteStatusFails
  <2>2. todo' \subseteq Calls /\ faults' \in 0 .. MaxFaults
    BY <1>2, CallsAre, SandboxAssumption DEF WriteStatusFails, Typed
  <2> QED BY <1>2, <2>1, <2>2 DEF WriteStatusFails, Typed
<1>3. ASSUME NEW h \in Peers, AcceptHandoff(h) PROVE Typed'
  <2>1. PeerRole[h] \in Roles /\ [state |-> "HANDED_OFF", peer |-> h] \in RoleStatus
    BY SandboxAssumption DEF RoleStatus, RoleStates
  <2>2. status' \in [Roles -> RoleStatus]
    BY <1>3, <2>1 DEF AcceptHandoff, Typed
  <2>3. [sup[PeerRole[h]] EXCEPT !.step = "ACKED"] \in SupRow
    BY <2>1 DEF Typed, SupRow
  <2>4. sup' = [sup EXCEPT ![PeerRole[h]] = [sup[PeerRole[h]] EXCEPT !.step = "ACKED"]]
    BY <1>3 DEF AcceptHandoff
  <2>5. sup' \in [Roles -> SupRow]
    BY <2>3, <2>4 DEF Typed
  <2>6. hand' \in [Peers -> HandStates] /\ fd' \in [Peers -> {"NONE", "OPEN", "CLOSED"}]
    BY <1>3 DEF AcceptHandoff, Typed, HandStates
  <2> QED BY <1>3, <2>2, <2>5, <2>6 DEF AcceptHandoff, Typed
<1>4. ASSUME NEW h \in Peers, RejectHandoff(h) PROVE Typed'
  <2>1. hand' \in [Peers -> HandStates] /\ fd' \in [Peers -> {"NONE", "OPEN", "CLOSED"}]
    BY <1>4 DEF RejectHandoff, Typed, HandStates
  <2>2. todo' \subseteq Calls
    BY <1>4, CallsAre DEF RejectHandoff, Typed
  <2>3. faults' \in 0 .. MaxFaults
    BY <1>4, SandboxAssumption DEF RejectHandoff, Typed
  <2> QED BY <1>4, <2>1, <2>2, <2>3 DEF RejectHandoff, Typed
<1>5. ASSUME NEW h \in Peers, ExpireHandoff(h) PROVE Typed'
  BY <1>5, CallsAre DEF ExpireHandoff, Typed, HandStates
<1>6. ASSUME NEW h \in Peers, NEW call \in {"FENCE", "EXPIRED"}, Fence(call, h) PROVE Typed'
  <2>1. status' \in [Roles -> RoleStatus]
    BY <1>6, RoleAfterIs DEF Fence
  <2>2. proc' \in [Peers -> ProcStates] /\ fd' \in [Peers -> {"NONE", "OPEN", "CLOSED"}]
        /\ todo' \subseteq Calls
    BY <1>6 DEF Fence, Typed, ProcStates
  <2> QED BY <1>6, <2>1, <2>2 DEF Fence, Typed
<1>7. ASSUME NEW h \in Peers, NEW call \in {"FENCE", "EXPIRED"}, FenceFails(call, h) PROVE Typed'
  <2>1. proc' \in [Peers -> ProcStates] /\ fd' \in [Peers -> {"NONE", "OPEN", "CLOSED"}]
        /\ todo' \subseteq Calls /\ faults' \in 0 .. MaxFaults
    BY <1>7, CallsAre, SandboxAssumption DEF FenceFails, Typed, ProcStates
  <2> QED BY <1>7, <2>1 DEF FenceFails, Typed
<1>8. ASSUME NEW h \in Peers, NEW call \in {"FENCE", "EXPIRED"}, FenceAgain(call, h) PROVE Typed'
  BY <1>8 DEF FenceAgain, Typed
<1> QED BY <1>1, <1>2, <1>3, <1>4, <1>5, <1>6, <1>7, <1>8 DEF Fencing

LEMMA TypeWorker ==
    ASSUME Typed, \E h \in Peers : \/ Register(h) \/ RegistrationRejected(h) \/ Install(h)
                                   \/ RegistrationAccepted(h) \/ RegistrationLost(h) \/ Drop(h)
    PROVE  Typed'
<1> USE DEF host, disp, flag, stat, subm
<1>0. wk \in [Peers -> WkRow]
  BY DEF Typed
<1>1. ASSUME NEW h \in Peers, Register(h) PROVE Typed'
  <2>1. wk' \in [Peers -> WkRow]
    BY <1>0, <1>1, WorkerMoves DEF Register, WkSteps
  <2> QED BY <1>1, <2>1 DEF Register, Typed, HandStates
<1>2. ASSUME NEW h \in Peers, RegistrationRejected(h) PROVE Typed'
  <2>1. wk' \in [Peers -> WkRow]
    BY <1>0, <1>2, WorkerMoves DEF RegistrationRejected, WkSteps
  <2> QED BY <1>2, <2>1, CallsAre DEF RegistrationRejected, Typed
<1>3. ASSUME NEW h \in Peers, Install(h) PROVE Typed'
  <2>1. wk' \in [Peers -> WkRow]
    BY <1>0, <1>3, WorkerMoves DEF Install, WkSteps
  <2>2. worker' \in [Roles -> Peers \cup {None}]
    BY <1>3 DEF Install, Typed
  <2> QED BY <1>3, <2>1, <2>2 DEF Install, Typed
<1>4. ASSUME NEW h \in Peers, RegistrationAccepted(h) PROVE Typed'
  <2>1. PICK x \in WkSteps : wk' = [wk EXCEPT ![h].ready = TRUE, ![h].step = x]
    BY <1>4 DEF RegistrationAccepted, WkSteps
  <2>2. [wk EXCEPT ![h].ready = TRUE, ![h].step = x] \in [Peers -> WkRow]
    BY <1>0, WorkerReady
  <2>3. status' \in [Roles -> RoleStatus]
    BY <1>4, RoleAfterIs DEF RegistrationAccepted
  <2>4. todo' \subseteq Calls
    BY <1>4, CallsAre DEF RegistrationAccepted, Typed
  <2> QED BY <1>4, <2>1, <2>2, <2>3, <2>4 DEF RegistrationAccepted, Typed
<1>5. ASSUME NEW h \in Peers, RegistrationLost(h) PROVE Typed'
  <2>1. wk' \in [Peers -> WkRow]
    BY <1>0, <1>5, WorkerMoves DEF RegistrationLost, WkSteps
  <2> QED BY <1>5, <2>1, CallsAre DEF RegistrationLost, Typed
<1>6. ASSUME NEW h \in Peers, Drop(h) PROVE Typed'
  <2>1. wk' \in [Peers -> WkRow]
    BY <1>0, <1>6, WorkerReady DEF Drop
  <2>2. wk[h].active \in Jobs \cup {None}
    BY <1>0 DEF WkRow
  <2>3. todo' \subseteq Calls
    <3> DEFINE next == IF wk[h].active # None THEN {<<"ABORT", wk[h].active>>}
                       ELSE IF fd[h] = "OPEN" THEN {<<"FENCE", h>>} ELSE {}
    <3>1. next \subseteq Calls
      BY <2>2, CallsAre
    <3>2. todo' = (todo \ {<<"DROP", h>>}) \cup next
      BY <1>6 DEF Drop
    <3> HIDE DEF next
    <3> QED BY <3>1, <3>2 DEF Typed
  <2>4. worker' \in [Roles -> Peers \cup {None}]
    BY <1>6 DEF Drop, Typed
  <2> QED BY <1>6, <2>1, <2>3, <2>4 DEF Drop, Typed
<1> QED BY <1>1, <1>2, <1>3, <1>4, <1>5, <1>6

LEMMA TypeSubmission ==
    ASSUME Typed, \E j \in Jobs : Submission(j) \/ Deadline(j) \/ BeginAbort(j)
    PROVE  Typed'
<1> USE DEF host, disp, flag, stat, subm
<1>0. /\ wk \in [Peers -> WkRow] /\ lease \in [Jobs -> LeaseRow] /\ abort \in [Jobs -> AbortRow]
      /\ sub \in [Jobs -> SubStates] /\ chan \in [Jobs -> Answers \cup {None}]
      /\ told \in [Jobs -> Answers \cup {None}]
  BY DEF Typed
<1>1. ASSUME NEW j \in Jobs, Submit(j) PROVE Typed'
  <2> DEFINE h == worker[JobRole[j]]
  <2>1. h \in Peers
    BY <1>1, SandboxAssumption DEF Submit, Eligible, Typed
  <2>2. lease' \in [Jobs -> LeaseRow]
    BY <1>0, <1>1, <2>1, LeaseOffered DEF Submit
  <2>3. wk' \in [Peers -> WkRow]
    BY <1>0, <1>1, <2>1, WorkerLeased DEF Submit
  <2>4. status' \in [Roles -> RoleStatus]
    BY <1>1, <2>1, RoleAfterIs DEF Submit
  <2>5. sub' \in [Jobs -> SubStates] /\ todo' \subseteq Calls
    BY <1>0, <1>1, CallsAre DEF Submit, SubStates, Typed
  <2> QED BY <1>1, <2>2, <2>3, <2>4, <2>5 DEF Submit, Typed
<1>2. ASSUME NEW j \in Jobs, SubmitRefused(j) PROVE Typed'
  <2>1. sub' \in [Jobs -> SubStates] /\ chan' \in [Jobs -> Answers \cup {None}]
    BY <1>0, <1>2 DEF SubmitRefused, SubStates, Answers
  <2> QED BY <1>2, <2>1 DEF SubmitRefused, Typed
<1>3. ASSUME NEW j \in Jobs, Offer(j) PROVE Typed'
  <2>1. sub' \in [Jobs -> SubStates] /\ todo' \subseteq Calls
    BY <1>0, <1>3, CallsAre DEF Offer, SubStates, Typed
  <2> QED BY <1>3, <2>1 DEF Offer, Typed
<1>4. ASSUME NEW j \in Jobs, TakeRelay(j) PROVE Typed'
  <2>1. sub' \in [Jobs -> SubStates] /\ relay' \in Jobs \cup {None}
    BY <1>0, <1>4 DEF TakeRelay, SubStates, Typed
  <2> QED BY <1>4, <2>1 DEF TakeRelay, Typed
<1>5. ASSUME NEW j \in Jobs, WriteFrames(j) PROVE Typed'
  <2>1. sub' \in [Jobs -> SubStates] /\ relay' \in Jobs \cup {None}
        /\ told' \in [Jobs -> Answers \cup {None}]
    BY <1>0, <1>5 DEF WriteFrames, SubStates
  <2> QED BY <1>5, <2>1 DEF WriteFrames, Typed
<1>6. ASSUME NEW j \in Jobs, Deadline(j) PROVE Typed'
  BY <1>6, CallsAre DEF Deadline, Typed
<1>7. ASSUME NEW j \in Jobs, BeginAbort(j) PROVE Typed'
  <2>1. lease[j].sent \in BOOLEAN
    BY <1>0 DEF LeaseRow
  <2>2. abort' \in [Jobs -> AbortRow]
    BY <1>0, <1>7, <2>1, AbortSet DEF BeginAbort
  <2> QED BY <1>7, <2>2 DEF BeginAbort, Typed
<1> QED BY <1>1, <1>2, <1>3, <1>4, <1>5, <1>6, <1>7 DEF Submission

LEMMA TypeServe ==
    ASSUME Typed, \E h \in Peers : \/ Claim(h) \/ TransferWritten(h) \/ TransferFails(h)
                                   \/ Result(h) \/ Outcome(h) \/ ConnectionEnds(h)
                                   \/ Confirm(h) \/ ConfirmFails(h),
           WorkerInv, LeaseInv
    PROVE  Typed'
<1> USE DEF host, disp, flag, stat, subm
<1>0. /\ wk \in [Peers -> WkRow] /\ lease \in [Jobs -> LeaseRow]
      /\ \A h \in Peers : wk[h].active \in Jobs \cup {None}
  BY DEF Typed, WkRow
<1>1. ASSUME NEW h \in Peers, Claim(h) PROVE Typed'
  <2>1. wk[h].active \in Jobs
    BY <1>0, <1>1 DEF Claim
  <2>2. lease' \in [Jobs -> LeaseRow]
    BY <1>0, <1>1, <2>1, LeaseSet DEF Claim
  <2>3. wk' \in [Peers -> WkRow]
    BY <1>0, <1>1, WorkerMoves DEF Claim, WkSteps
  <2> QED BY <1>1, <2>2, <2>3 DEF Claim, Typed
<1>2. ASSUME NEW h \in Peers, wk[h].step = "TRANSFER" PROVE LeaseOf(h) \in Jobs
  BY <1>2, LeaseOfIs DEF WorkerInv, Knows
<1>3. ASSUME NEW h \in Peers, TransferWritten(h) PROVE Typed'
  <2>1. wk' \in [Peers -> WkRow]
    BY <1>0, <1>3, WorkerMoves DEF TransferWritten, WkSteps
  <2>2. LeaseOf(h) \in Jobs
    BY <1>2, <1>3 DEF TransferWritten
  <2>3. ran' \subseteq Jobs \X Peers
    BY <1>3, <2>2 DEF TransferWritten, Typed
  <2> QED BY <1>3, <2>1, <2>3 DEF TransferWritten, Typed
<1>4. ASSUME NEW h \in Peers, TransferFails(h) PROVE Typed'
  <2>1. wk' \in [Peers -> WkRow]
    BY <1>0, <1>4, WorkerMoves DEF TransferFails, EndWorker, WkSteps
  <2>2. LeaseOf(h) \in Jobs
    BY <1>2, <1>4 DEF TransferFails
  <2>3. todo' \subseteq Calls
    BY <1>4, <2>2, CallsAre DEF TransferFails, Typed
  <2> QED BY <1>4, <2>1, <2>3 DEF TransferFails, Typed
<1>5. ASSUME NEW h \in Peers, Result(h) PROVE Typed'
  <2>1. wk[h].active \in Jobs
    BY <1>0, <1>5 DEF Result
  <2>2. lease' \in [Jobs -> LeaseRow]
    BY <1>0, <1>5, <2>1, LeaseSet DEF Result
  <2> QED BY <1>5, <2>2 DEF Result, Typed
<1>6. ASSUME NEW h \in Peers, Outcome(h) \/ ConnectionEnds(h) \/ Confirm(h) PROVE Typed'
  <2>1. \E x \in {"CONFIRM", "ENDED", "PROVEN"} : wk' = [wk EXCEPT ![h].step = x]
    BY <1>6 DEF Outcome, ConnectionEnds, Confirm, EndWorker
  <2>2. wk' \in [Peers -> WkRow]
    <3>1. PICK x \in WkSteps : wk' = [wk EXCEPT ![h].step = x]
      BY <2>1 DEF WkSteps
    <3> QED BY <1>0, <3>1, WorkerMoves
  <2> QED BY <1>6, <2>2, CallsAre DEF Outcome, ConnectionEnds, Confirm, Typed
<1>7. ASSUME NEW h \in Peers, ConfirmFails(h) PROVE Typed'
  <2>1. wk' \in [Peers -> WkRow]
    BY <1>0, <1>7, WorkerMoves DEF ConfirmFails, WkSteps
  <2>2. faults' \in 0 .. MaxFaults
    BY <1>7, SandboxAssumption DEF ConfirmFails, Typed
  <2> QED BY <1>7, <2>1, <2>2, CallsAre DEF ConfirmFails, Typed
<1> QED BY <1>1, <1>3, <1>4, <1>5, <1>6, <1>7

\* The peer of an abort, and the lease of a peer whose result is confirmed.
LEMMA Leased ==
    ASSUME Typed, LeaseInv, WorkerInv
    PROVE  /\ \A j \in Jobs : abort[j].step # "NONE" => lease[j].peer \in Peers
           /\ \A h \in Peers : wk[h].step \in {"TRANSFER", "CONFIRM", "PROVEN", "QUARANTINE"} =>
                                 LeaseOf(h) \in Jobs /\ lease[LeaseOf(h)].peer = h
<1>1. \A j \in Jobs : lease[j].peer \in Peers \cup {None}
  BY DEF Typed, LeaseRow
<1>2. ASSUME NEW h \in Peers, wk[h].step \in {"TRANSFER", "CONFIRM", "PROVEN", "QUARANTINE"}
      PROVE  LeaseOf(h) \in Jobs /\ lease[LeaseOf(h)].peer = h
  <2>1. PICK j \in Jobs : lease[j].peer = h
    BY <1>2 DEF WorkerInv, Knows
  <2> QED BY <2>1, LeaseOfIs
<1>3. \A j \in Jobs : abort[j].step # "NONE" => lease[j].peer \in Peers
  BY <1>1 DEF LeaseInv
<1> QED BY <1>2, <1>3

LEMMA TypeEnd ==
    ASSUME Typed, LeaseInv, WorkerInv,
           \/ \E j \in Jobs : Tear(j) \/ TearFails(j) \/ EndAbort(j)
           \/ \E h \in Peers : Quarantine(h) \/ Publish(h)
           \/ LatchRed \/ Shutdown \/ ServeReturns
    PROVE  Typed'
<1> USE DEF host, disp, flag, stat, subm
<1>0. /\ wk \in [Peers -> WkRow] /\ lease \in [Jobs -> LeaseRow] /\ abort \in [Jobs -> AbortRow]
  BY DEF Typed
<1>1. ASSUME NEW j \in Jobs, Tear(j) PROVE Typed'
  <2>1. abort' \in [Jobs -> AbortRow]
    BY <1>0, <1>1, AbortSet DEF Tear
  <2> QED BY <1>1, <2>1 DEF Tear, Typed, ProcStates
<1>2. ASSUME NEW j \in Jobs, TearFails(j) PROVE Typed'
  <2>1. abort' \in [Jobs -> AbortRow]
    BY <1>0, <1>2, AbortSet DEF TearFails
  <2>2. proc' \in [Peers -> ProcStates] /\ faults' \in 0 .. MaxFaults
    BY <1>2, Leased, SandboxAssumption DEF TearFails, Typed, ProcStates
  <2> QED BY <1>2, <2>1, <2>2, CallsAre DEF TearFails, Typed
<1>3. ASSUME NEW j \in Jobs, EndAbort(j) PROVE Typed'
  <2>1. abort' \in [Jobs -> AbortRow]
    BY <1>0, <1>3, AbortSet DEF EndAbort
  <2>2. lease[j].peer \in Peers /\ abort[j].proven \in BOOLEAN
    BY <1>0, <1>3, Leased DEF EndAbort, AbortRow
  <2>3. CASE Unresolved(j)
    <3>1. Resolve(j, AbortAnswer(j), abort[j].proven, wk)
      BY <1>3, <2>3 DEF EndAbort
    <3> QED BY <1>0, <1>3, <2>1, <2>2, <3>1, Resolves, Answering DEF EndAbort, Typed
  <2>4. CASE ~Unresolved(j)
    BY <1>3, <2>1, <2>4 DEF EndAbort, Typed
  <2> QED BY <2>3, <2>4
<1>4. \A h \in Peers : EndWorker(h) \in [Peers -> WkRow]
  BY <1>0, WorkerMoves DEF EndWorker, WkSteps
<1>5. ASSUME NEW h \in Peers, Quarantine(h) PROVE Typed'
  <2>1. LeaseOf(h) \in Jobs /\ lease[LeaseOf(h)].peer = h
    BY <1>5, Leased DEF Quarantine
  <2>2. proc' \in [Peers -> ProcStates] /\ todo' \subseteq Calls
    BY <1>5, CallsAre DEF Quarantine, Typed, ProcStates
  <2>3. CASE Unresolved(LeaseOf(h))
    <3>1. Resolve(LeaseOf(h), "QUARANTINE", FALSE, EndWorker(h))
      BY <1>5, <2>3 DEF Quarantine
    <3> QED BY <1>4, <1>5, <2>1, <2>2, <3>1, Resolves DEF Quarantine, Typed, Answers
  <2>4. CASE ~Unresolved(LeaseOf(h))
    BY <1>4, <1>5, <2>2, <2>4 DEF Quarantine, Typed
  <2> QED BY <2>3, <2>4
<1>6. ASSUME NEW h \in Peers, Publish(h) PROVE Typed'
  <2>1. LeaseOf(h) \in Jobs /\ lease[LeaseOf(h)].peer = h
    BY <1>6, Leased DEF Publish
  <2>2. todo' \subseteq Calls
    BY <1>6, CallsAre DEF Publish, Typed
  <2>3. CASE ~red /\ ~closed /\ Unresolved(LeaseOf(h))
    <3>1. Resolve(LeaseOf(h), "CONFIRMED", TRUE, EndWorker(h))
      BY <1>6, <2>3 DEF Publish
    <3> QED BY <1>4, <1>6, <2>1, <2>2, <3>1, Resolves DEF Publish, Typed, Answers
  <2>4. CASE ~(~red /\ ~closed /\ Unresolved(LeaseOf(h)))
    BY <1>4, <1>6, <2>2, <2>4 DEF Publish, Typed
  <2> QED BY <2>3, <2>4
<1>7. FenceAll \subseteq Calls
  BY CallsAre DEF FenceAll, Pending
<1>8. ASSUME LatchRed PROVE Typed'
  <2>1. \A r \in Roles : worker[r] \in Peers \cup {None}
    BY DEF Typed
  <2>2. {<<"DROP", h>> : h \in {worker[r] : r \in Roles} \ {None}} \subseteq Calls
    BY <2>1, CallsAre
  <2>3. todo' \subseteq Calls
    BY <1>7, <1>8, <2>2 DEF LatchRed, Typed
  <2>4. hand' \in [Peers -> HandStates] /\ status' \in [Roles -> RoleStatus]
    BY <1>8, RedRoles DEF LatchRed, Typed
  <2> QED BY <1>8, <2>3, <2>4 DEF LatchRed, Typed
<1>9. ASSUME Shutdown \/ ServeReturns PROVE Typed'
  BY <1>7, <1>9, RedRoles DEF Shutdown, ServeReturns, Typed
<1> QED BY <1>1, <1>2, <1>3, <1>5, <1>6, <1>8, <1>9

\* A step of the program keeps the types.
LEMMA TypeNext == ASSUME Typed, LeaseInv, WorkerInv, Next PROVE Typed'
BY TypeHost, TypeStatusHandoff, TypeWorker, TypeSubmission, TypeServe, TypeEnd
   DEF Next, Dispatcher, Frame, Handler, Abort

-----------------------------------------------------------------------------
(* The relay, the latch and the shutdown.                                  *)

LEMMA FlagHost == ASSUME FlagInv, Typed, Host PROVE FlagInv'
<1> USE DEF host, disp, flag, stat, subm
<1>1. UNCHANGED <<flag, relay, sub>> /\ Pending' \subseteq Pending
  <2>1. ASSUME NEW r \in Roles, NEW h \in Peers, Launch(r, h)
        PROVE  UNCHANGED <<flag, relay, sub>> /\ Pending' \subseteq Pending
    BY <2>1 DEF Launch, Pending, Typed
  <2>2. ASSUME NEW r \in Roles, Start(r) \/ SeeReady(r) \/ CleanupRun(r)
        PROVE  UNCHANGED <<flag, relay, sub>> /\ Pending' \subseteq Pending
    BY <2>2 DEF Start, SeeReady, CleanupRun, Pending
  <2>3. ASSUME NEW h \in Peers, ProcessExits(h)
        PROVE  UNCHANGED <<flag, relay, sub>> /\ Pending' \subseteq Pending
    BY <2>3 DEF ProcessExits, Pending
  <2>4. ASSUME StopSupervisor \/ SupervisorFails
        PROVE  UNCHANGED <<flag, relay, sub>> /\ Pending' \subseteq Pending
    BY <2>4 DEF StopSupervisor, SupervisorFails, Pending
  <2> QED BY <2>1, <2>2, <2>3, <2>4 DEF Host
<1> QED BY <1>1 DEF FlagInv

LEMMA FlagNext == ASSUME FlagInv, Typed, Next PROVE FlagInv'
<1> USE DEF host, disp, flag, stat, subm
<1>1. ASSUME UNCHANGED <<flag, relay, sub>>, Pending' \subseteq Pending PROVE FlagInv'
  BY <1>1 DEF FlagInv
<1>2. ASSUME NEW h \in Peers,
             \/ WriteStatus \/ RejectHandoff(h) \/ ExpireHandoff(h) \/ Fencing(h)
             \/ Register(h) \/ RegistrationRejected(h) \/ Install(h) \/ RegistrationAccepted(h)
             \/ RegistrationLost(h) \/ Drop(h)
      PROVE  FlagInv'
  <2>1. ASSUME WriteStatus \/ Fencing(h) PROVE UNCHANGED <<flag, relay, sub, hand>>
    BY <2>1 DEF WriteStatus, Fencing, Fence, FenceFails, FenceAgain
  <2>2. ASSUME \/ RegistrationRejected(h) \/ Install(h) \/ RegistrationAccepted(h)
               \/ RegistrationLost(h) \/ Drop(h)
        PROVE  UNCHANGED <<flag, relay, sub, hand>>
    BY <2>2 DEF RegistrationRejected, Install, RegistrationAccepted, RegistrationLost, Drop
  <2>3. ASSUME RejectHandoff(h) \/ ExpireHandoff(h) \/ Register(h)
        PROVE  UNCHANGED <<flag, relay, sub>> /\ Pending' \subseteq Pending
    BY <2>3 DEF RejectHandoff, ExpireHandoff, Register, Pending, Typed
  <2> QED BY <1>1, <1>2, <2>1, <2>2, <2>3 DEF Pending
<1>3. ASSUME NEW h \in Peers,
             \/ Claim(h) \/ TransferWritten(h) \/ TransferFails(h) \/ Result(h) \/ Outcome(h)
             \/ ConnectionEnds(h) \/ Confirm(h) \/ ConfirmFails(h) \/ Quarantine(h) \/ Publish(h)
      PROVE  FlagInv'
  <2>1. UNCHANGED <<flag, relay, sub, hand>>
    BY <1>3 DEF Claim, TransferWritten, TransferFails, Result, Outcome, ConnectionEnds, Confirm,
                ConfirmFails, Quarantine, Publish
  <2> QED BY <1>1, <2>1 DEF Pending
<1>4. ASSUME NEW j \in Jobs, Deadline(j) \/ Abort(j) PROVE FlagInv'
  <2>1. UNCHANGED <<flag, relay, sub, hand>>
    BY <1>4 DEF Deadline, Abort, BeginAbort, Tear, TearFails, EndAbort
  <2> QED BY <1>1, <2>1 DEF Pending
<1>5. CASE WriteStatusFails
  BY <1>5 DEF WriteStatusFails, FlagInv, Pending
<1>6. ASSUME NEW h \in Peers, AcceptHandoff(h) PROVE FlagInv'
  BY <1>6 DEF AcceptHandoff, FlagInv
<1>7. ASSUME NEW j \in Jobs, Submit(j) \/ SubmitRefused(j) \/ Offer(j) PROVE FlagInv'
  <2>1. UNCHANGED <<flag, relay, hand>>
    BY <1>7 DEF Submit, SubmitRefused, Offer
  <2>2. \A k \in Jobs : sub'[k] = "WRITE" => sub[k] = "WRITE"
    BY <1>7 DEF Submit, SubmitRefused, Offer, Typed
  <2> QED BY <2>1, <2>2 DEF FlagInv, Pending
<1>8. ASSUME NEW j \in Jobs, TakeRelay(j) PROVE FlagInv'
  BY <1>8, SandboxAssumption DEF TakeRelay, FlagInv, Typed, Pending
<1>9. ASSUME NEW j \in Jobs, WriteFrames(j) PROVE FlagInv'
  BY <1>9 DEF WriteFrames, FlagInv, Typed, Pending
<1>10. CASE LatchRed
  <2>1. Pending' \subseteq Pending
    BY <1>10 DEF LatchRed, Pending, ClosePending
  <2> QED BY <1>10, <2>1 DEF LatchRed, FlagInv
<1>11. CASE Shutdown
  <2>1. Pending' = {}
    BY <1>11 DEF Shutdown, Pending, ClosePending
  <2> QED BY <1>11, <2>1 DEF Shutdown, FlagInv
<1>12. CASE ServeReturns
  BY <1>12 DEF ServeReturns, FlagInv, Pending
<1>13. CASE WriteStatus
  BY <1>13 DEF WriteStatus, FlagInv, Pending
<1> QED BY <1>2, <1>3, <1>4, <1>5, <1>6, <1>7, <1>8, <1>9, <1>10, <1>11, <1>12, <1>13, FlagHost
        DEF Next, Dispatcher, Frame, Handler, Submission

-----------------------------------------------------------------------------
(* What the steps of a peer's connection and of a lease change.            *)

\* The goroutine of h is now at x; everything else of the workers is as it was.
At(h, x) ==
    \A q \in Peers : /\ wk'[q].step = IF q = h THEN x ELSE wk[q].step
                     /\ wk'[q].ready = wk[q].ready /\ wk'[q].used = wk[q].used
                     /\ wk'[q].active = wk[q].active

\* Every step that only moves the goroutine of a connection.
LEMMA Moving ==
    ASSUME Typed, NEW h \in Peers
    PROVE  /\ Register(h) => At(h, "PROVING")
           /\ RegistrationRejected(h) => At(h, "ENDED")
           /\ Install(h) => At(h, "INSTALLED")
           /\ RegistrationLost(h) => At(h, "ENDED")
           /\ Claim(h) => At(h, "TRANSFER")
           /\ TransferWritten(h) => At(h, "SERVING")
           /\ TransferFails(h) => At(h, "ENDED")
           /\ Outcome(h) => At(h, "CONFIRM")
           /\ ConnectionEnds(h) => At(h, "ENDED")
           /\ Confirm(h) => At(h, "PROVEN")
           /\ ConfirmFails(h) => At(h, "QUARANTINE")
<1>0. wk \in [Peers -> WkRow]
  BY DEF Typed
<1>1. ASSUME NEW x \in WkSteps, wk' = [wk EXCEPT ![h].step = x] PROVE At(h, x)
  BY <1>0, <1>1, WorkerMoves DEF At
<1>2. /\ "PROVING" \in WkSteps /\ "ENDED" \in WkSteps /\ "INSTALLED" \in WkSteps
      /\ "TRANSFER" \in WkSteps /\ "SERVING" \in WkSteps /\ "CONFIRM" \in WkSteps
      /\ "PROVEN" \in WkSteps /\ "QUARANTINE" \in WkSteps
  BY DEF WkSteps
<1>3. Register(h) => At(h, "PROVING")
  BY <1>1, <1>2 DEF Register
<1>4. RegistrationRejected(h) => At(h, "ENDED")
  BY <1>1, <1>2 DEF RegistrationRejected
<1>5. Install(h) => At(h, "INSTALLED")
  BY <1>1, <1>2 DEF Install
<1>6. RegistrationLost(h) => At(h, "ENDED")
  BY <1>1, <1>2 DEF RegistrationLost
<1>7. Claim(h) => At(h, "TRANSFER")
  BY <1>1, <1>2 DEF Claim
<1>8. TransferWritten(h) => At(h, "SERVING")
  BY <1>1, <1>2 DEF TransferWritten
<1>9. TransferFails(h) => At(h, "ENDED")
  BY <1>1, <1>2 DEF TransferFails, EndWorker
<1>10. Outcome(h) => At(h, "CONFIRM")
  BY <1>1, <1>2 DEF Outcome
<1>11. ConnectionEnds(h) => At(h, "ENDED")
  BY <1>1, <1>2 DEF ConnectionEnds, EndWorker
<1>12. Confirm(h) => At(h, "PROVEN")
  BY <1>1, <1>2 DEF Confirm
<1>13. ConfirmFails(h) => At(h, "QUARANTINE")
  BY <1>1, <1>2 DEF ConfirmFails
<1> QED BY <1>3, <1>4, <1>5, <1>6, <1>7, <1>8, <1>9, <1>10, <1>11, <1>12, <1>13

\* The registration is accepted: the peer serves, or RED follows.
LEMMA Accepting ==
    ASSUME Typed, NEW h \in Peers, RegistrationAccepted(h)
    PROVE  /\ \A q \in Peers \ {h} : wk'[q] = wk[q]
           /\ wk[h].step = "INSTALLED" /\ wk'[h].used = wk[h].used /\ wk'[h].active = wk[h].active
           /\ \/ wk'[h].step = "SERVING" /\ todo' = todo
              \/ wk'[h].step = "ENDED" /\ todo' = todo \cup {<<"RED">>}
<1>0. wk \in [Peers -> WkRow]
  BY DEF Typed
<1>1. PICK x \in WkSteps : /\ wk' = [wk EXCEPT ![h].ready = TRUE, ![h].step = x]
                           /\ \/ x = "SERVING" /\ todo' = todo
                              \/ x = "ENDED" /\ todo' = todo \cup {<<"RED">>}
  <2>1. CASE status' = status
    BY <2>1 DEF RegistrationAccepted, WkSteps
  <2>2. CASE status' # status
    BY <2>2 DEF RegistrationAccepted, WkSteps
  <2> QED BY <2>1, <2>2
<1> DEFINE a == [wk EXCEPT ![h].ready = TRUE, ![h].step = x]
<1>2. /\ \A q \in Peers \ {h} : a[q] = wk[q]
      /\ a[h].step = x /\ a[h].used = wk[h].used /\ a[h].active = wk[h].active
  BY <1>0, WorkerReady
<1>3. wk' = a /\ wk[h].step = "INSTALLED"
  BY <1>1 DEF RegistrationAccepted
<1> HIDE DEF a
<1> QED BY <1>1, <1>2, <1>3

LEMMA Dropping ==
    ASSUME Typed, NEW h \in Peers, Drop(h)
    PROVE  /\ \A q \in Peers \ {h} : wk'[q] = wk[q]
           /\ wk'[h].step = wk[h].step /\ wk'[h].used = wk[h].used
           /\ wk'[h].active = None /\ ~wk'[h].ready
<1>0. wk \in [Peers -> WkRow]
  BY DEF Typed
<1> QED BY <1>0, WorkerReady DEF Drop

\* A submission leases the free peer of its role.
LEMMA Submitting ==
    ASSUME Typed, NEW j \in Jobs, Submit(j)
    PROVE  \E h \in Peers :
             /\ wk[h].ready /\ ~wk[h].used /\ wk[h].active = None
             /\ \A q \in Peers \ {h} : wk'[q] = wk[q]
             /\ wk'[h].step = wk[h].step /\ wk'[h].used /\ wk'[h].active = j
             /\ \A k \in Jobs \ {j} : lease'[k] = lease[k]
             /\ lease'[j].state = "OFFERED" /\ lease'[j].peer = h
             /\ lease'[j].sent = lease[j].sent /\ lease'[j].result = lease[j].result
             /\ status' = RoleAfter(h, "BUSY")
<1> DEFINE h == worker[JobRole[j]]
<1>0. wk \in [Peers -> WkRow] /\ lease \in [Jobs -> LeaseRow]
  BY DEF Typed
<1>1. h \in Peers
  BY SandboxAssumption DEF Submit, Eligible, Typed
<1>2. /\ wk[h].ready /\ ~wk[h].used /\ wk[h].active = None
      /\ wk' = [wk EXCEPT ![h].used = TRUE, ![h].active = j]
      /\ lease' = [lease EXCEPT ![j].state = "OFFERED", ![j].peer = h]
      /\ status' = RoleAfter(h, "BUSY")
  BY DEF Submit, Eligible
<1> HIDE DEF h
<1>3. /\ \A q \in Peers \ {h} : wk'[q] = wk[q]
      /\ wk'[h].step = wk[h].step /\ wk'[h].used /\ wk'[h].active = j
  <2> DEFINE u == [wk EXCEPT ![h].used = TRUE, ![h].active = j]
  <2>1. /\ \A q \in Peers \ {h} : u[q] = wk[q]
        /\ u[h].step = wk[h].step /\ u[h].used /\ u[h].active = j
    BY <1>0, <1>1, WorkerLeased
  <2>2. wk' = u
    BY <1>2
  <2> HIDE DEF u
  <2> QED BY <2>1, <2>2
<1>4. /\ \A k \in Jobs \ {j} : lease'[k] = lease[k]
      /\ lease'[j].state = "OFFERED" /\ lease'[j].peer = h
      /\ lease'[j].sent = lease[j].sent /\ lease'[j].result = lease[j].result
  BY <1>0, <1>1, <1>2, LeaseOffered
<1> QED BY <1>1, <1>2, <1>3, <1>4

\* A claim marks the transfer; a result is noted.
LEMMA Leasing ==
    ASSUME Typed, NEW h \in Peers, Claim(h) \/ Result(h)
    PROVE  LET j == wk[h].active IN
           /\ j \in Jobs /\ wk[h].step = "SERVING"
           /\ \A k \in Jobs \ {j} : lease'[k] = lease[k]
           /\ lease'[j].peer = lease[j].peer
           /\ \/ /\ Claim(h) /\ lease[j].state = "OFFERED" /\ lease'[j].state = "TRANSFERRED"
                 /\ lease'[j].sent /\ lease'[j].result = lease[j].result
              \/ /\ Result(h) /\ lease'[j].state = lease[j].state
                 /\ lease'[j].sent /\ lease[j].sent /\ lease'[j].result
<1>0. lease \in [Jobs -> LeaseRow] /\ wk[h].active \in Jobs \cup {None}
  BY DEF Typed, WkRow
<1>1. CASE Claim(h)
  BY <1>0, <1>1, LeaseSet DEF Claim
<1>2. CASE Result(h)
  <2> DEFINE j == wk[h].active
             a == [lease EXCEPT ![j].result = TRUE]
  <2>1. /\ j \in Jobs /\ wk[h].step = "SERVING" /\ lease[j].sent /\ lease' = a
    BY <1>0, <1>2 DEF Result
  <2>2. /\ \A k \in Jobs \ {j} : a[k] = lease[k]
        /\ a[j].state = lease[j].state /\ a[j].peer = lease[j].peer
        /\ a[j].sent = lease[j].sent /\ a[j].result
    BY <1>0, <2>1, LeaseSet
  <2> HIDE DEF a
  <2> QED BY <1>2, <2>1, <2>2
<1> QED BY <1>1, <1>2

\* An abort begins, proves its peer gone or fails to.
LEMMA Aborting ==
    ASSUME Typed, NEW j \in Jobs
    PROVE  /\ BeginAbort(j) \/ Tear(j) \/ TearFails(j) \/ EndAbort(j) =>
                \A k \in Jobs \ {j} : abort'[k] = abort[k]
           /\ BeginAbort(j) => \/ abort' = abort /\ ~(Unresolved(j) /\ abort[j].step = "NONE")
                               \/ /\ Unresolved(j) /\ abort'[j].step = "TEAR"
                                  /\ ~abort'[j].proven
           /\ Tear(j) => abort[j].step = "TEAR" /\ abort'[j].step = "END"
           /\ TearFails(j) => /\ abort[j].step = "TEAR" /\ abort'[j].step = "END"
                              /\ abort'[j].proven = abort[j].proven
           /\ EndAbort(j) => /\ abort[j].step = "END" /\ abort'[j].step = "NONE"
                             /\ ~abort'[j].proven
<1> DEFINE b == [abort EXCEPT ![j] = [step |-> "TEAR", sent |-> lease[j].sent, proven |-> FALSE]]
           p == [abort EXCEPT ![j].step = "END", ![j].proven = TRUE]
           f == [abort EXCEPT ![j].step = "END"]
           n == [abort EXCEPT ![j] = NoAbort]
<1>1. abort \in [Jobs -> AbortRow] /\ lease[j].sent \in BOOLEAN
  BY DEF Typed, LeaseRow
<1>2. /\ \A k \in Jobs \ {j} : b[k] = abort[k] /\ p[k] = abort[k] /\ f[k] = abort[k] /\ n[k] = abort[k]
      /\ b[j].step = "TEAR" /\ ~b[j].proven /\ p[j].step = "END"
      /\ f[j].step = "END" /\ f[j].proven = abort[j].proven
      /\ n[j].step = "NONE" /\ ~n[j].proven
  BY <1>1, AbortSet
<1>3. BeginAbort(j) => \/ abort' = b /\ Unresolved(j)
                       \/ abort' = abort /\ ~(Unresolved(j) /\ abort[j].step = "NONE")
  BY DEF BeginAbort
<1>4. /\ Tear(j) => abort' = p /\ abort[j].step = "TEAR"
      /\ TearFails(j) => abort' = f /\ abort[j].step = "TEAR"
      /\ EndAbort(j) => abort' = n /\ abort[j].step = "END"
  BY DEF Tear, TearFails, EndAbort
<1> HIDE DEF b, p, f, n
<1> QED BY <1>2, <1>3, <1>4

\* The end of job j at peer h, by the abort of its lease or by its own goroutine.
Settles(j, h) == \/ EndAbort(j) /\ h = lease[j].peer
                 \/ (Quarantine(h) \/ Publish(h)) /\ j = LeaseOf(h)

\* The lease is resolved once, the answer is true, and the descriptors are closed.
Settled(j, h) ==
    /\ lease[j].peer = h
    /\ \A k \in Jobs : /\ lease'[k].peer = lease[k].peer /\ lease'[k].sent = lease[k].sent
                       /\ lease'[k].result = lease[k].result
                       /\ \/ lease'[k].state = lease[k].state
                          \/ k = j /\ lease'[k].state = "RESOLVED"
    /\ \A q \in Peers : /\ wk'[q].step \in {wk[q].step, "ENDED"}
                        /\ q # h => wk'[q].step = wk[q].step
                        /\ wk'[q].ready = wk[q].ready /\ wk'[q].used = wk[q].used
                        /\ wk'[q].active \in {wk[q].active, None}
    /\ \A q \in Peers : \/ fd'[q] = fd[q]
                        \/ q = h /\ fd'[h] = "CLOSED" /\ (red \/ proc'[h] = "GONE")
    /\ EndAbort(j) \/ lease'[j].state # lease[j].state => fd'[h] = "CLOSED"
    /\ \A r \in Roles : \/ status'[r] = status[r]
                        \/ /\ proc'[h] = "GONE" /\ status'[r].peer = h
                           /\ status'[r].state = "REAPED"
    /\ \A k \in Jobs : \/ chan'[k] = chan[k]
                       \/ /\ k = j /\ Unresolved(j) /\ lease'[j].state = "RESOLVED"
                          /\ chan'[j] = "RETRY" => ~lease[j].sent
                          /\ chan'[j] = "CONFIRMED" => proc'[h] = "GONE" /\ <<j, h>> \in ran

LEMMA Settling ==
    ASSUME Typed, FlagInv, LeaseInv, WorkerInv, RanInv, NEW j \in Jobs, NEW h \in Peers, Settles(j, h)
    PROVE  Settled(j, h)
<1> USE DEF Settled
<1> DEFINE Kept == UNCHANGED <<lease, fd, status, chan>>
           Good == /\ \A k \in Jobs : /\ lease'[k].peer = lease[k].peer
                                      /\ lease'[k].sent = lease[k].sent
                                      /\ lease'[k].result = lease[k].result
                                      /\ lease'[k].state = IF k = j THEN "RESOLVED" ELSE lease[k].state
                   /\ \A q \in Peers : /\ wk'[q].step \in {wk[q].step, "ENDED"}
                                       /\ q # h => wk'[q].step = wk[q].step
                                       /\ wk'[q].ready = wk[q].ready /\ wk'[q].used = wk[q].used
                                       /\ wk'[q].active \in {wk[q].active, None}
                   /\ \A q \in Peers : fd'[q] = IF q = h THEN "CLOSED" ELSE fd[q]
           Same == \A q \in Peers : /\ wk'[q].step \in {wk[q].step, "ENDED"}
                                    /\ q # h => wk'[q].step = wk[q].step
                                    /\ wk'[q].ready = wk[q].ready /\ wk'[q].used = wk[q].used
                                    /\ wk'[q].active \in {wk[q].active, None}
<1>0. wk \in [Peers -> WkRow] /\ lease \in [Jobs -> LeaseRow] /\ abort \in [Jobs -> AbortRow]
      /\ \A k \in Jobs : lease[k].state \in {"NONE", "OFFERED", "TRANSFERRED", "RESOLVED"}
  BY DEF Typed, LeaseRow
<1>1. lease[j].peer = h
  BY Leased DEF Settles, Quarantine, Publish
<1>2. h # None
  BY SandboxAssumption
<1>3. ~Unresolved(j) => lease[j].state = "RESOLVED" /\ fd[h] = "CLOSED"
  BY <1>0, <1>1, <1>2 DEF Unresolved, LeaseInv
<1>4. EndWorker(h) \in [Peers -> WkRow]
      /\ \A q \in Peers : LET w == EndWorker(h) IN
           /\ w[q].step = IF q = h THEN "ENDED" ELSE wk[q].step
           /\ w[q].ready = wk[q].ready /\ w[q].used = wk[q].used /\ w[q].active = wk[q].active
  <2>1. "ENDED" \in WkSteps
    BY DEF WkSteps
  <2> QED BY <1>0, <2>1, WorkerMoves DEF EndWorker
<1>5. ASSUME Kept, wk' = wk \/ wk' = EndWorker(h) PROVE Same
  BY <1>4, <1>5
<1>6. ASSUME NEW a \in Answers, NEW p \in BOOLEAN, NEW w \in {wk, EndWorker(h)},
             Resolve(j, a, p, w)
      PROVE  /\ Good /\ \A k \in Jobs : chan'[k] = IF k = j THEN a ELSE chan[k]
             /\ \A r \in Roles : \/ status'[r] = status[r]
                                 \/ p /\ status'[r].peer = h /\ status'[r].state = "REAPED"
  <2>1. w \in [Peers -> WkRow]
    BY <1>0, <1>4, <1>6
  <2>2. \A q \in Peers : /\ w[q].step \in {wk[q].step, "ENDED"} /\ (q # h => w[q].step = wk[q].step)
                         /\ w[q].ready = wk[q].ready /\ w[q].used = wk[q].used
                         /\ w[q].active = wk[q].active
    BY <1>4, <1>6
  <2> HIDE DEF Answers
  <2> QED BY <1>1, <1>6, <2>1, <2>2, Resolves
<1>7. CASE EndAbort(j)
  <2>1. /\ proc' = proc /\ abort[j].step = "END" /\ (abort[j].proven \/ latched)
        /\ abort[j].proven \in BOOLEAN
    BY <1>0, <1>7 DEF EndAbort, host, AbortRow
  <2>2. abort[j].proven => proc'[h] = "GONE"
    BY <1>1, <2>1 DEF LeaseInv
  <2>3. CASE Unresolved(j)
    <3>1. Resolve(j, AbortAnswer(j), abort[j].proven, wk)
      BY <1>7, <2>3 DEF EndAbort
    <3>2. AbortAnswer(j) \in Answers /\ AbortAnswer(j) # "CONFIRMED"
          /\ (AbortAnswer(j) = "RETRY" => ~lease[j].sent)
      BY Answering
    <3>3. /\ Good /\ \A k \in Jobs : chan'[k] = IF k = j THEN AbortAnswer(j) ELSE chan[k]
          /\ \A r \in Roles : \/ status'[r] = status[r]
                              \/ /\ abort[j].proven /\ status'[r].peer = h
                                 /\ status'[r].state = "REAPED"
      BY <1>6, <2>1, <3>1, <3>2
    <3> QED BY <1>1, <2>1, <2>2, <2>3, <3>2, <3>3 DEF FlagInv
  <2>4. CASE ~Unresolved(j)
    <3>1. Kept /\ wk' = wk
      BY <1>7, <2>4 DEF EndAbort
    <3>2. Same
      BY <1>5, <3>1
    <3> QED BY <1>1, <1>3, <2>4, <3>1, <3>2
  <2> QED BY <2>3, <2>4
<1>8. CASE Quarantine(h) /\ j = LeaseOf(h) /\ ~EndAbort(j)
  <2>1. CASE Unresolved(j)
    <3>1. Resolve(j, "QUARANTINE", FALSE, EndWorker(h)) /\ latched
      BY <1>8, <2>1 DEF Quarantine
    <3>2. "QUARANTINE" \in Answers
      BY DEF Answers
    <3>3. /\ Good /\ \A k \in Jobs : chan'[k] = IF k = j THEN "QUARANTINE" ELSE chan[k]
          /\ \A r \in Roles : status'[r] = status[r]
      BY <1>6, <3>1, <3>2
    <3> QED BY <1>1, <2>1, <3>1, <3>3 DEF FlagInv
  <2>2. CASE ~Unresolved(j)
    <3>1. Kept /\ wk' = EndWorker(h)
      BY <1>8, <2>2 DEF Quarantine
    <3>2. Same /\ ~EndAbort(j)
      BY <1>5, <1>8, <3>1
    <3> QED BY <1>1, <3>1, <3>2
  <2> QED BY <2>1, <2>2
<1>9. CASE Publish(h) /\ j = LeaseOf(h) /\ ~EndAbort(j)
  <2>1. wk[h].step = "PROVEN" /\ proc' = proc
    BY <1>9 DEF Publish, host
  <2>2. proc'[h] = "GONE"
    BY <2>1 DEF WorkerInv, Knows
  <2>3. PICK k \in Jobs : lease[k].peer = h /\ <<k, h>> \in ran
    BY <2>1 DEF WorkerInv, Knows
  <2>4. <<j, h>> \in ran
    BY <1>9, <2>3, LeaseOfIs
  <2>5. CASE ~red /\ ~closed /\ Unresolved(j)
    <3>1. Resolve(j, "CONFIRMED", TRUE, EndWorker(h))
      BY <1>9, <2>5 DEF Publish
    <3>2. "CONFIRMED" \in Answers
      BY DEF Answers
    <3>3. /\ Good /\ \A i \in Jobs : chan'[i] = IF i = j THEN "CONFIRMED" ELSE chan[i]
          /\ \A r \in Roles : \/ status'[r] = status[r]
                              \/ status'[r].peer = h /\ status'[r].state = "REAPED"
      BY <1>6, <3>1, <3>2
    <3> QED BY <1>1, <2>2, <2>4, <2>5, <3>3
  <2>6. CASE ~(~red /\ ~closed /\ Unresolved(j))
    <3>1. Kept /\ wk' = EndWorker(h)
      BY <1>9, <2>6 DEF Publish
    <3>2. Same /\ ~EndAbort(j)
      BY <1>5, <1>9, <3>1
    <3> QED BY <1>1, <3>1, <3>2
  <2> QED BY <2>5, <2>6
<1> QED BY <1>7, <1>8, <1>9 DEF Settles

-----------------------------------------------------------------------------
(* Handoffs.                                                               *)

\* Processes start, run and go; they do not come back.
LEMMA ProcNext ==
    ASSUME Typed, LeaseInv, Next
    PROVE  /\ \A h \in Peers : proc[h] = "GONE" => proc'[h] = "GONE"
           /\ \A h \in Peers : proc'[h] = "NONE" => proc[h] = "NONE"
           /\ \A h \in Peers : proc[h] = "NONE" => proc'[h] \in {"NONE", "CREATED", "GONE"}
<1> USE DEF host, disp, flag, stat, subm
<1> DEFINE Ages == \A h \in Peers : /\ proc[h] = "GONE" => proc'[h] = "GONE"
                                    /\ proc'[h] = "NONE" => proc[h] = "NONE"
                                    /\ proc[h] = "NONE" => proc'[h] \in {"NONE", "CREATED", "GONE"}
<1>0. proc \in [Peers -> ProcStates]
  BY DEF Typed
<1>1. ASSUME NEW r \in Roles, NEW h \in Peers, Launch(r, h) PROVE Ages
  BY <1>0, <1>1 DEF Launch
<1>2. ASSUME NEW r \in Roles, Start(r) PROVE Ages
  BY <1>0, <1>2 DEF Start
<1>3. ASSUME NEW h \in Peers, ProcessExits(h) PROVE Ages
  BY <1>0, <1>3 DEF ProcessExits
<1>4. ASSUME NEW r \in Roles, SeeReady(r) \/ CleanupRun(r) \/ StopSupervisor \/ SupervisorFails
      PROVE  Ages
  BY <1>4 DEF SeeReady, CleanupRun, StopSupervisor, SupervisorFails
<1>5. ASSUME StopSupervisor \/ SupervisorFails \/ WriteStatus \/ WriteStatusFails
             \/ LatchRed \/ Shutdown \/ ServeReturns
      PROVE  Ages
  BY <1>5 DEF StopSupervisor, SupervisorFails, WriteStatus, WriteStatusFails, LatchRed, Shutdown,
              ServeReturns
<1>6. ASSUME NEW h \in Peers, Fencing(h) PROVE Ages
  BY <1>0, <1>6 DEF Fencing, Fence, FenceFails, FenceAgain
<1>7. ASSUME NEW h \in Peers,
             \/ AcceptHandoff(h) \/ RejectHandoff(h) \/ ExpireHandoff(h) \/ Register(h)
             \/ RegistrationRejected(h) \/ Install(h) \/ RegistrationAccepted(h)
             \/ RegistrationLost(h) \/ Drop(h)
      PROVE  Ages
  BY <1>7 DEF AcceptHandoff, RejectHandoff, ExpireHandoff, Register, RegistrationRejected, Install,
              RegistrationAccepted, RegistrationLost, Drop
<1>8. ASSUME NEW h \in Peers,
             \/ Claim(h) \/ TransferWritten(h) \/ TransferFails(h) \/ Result(h) \/ Outcome(h)
             \/ ConnectionEnds(h) \/ Confirm(h) \/ ConfirmFails(h) \/ Publish(h)
      PROVE  Ages
  BY <1>8 DEF Claim, TransferWritten, TransferFails, Result, Outcome, ConnectionEnds, Confirm,
              ConfirmFails, Publish
<1>9. ASSUME NEW h \in Peers, Quarantine(h) PROVE Ages
  BY <1>0, <1>9 DEF Quarantine
<1>10. ASSUME NEW j \in Jobs, Submission(j) \/ Deadline(j) \/ BeginAbort(j) \/ EndAbort(j) PROVE Ages
  BY <1>10 DEF Submission, Submit, SubmitRefused, Offer, TakeRelay, WriteFrames, Deadline,
               BeginAbort, EndAbort
<1>11. ASSUME NEW j \in Jobs, Tear(j) \/ TearFails(j) PROVE Ages
  BY <1>0, <1>11 DEF Tear, TearFails
<1> QED BY <1>1, <1>2, <1>3, <1>4, <1>5, <1>6, <1>7, <1>8, <1>9, <1>10, <1>11
        DEF Next, Host, Dispatcher, Frame, Handler, Abort

\* The descriptors of a peer are closed for good.
LEMMA ClosedNext ==
    ASSUME Typed, FlagInv, HandInv, LeaseInv, WorkerInv, RanInv, Next
    PROVE  \A h \in Peers : fd[h] = "CLOSED" => fd'[h] = "CLOSED"
<1> USE DEF host, disp, flag, stat, subm
<1> DEFINE Stays == \A h \in Peers : fd[h] = "CLOSED" => fd'[h] = "CLOSED"
<1>0. fd \in [Peers -> {"NONE", "OPEN", "CLOSED"}]
  BY DEF Typed
<1>1. ASSUME NEW h \in Peers, AcceptHandoff(h) \/ RejectHandoff(h) PROVE Stays
  BY <1>0, <1>1 DEF AcceptHandoff, RejectHandoff, HandInv
<1>2. ASSUME NEW h \in Peers, Fencing(h) PROVE Stays
  BY <1>0, <1>2 DEF Fencing, Fence, FenceFails, FenceAgain
<1>3. ASSUME NEW h \in Peers, Quarantine(h) \/ Publish(h) PROVE Stays
  <2>1. PICK j \in Jobs : Settles(j, h)
    BY <1>3, Leased DEF Quarantine, Publish, Settles
  <2>2. Settled(j, h)
    BY <2>1, Settling
  <2> QED BY <2>2 DEF Settled
<1>4. ASSUME NEW j \in Jobs, EndAbort(j) PROVE Stays
  <2>1. PICK h \in Peers : Settles(j, h)
    BY <1>4, Leased DEF EndAbort, Settles
  <2>2. Settled(j, h)
    BY <2>1, Settling
  <2> QED BY <2>2 DEF Settled
<1>5. ASSUME Host \/ WriteStatus \/ WriteStatusFails \/ LatchRed \/ Shutdown \/ ServeReturns
      PROVE  Stays
  BY <1>5 DEF Host, Launch, Start, SeeReady, CleanupRun, ProcessExits, StopSupervisor,
              SupervisorFails, WriteStatus, WriteStatusFails, LatchRed, Shutdown, ServeReturns
<1>6. ASSUME NEW h \in Peers,
             \/ ExpireHandoff(h) \/ Register(h)
             \/ RegistrationRejected(h) \/ Install(h) \/ RegistrationAccepted(h)
             \/ RegistrationLost(h) \/ Drop(h)
      PROVE  Stays
  BY <1>6 DEF ExpireHandoff, Register, RegistrationRejected, Install, RegistrationAccepted,
              RegistrationLost, Drop
<1>7. ASSUME NEW h \in Peers,
             \/ Claim(h) \/ TransferWritten(h) \/ TransferFails(h) \/ Result(h) \/ Outcome(h)
             \/ ConnectionEnds(h) \/ Confirm(h) \/ ConfirmFails(h)
      PROVE  Stays
  BY <1>7 DEF Claim, TransferWritten, TransferFails, Result, Outcome, ConnectionEnds, Confirm,
              ConfirmFails
<1>8. ASSUME NEW j \in Jobs, Submission(j) \/ Deadline(j) \/ BeginAbort(j) \/ Tear(j) \/ TearFails(j)
      PROVE Stays
  BY <1>8 DEF Submission, Submit, SubmitRefused, Offer, TakeRelay, WriteFrames, Deadline,
              BeginAbort, Tear, TearFails
<1> QED BY <1>1, <1>2, <1>3, <1>4, <1>5, <1>6, <1>7, <1>8
        DEF Next, Dispatcher, Frame, Handler, Abort

LEMMA HandNext ==
    ASSUME Typed, FlagInv, HandInv, LeaseInv, WorkerInv, RanInv, Next
    PROVE  HandInv'
<1> USE DEF host, disp, flag, stat, subm
<1> DEFINE Tied == \A h \in Peers : /\ proc'[h] = "NONE" => hand'[h] = "NONE"
                                    /\ hand'[h] \in {"NONE", "SENT"} => fd'[h] = "NONE"
                                    /\ hand[h] = "CONSUMED" => hand'[h] = "CONSUMED"
           Kept == \A h \in Peers : /\ wk'[h].step # "NONE" => wk[h].step # "NONE"
                                    /\ Unserved(h)' => /\ Unserved(h) /\ wk'[h].used = wk[h].used
                                                       /\ wk'[h].ready => wk[h].ready
<1>0. fd \in [Peers -> {"NONE", "OPEN", "CLOSED"}] /\ hand \in [Peers -> HandStates]
  BY DEF Typed
<1>1. ASSUME Tied, Kept PROVE HandInv'
  BY <1>1 DEF HandInv
<1>2. ASSUME UNCHANGED <<hand, fd>> PROVE Tied
  BY <1>2, ProcNext DEF HandInv
<1>3. ASSUME wk' = wk PROVE Kept
  BY <1>3 DEF Unserved
<1>4. ASSUME NEW h \in Peers, NEW x \in WkSteps, At(h, x), x \notin {"NONE", "PROVING"},
             wk[h].step # "NONE", x # "INSTALLED" \/ Unserved(h)
      PROVE  Kept
  BY <1>4 DEF At, Unserved
<1>5. ASSUME NEW r \in Roles, NEW h \in Peers, Launch(r, h) PROVE HandInv'
  <2>1. hand[h] = "NONE" /\ proc'[h] = "CREATED" /\ hand'[h] = "SENT"
        /\ \A q \in Peers \ {h} : hand'[q] = hand[q] /\ proc'[q] = proc[q]
    BY <1>0, <1>5 DEF Launch, HandInv, Typed
  <2>2. Tied
    BY <1>5, <2>1 DEF Launch, HandInv
  <2> QED BY <1>1, <1>3, <1>5, <2>2 DEF Launch
<1>6. ASSUME NEW r \in Roles, Start(r) \/ SeeReady(r) \/ CleanupRun(r) PROVE HandInv'
  BY <1>1, <1>2, <1>3, <1>6 DEF Start, SeeReady, CleanupRun
<1>7. ASSUME \/ StopSupervisor \/ SupervisorFails \/ WriteStatus \/ WriteStatusFails
             \/ ServeReturns \/ \E h \in Peers : ProcessExits(h)
      PROVE HandInv'
  BY <1>1, <1>2, <1>3, <1>7 DEF StopSupervisor, SupervisorFails, WriteStatus, WriteStatusFails,
                                ServeReturns, ProcessExits
<1>8. ASSUME NEW h \in Peers, AcceptHandoff(h) \/ RejectHandoff(h) \/ ExpireHandoff(h) PROVE HandInv'
  <2>1. Tied
    BY <1>0, <1>8, ProcNext DEF AcceptHandoff, RejectHandoff, ExpireHandoff, HandInv
  <2> QED BY <1>1, <1>3, <1>8, <2>1 DEF AcceptHandoff, RejectHandoff, ExpireHandoff
<1>9. ASSUME NEW h \in Peers, Fencing(h) PROVE HandInv'
  <2>1. /\ hand' = hand /\ wk' = wk /\ fd' \in [Peers -> {"NONE", "OPEN", "CLOSED"}]
        /\ \A q \in Peers : fd'[q] = "NONE" <=> fd[q] = "NONE"
    BY <1>0, <1>9 DEF Fencing, Fence, FenceFails, FenceAgain
  <2>2. Tied
    BY <2>1, ProcNext DEF HandInv
  <2> QED BY <1>1, <1>3, <2>1, <2>2
<1>10. ASSUME NEW h \in Peers, Register(h) PROVE HandInv'
  <2>1. At(h, "PROVING") /\ wk[h].step = "NONE"
    BY <1>10, Moving DEF Register, HandInv
  <2>2. Tied
    BY <1>0, <1>10, ProcNext DEF Register, HandInv
  <2>3. hand'[h] = "CONSUMED"
    BY <1>0, <1>10 DEF Register
  <2> QED BY <2>1, <2>2, <2>3 DEF HandInv, At, Unserved
<1>11. ASSUME NEW h \in Peers, RegistrationRejected(h) \/ Install(h) \/ RegistrationLost(h)
       PROVE  HandInv'
  <2>1. \E x \in {"ENDED", "INSTALLED"} : At(h, x) /\ Unserved(h) /\ wk[h].step # "NONE"
    BY <1>11, Moving DEF RegistrationRejected, Install, RegistrationLost, Unserved
  <2>2. Kept
    BY <1>4, <2>1 DEF WkSteps
  <2> QED BY <1>1, <1>2, <1>11, <2>2 DEF RegistrationRejected, Install, RegistrationLost
<1>12. ASSUME NEW h \in Peers, RegistrationAccepted(h) PROVE HandInv'
  <2>1. Kept
    BY <1>12, Accepting DEF Unserved
  <2> QED BY <1>1, <1>2, <1>12, <2>1 DEF RegistrationAccepted
<1>13. ASSUME NEW h \in Peers, Drop(h) PROVE HandInv'
  <2>1. Kept
    BY <1>13, Dropping DEF Unserved
  <2> QED BY <1>1, <1>2, <1>13, <2>1 DEF Drop
<1>14. ASSUME NEW h \in Peers,
              \/ Claim(h) \/ TransferWritten(h) \/ TransferFails(h) \/ Outcome(h)
              \/ ConnectionEnds(h) \/ Confirm(h) \/ ConfirmFails(h)
       PROVE  HandInv'
  <2>1. PICK x \in {"TRANSFER", "SERVING", "ENDED", "CONFIRM", "PROVEN", "QUARANTINE"} : At(h, x)
    BY <1>14, Moving
  <2>2. wk[h].step # "NONE"
    BY <1>14 DEF Claim, TransferWritten, TransferFails, Outcome, ConnectionEnds, Confirm, ConfirmFails
  <2>3. Kept
    BY <1>4, <2>1, <2>2 DEF WkSteps
  <2> QED BY <1>1, <1>2, <1>14, <2>3 DEF Claim, TransferWritten, TransferFails, Outcome,
                                         ConnectionEnds, Confirm, ConfirmFails
<1>15. ASSUME NEW h \in Peers, Result(h) PROVE HandInv'
  BY <1>1, <1>2, <1>3, <1>15 DEF Result
<1>16. ASSUME NEW h \in Peers, NEW j \in Jobs, Settles(j, h) PROVE HandInv'
  <2>1. /\ hand' = hand
    BY <1>16 DEF Settles, EndAbort, Quarantine, Publish
  <2>8. Settled(j, h)
    BY <1>16, Settling
  <2>2. lease[j].peer = h /\ h # None
    BY <2>8, SandboxAssumption DEF Settled
  <2>3. wk[h].used
    BY <2>2 DEF LeaseInv
  <2>4. hand[h] = "CONSUMED"
    BY <2>3 DEF HandInv, Unserved
  <2>5. \A q \in Peers : q = h \/ fd'[q] = fd[q]
    BY <2>8 DEF Settled
  <2>6. Tied
    BY <2>1, <2>4, <2>5, ProcNext DEF HandInv
  <2>7. Kept
    <3>1. \A q \in Peers : wk'[q].step \in {wk[q].step, "ENDED"} /\ wk'[q].ready = wk[q].ready
                          /\ wk'[q].used = wk[q].used
      BY <2>8 DEF Settled
    <3>2. \A q \in Peers : wk'[q].step # "NONE" => wk[q].step # "NONE"
      BY <2>3, <2>8 DEF Settled, HandInv, Unserved
    <3> QED BY <3>1, <3>2 DEF Unserved
  <2> QED BY <1>1, <2>6, <2>7
<1>17. ASSUME NEW j \in Jobs, EndAbort(j) PROVE HandInv'
  <2>1. PICK h \in Peers : Settles(j, h)
    BY <1>17, Leased DEF EndAbort, Settles
  <2> QED BY <1>16, <2>1
<1>18. ASSUME NEW h \in Peers, Quarantine(h) \/ Publish(h) PROVE HandInv'
  <2>1. PICK j \in Jobs : Settles(j, h)
    BY <1>18, Leased DEF Quarantine, Publish, Settles
  <2> QED BY <1>16, <2>1
<1>19. ASSUME NEW j \in Jobs, Submit(j) PROVE HandInv'
  <2>1. Kept
    BY <1>19, Submitting DEF HandInv, Unserved
  <2> QED BY <1>1, <1>2, <1>19, <2>1 DEF Submit
<1>20. ASSUME NEW j \in Jobs, \/ SubmitRefused(j) \/ Offer(j) \/ TakeRelay(j) \/ WriteFrames(j)
                              \/ Deadline(j) \/ BeginAbort(j) \/ Tear(j) \/ TearFails(j)
       PROVE  HandInv'
  BY <1>1, <1>2, <1>3, <1>20 DEF SubmitRefused, Offer, TakeRelay, WriteFrames, Deadline, BeginAbort,
                                 Tear, TearFails
<1>21. ASSUME LatchRed \/ Shutdown PROVE HandInv'
  <2>1. hand' \in {hand, ClosePending} /\ fd' = fd /\ wk' = wk
    BY <1>21 DEF LatchRed, Shutdown
  <2>2. Tied
    BY <1>0, <2>1, ProcNext DEF HandInv, ClosePending, Pending
  <2> QED BY <1>1, <1>3, <2>1, <2>2
<1> QED BY <1>5, <1>6, <1>7, <1>8, <1>9, <1>10, <1>11, <1>12, <1>13, <1>14, <1>15, <1>17, <1>18,
           <1>19, <1>20, <1>21
        DEF Next, Host, Dispatcher, Frame, Handler, Submission, Abort

-----------------------------------------------------------------------------
(* Leases.                                                                 *)

\* What every step keeps: what reached a parser, and that a peer was leased.
LEMMA RanNext ==
    ASSUME Typed, FlagInv, LeaseInv, WorkerInv, RanInv, Next
    PROVE  ran \subseteq ran' /\ \A h \in Peers : wk[h].used => wk'[h].used
<1> USE DEF host, disp, flag, stat, subm
<1> DEFINE Grows == ran \subseteq ran' /\ \A h \in Peers : wk[h].used => wk'[h].used
<1>1. ASSUME Host \/ WriteStatus \/ WriteStatusFails \/ LatchRed \/ Shutdown \/ ServeReturns
      PROVE  Grows
  BY <1>1 DEF Host, Launch, Start, SeeReady, CleanupRun, ProcessExits, StopSupervisor,
              SupervisorFails, WriteStatus, WriteStatusFails, LatchRed, Shutdown, ServeReturns
<1>2. ASSUME NEW h \in Peers,
             AcceptHandoff(h) \/ RejectHandoff(h) \/ ExpireHandoff(h) \/ Fencing(h) \/ Result(h)
      PROVE  Grows
  BY <1>2 DEF AcceptHandoff, RejectHandoff, ExpireHandoff, Fencing, Fence, FenceFails, FenceAgain,
              Result
<1>3. ASSUME NEW h \in Peers,
             \/ Register(h) \/ RegistrationRejected(h) \/ Install(h) \/ RegistrationLost(h)
             \/ Claim(h) \/ TransferWritten(h) \/ TransferFails(h) \/ Outcome(h)
             \/ ConnectionEnds(h) \/ Confirm(h) \/ ConfirmFails(h)
      PROVE  Grows
  <2>1. \A q \in Peers : wk'[q].used = wk[q].used
    BY <1>3, Moving DEF At
  <2>2. ran \subseteq ran'
    BY <1>3 DEF Register, RegistrationRejected, Install, RegistrationLost, Claim, TransferWritten,
                TransferFails, Outcome, ConnectionEnds, Confirm, ConfirmFails
  <2> QED BY <2>1, <2>2
<1>4. ASSUME NEW h \in Peers, RegistrationAccepted(h) \/ Drop(h) PROVE Grows
  <2>1. \A q \in Peers : wk'[q].used = wk[q].used
    BY <1>4, Accepting, Dropping
  <2> QED BY <1>4, <2>1 DEF RegistrationAccepted, Drop
<1>5. ASSUME NEW h \in Peers, NEW j \in Jobs, Settles(j, h) PROVE Grows
  <2>1. Settled(j, h)
    BY <1>5, Settling
  <2>2. ran' = ran
    BY <1>5 DEF Settles, EndAbort, Quarantine, Publish
  <2> QED BY <2>1, <2>2 DEF Settled
<1>6. ASSUME NEW h \in Peers, Quarantine(h) \/ Publish(h) PROVE Grows
  <2>1. PICK j \in Jobs : Settles(j, h)
    BY <1>6, Leased DEF Quarantine, Publish, Settles
  <2> QED BY <1>5, <2>1
<1>7. ASSUME NEW j \in Jobs, EndAbort(j) PROVE Grows
  <2>1. PICK h \in Peers : Settles(j, h)
    BY <1>7, Leased DEF EndAbort, Settles
  <2> QED BY <1>5, <2>1
<1>8. ASSUME NEW j \in Jobs, Submit(j) PROVE Grows
  <2>1. PICK h \in Peers : wk'[h].used /\ \A q \in Peers \ {h} : wk'[q] = wk[q]
    BY <1>8, Submitting
  <2> QED BY <1>8, <2>1 DEF Submit
<1>9. ASSUME NEW j \in Jobs, \/ SubmitRefused(j) \/ Offer(j) \/ TakeRelay(j) \/ WriteFrames(j)
                             \/ Deadline(j) \/ BeginAbort(j) \/ Tear(j) \/ TearFails(j)
      PROVE  Grows
  BY <1>9 DEF SubmitRefused, Offer, TakeRelay, WriteFrames, Deadline, BeginAbort, Tear, TearFails
<1> QED BY <1>1, <1>2, <1>3, <1>4, <1>6, <1>7, <1>8, <1>9
        DEF Next, Dispatcher, Frame, Handler, Submission, Abort

\* The steps that touch neither a lease nor an abort.
LEMMA LeaseFrame ==
    ASSUME Next, ~\E j \in Jobs : Submit(j) \/ Abort(j),
           ~\E h \in Peers : Claim(h) \/ Result(h) \/ Quarantine(h) \/ Publish(h)
    PROVE  UNCHANGED <<lease, abort>>
<1> USE DEF host, disp, flag, stat, subm
<1>1. ASSUME Host \/ WriteStatus \/ WriteStatusFails \/ LatchRed \/ Shutdown \/ ServeReturns
      PROVE  UNCHANGED <<lease, abort>>
  BY <1>1 DEF Host, Launch, Start, SeeReady, CleanupRun, ProcessExits, StopSupervisor,
              SupervisorFails, WriteStatus, WriteStatusFails, LatchRed, Shutdown, ServeReturns
<1>2. ASSUME NEW h \in Peers,
             \/ AcceptHandoff(h) \/ RejectHandoff(h) \/ ExpireHandoff(h) \/ Fencing(h)
             \/ Register(h) \/ RegistrationRejected(h) \/ Install(h) \/ RegistrationAccepted(h)
             \/ RegistrationLost(h) \/ Drop(h)
      PROVE  UNCHANGED <<lease, abort>>
  BY <1>2 DEF AcceptHandoff, RejectHandoff, ExpireHandoff, Fencing, Fence, FenceFails, FenceAgain,
              Register, RegistrationRejected, Install, RegistrationAccepted, RegistrationLost, Drop
<1>3. ASSUME NEW h \in Peers,
             \/ TransferWritten(h) \/ TransferFails(h) \/ Outcome(h)
             \/ ConnectionEnds(h) \/ Confirm(h) \/ ConfirmFails(h)
      PROVE  UNCHANGED <<lease, abort>>
  BY <1>3 DEF TransferWritten, TransferFails, Outcome, ConnectionEnds, Confirm, ConfirmFails
<1>4. ASSUME NEW j \in Jobs, SubmitRefused(j) \/ Offer(j) \/ TakeRelay(j) \/ WriteFrames(j) \/ Deadline(j)
      PROVE  UNCHANGED <<lease, abort>>
  BY <1>4 DEF SubmitRefused, Offer, TakeRelay, WriteFrames, Deadline
<1> QED BY <1>1, <1>2, <1>3, <1>4 DEF Next, Dispatcher, Frame, Handler, Submission

LEMMA LeaseNext ==
    ASSUME Typed, FlagInv, HandInv, LeaseInv, AnswerInv, WorkerInv, RanInv, Next
    PROVE  LeaseInv'
<1> USE DEF host, disp, flag, stat, subm
<1>0. /\ \A h \in Peers : proc[h] = "GONE" => proc'[h] = "GONE"
      /\ \A h \in Peers : fd[h] = "CLOSED" => fd'[h] = "CLOSED"
      /\ \A h \in Peers : wk[h].used => wk'[h].used
      /\ ran \subseteq ran'
      /\ \A j \in Jobs : lease[j].peer \in Peers \cup {None}
      /\ None \notin Peers
  BY ProcNext, ClosedNext, RanNext, SandboxAssumption DEF Typed, LeaseRow
<1>1. CASE UNCHANGED <<lease, abort>>
  BY <1>0, <1>1 DEF LeaseInv
<1>2. ASSUME NEW j \in Jobs, Submit(j) PROVE LeaseInv'
  <2>1. lease[j].state = "NONE" /\ lease[j].peer = None /\ abort' = abort
    BY <1>2 DEF Submit, AnswerInv, AnswerOf, LeaseInv
  <2>2. PICK h \in Peers :
             /\ ~wk[h].used /\ wk'[h].used
             /\ \A k \in Jobs \ {j} : lease'[k] = lease[k]
             /\ lease'[j].state = "OFFERED" /\ lease'[j].peer = h
             /\ lease'[j].sent = lease[j].sent /\ lease'[j].result = lease[j].result
    BY <1>2, Submitting
  <2>3. ASSUME NEW k \in Jobs, lease[k].peer = h PROVE FALSE
    <3>1. wk[lease[k].peer].used
      BY <1>0, <2>3 DEF LeaseInv
    <3> QED BY <2>2, <2>3, <3>1
  <2>4. ~lease'[j].result /\ abort'[j].step = "NONE" /\ ~abort'[j].proven
    BY <2>1, <2>2 DEF LeaseInv
  <2> QED BY <1>0, <2>1, <2>2, <2>3, <2>4 DEF LeaseInv
<1>3. ASSUME NEW h \in Peers, Claim(h) \/ Result(h) PROVE LeaseInv'
  <2> DEFINE j == wk[h].active
  <2>1. /\ j \in Jobs /\ wk[h].step = "SERVING" /\ lease[j].peer = h
        /\ \A k \in Jobs \ {j} : lease'[k] = lease[k]
        /\ lease'[j].peer = lease[j].peer
        /\ \/ /\ lease[j].state = "OFFERED" /\ lease'[j].state = "TRANSFERRED"
              /\ lease'[j].sent /\ lease'[j].result = lease[j].result
           \/ /\ lease'[j].state = lease[j].state
              /\ lease'[j].sent /\ lease[j].sent /\ lease'[j].result
        /\ abort' = abort
    <3>1. j \in Jobs
      BY <1>3, Leasing
    <3>2. abort' = abort
      BY <1>3 DEF Claim, Result
    <3> QED BY <1>0, <1>3, <3>1, <3>2, Leasing, SandboxAssumption DEF WorkerInv, Knows
  <2> HIDE DEF j
  <2>2. lease'[j].result => <<j, h>> \in ran
    BY <2>1 DEF LeaseInv, WorkerInv, Knows
  <2>3. lease'[j].state # "NONE" /\ lease[j].state # "NONE"
    BY <1>0, <2>1 DEF LeaseInv
  <2>4. lease'[j].state = "RESOLVED" => lease[j].state = "RESOLVED"
    BY <2>1
  <2> QED BY <1>0, <2>1, <2>2, <2>3, <2>4 DEF LeaseInv
<1>4. ASSUME NEW h \in Peers, NEW j \in Jobs, Settles(j, h) PROVE LeaseInv'
  <2>1. Settled(j, h)
    BY <1>4, Settling
  <2>2. \A k \in Jobs : /\ abort'[k].step # "NONE" => abort[k].step # "NONE"
                        /\ abort'[k].proven => abort[k].proven
    BY <1>4, Aborting DEF Settles, Quarantine, Publish
  <2>3. \A k \in Jobs : /\ lease'[k].peer = lease[k].peer /\ lease'[k].sent = lease[k].sent
                        /\ lease'[k].result = lease[k].result
    BY <2>1 DEF Settled
  <2>4. \A k \in Jobs : lease'[k].state = "NONE" <=> lease[k].state = "NONE"
    BY <1>0, <2>1 DEF Settled, LeaseInv
  <2>5. \A k \in Jobs : lease'[k].state = "RESOLVED" =>
                          \/ lease[k].state = "RESOLVED" \/ fd'[lease[k].peer] = "CLOSED"
    BY <2>1 DEF Settled
  <2> QED BY <1>0, <2>2, <2>3, <2>4, <2>5 DEF LeaseInv
<1>5. ASSUME NEW h \in Peers, Quarantine(h) \/ Publish(h) PROVE LeaseInv'
  <2>1. PICK j \in Jobs : Settles(j, h)
    BY <1>5, Leased DEF Quarantine, Publish, Settles
  <2> QED BY <1>4, <2>1
<1>6. ASSUME NEW j \in Jobs, EndAbort(j) PROVE LeaseInv'
  <2>1. PICK h \in Peers : Settles(j, h)
    BY <1>6, Leased DEF EndAbort, Settles
  <2> QED BY <1>4, <2>1
<1>7. ASSUME NEW j \in Jobs, BeginAbort(j) \/ Tear(j) \/ TearFails(j) PROVE LeaseInv'
  <2>1. lease' = lease /\ \A k \in Jobs \ {j} : abort'[k] = abort[k]
    BY <1>7, Aborting DEF BeginAbort, Tear, TearFails
  <2>2. abort'[j].step # "NONE" => lease[j].peer # None
    BY <1>7, Aborting DEF LeaseInv, Unresolved
  <2>3. abort'[j].proven => lease[j].peer # None /\ proc'[lease[j].peer] = "GONE"
    <3>1. CASE BeginAbort(j)
      BY <1>0, <3>1, Aborting DEF LeaseInv
    <3>2. CASE Tear(j)
      <4>1. lease[j].peer \in Peers
        BY <3>2, Leased DEF Tear
      <4>2. proc' = [proc EXCEPT ![lease[j].peer] = "GONE"]
        BY <3>2 DEF Tear
      <4> QED BY <1>0, <4>1, <4>2 DEF Typed
    <3>3. CASE TearFails(j)
      BY <1>0, <3>3, Aborting DEF LeaseInv
    <3> QED BY <1>7, <3>1, <3>2, <3>3
  <2> QED BY <1>0, <2>1, <2>2, <2>3 DEF LeaseInv
<1> QED BY <1>1, <1>2, <1>3, <1>5, <1>6, <1>7, LeaseFrame DEF Abort

\* A lease keeps its peer and what it was marked with; only a claim marks a transfer.
LEMMA LeaseMono ==
    ASSUME Typed, FlagInv, HandInv, LeaseInv, AnswerInv, WorkerInv, RanInv, Next
    PROVE  /\ \A j \in Jobs : lease[j].peer # None => lease'[j].peer = lease[j].peer
           /\ \A j \in Jobs : lease[j].sent => lease'[j].sent
           /\ \A j \in Jobs : lease'[j].sent => \/ lease[j].sent
                                                \/ \E h \in Peers : Claim(h) /\ lease[j].peer = h
<1> DEFINE Kept == /\ \A j \in Jobs : lease[j].peer # None => lease'[j].peer = lease[j].peer
                   /\ \A j \in Jobs : lease[j].sent => lease'[j].sent
                   /\ \A j \in Jobs : lease'[j].sent =>
                        \/ lease[j].sent \/ \E h \in Peers : Claim(h) /\ lease[j].peer = h
<1>0. \A h \in Peers : wk[h].active \in Jobs \cup {None}
  BY DEF Typed, WkRow
<1>1. CASE UNCHANGED <<lease, abort>>
  BY <1>1
<1>2. ASSUME NEW j \in Jobs, Submit(j) PROVE Kept
  <2>1. lease[j].peer = None /\ ~lease[j].sent
    BY <1>2 DEF Submit, AnswerInv, AnswerOf, LeaseInv
  <2>2. /\ \A k \in Jobs \ {j} : lease'[k] = lease[k]
        /\ lease'[j].sent = lease[j].sent
    BY <1>2, Submitting
  <2> QED BY <2>1, <2>2
<1>3. ASSUME NEW h \in Peers, Claim(h) PROVE Kept
  <2>1. PICK j \in Jobs : j = wk[h].active
    BY <1>3, Leasing
  <2>2. \A k \in Jobs \ {j} : lease'[k] = lease[k]
    BY <1>3, <2>1, Leasing
  <2>3. lease'[j].sent /\ lease'[j].peer = lease[j].peer
    BY <1>3, <2>1, Leasing
  <2>4. lease[j].peer = h
    BY <2>1, SandboxAssumption DEF WorkerInv, Knows
  <2> QED BY <1>3, <2>2, <2>3, <2>4
<1>4. ASSUME NEW h \in Peers, Result(h) PROVE Kept
  <2>1. PICK j \in Jobs : j = wk[h].active
    BY <1>4, Leasing
  <2>2. \A k \in Jobs \ {j} : lease'[k] = lease[k]
    BY <1>4, <2>1, Leasing
  <2>3. lease'[j].peer = lease[j].peer /\ lease'[j].sent = lease[j].sent
    <3> DEFINE a == [lease EXCEPT ![j].result = TRUE]
    <3>1. lease' = a /\ lease \in [Jobs -> LeaseRow]
      BY <1>4, <2>1 DEF Result, Typed
    <3>2. a[j].peer = lease[j].peer /\ a[j].sent = lease[j].sent
      BY <3>1, LeaseSet
    <3> HIDE DEF a
    <3> QED BY <3>1, <3>2
  <2> QED BY <2>2, <2>3
<1>5. ASSUME NEW h \in Peers, NEW j \in Jobs, Settles(j, h) PROVE Kept
  <2>1. Settled(j, h)
    BY <1>5, Settling
  <2> QED BY <2>1 DEF Settled
<1>6. ASSUME NEW h \in Peers, Quarantine(h) \/ Publish(h) PROVE Kept
  <2>1. PICK j \in Jobs : Settles(j, h)
    BY <1>6, Leased DEF Quarantine, Publish, Settles
  <2> QED BY <1>5, <2>1
<1>7. ASSUME NEW j \in Jobs, Abort(j) PROVE Kept
  <2>1. CASE EndAbort(j)
    <3>1. PICK h \in Peers : Settles(j, h)
      BY <2>1, Leased DEF EndAbort, Settles
    <3> QED BY <1>5, <3>1
  <2>2. CASE BeginAbort(j) \/ Tear(j) \/ TearFails(j)
    BY <2>2 DEF BeginAbort, Tear, TearFails
  <2> QED BY <1>7, <2>1, <2>2 DEF Abort
<1> QED BY <1>1, <1>2, <1>3, <1>4, <1>6, <1>7, LeaseFrame

LEMMA RanInvNext ==
    ASSUME Typed, FlagInv, HandInv, LeaseInv, AnswerInv, WorkerInv, RanInv, Next
    PROVE  RanInv'
<1> USE DEF host, disp, flag, stat, subm
<1>1. CASE ran' = ran
  BY <1>1, LeaseMono, SandboxAssumption DEF RanInv
<1>2. ASSUME NEW h \in Peers, TransferWritten(h) PROVE RanInv'
  <2>1. PICK j \in Jobs : lease[j].peer = h /\ lease[j].sent
    BY <1>2 DEF TransferWritten, WorkerInv, Knows
  <2>2. ran' = ran \cup {<<j, h>>} /\ lease' = lease
    BY <1>2, <2>1, LeaseOfIs DEF TransferWritten
  <2> QED BY <2>1, <2>2 DEF RanInv
<1>3. ran' = ran \/ \E h \in Peers : TransferWritten(h)
  <2>1. ASSUME Host \/ WriteStatus \/ WriteStatusFails \/ LatchRed \/ Shutdown \/ ServeReturns
        PROVE  ran' = ran
    BY <2>1 DEF Host, Launch, Start, SeeReady, CleanupRun, ProcessExits, StopSupervisor,
                SupervisorFails, WriteStatus, WriteStatusFails, LatchRed, Shutdown, ServeReturns
  <2>2. ASSUME NEW h \in Peers,
               \/ AcceptHandoff(h) \/ RejectHandoff(h) \/ ExpireHandoff(h) \/ Fencing(h)
               \/ Register(h) \/ RegistrationRejected(h) \/ Install(h) \/ RegistrationAccepted(h)
               \/ RegistrationLost(h) \/ Drop(h)
        PROVE  ran' = ran
    BY <2>2 DEF AcceptHandoff, RejectHandoff, ExpireHandoff, Fencing, Fence, FenceFails, FenceAgain,
                Register, RegistrationRejected, Install, RegistrationAccepted, RegistrationLost, Drop
  <2>3. ASSUME NEW h \in Peers,
               \/ Claim(h) \/ TransferFails(h) \/ Result(h) \/ Outcome(h) \/ ConnectionEnds(h)
               \/ Confirm(h) \/ ConfirmFails(h) \/ Quarantine(h) \/ Publish(h)
        PROVE  ran' = ran
    BY <2>3 DEF Claim, TransferFails, Result, Outcome, ConnectionEnds, Confirm, ConfirmFails,
                Quarantine, Publish
  <2>4. ASSUME NEW j \in Jobs, Submission(j) \/ Deadline(j) \/ Abort(j) PROVE ran' = ran
    BY <2>4 DEF Submission, Submit, SubmitRefused, Offer, TakeRelay, WriteFrames, Deadline, Abort,
                BeginAbort, Tear, TearFails, EndAbort
  <2> QED BY <2>1, <2>2, <2>3, <2>4 DEF Next, Dispatcher, Frame, Handler
<1> QED BY <1>1, <1>2, <1>3

-----------------------------------------------------------------------------
(* The goroutines of the connections.                                      *)

LEMMA WorkerNext ==
    ASSUME Typed, FlagInv, HandInv, LeaseInv, AnswerInv, WorkerInv, RanInv, Next
    PROVE  WorkerInv'
<1> USE DEF host, disp, flag, stat, subm
<1>0. /\ \A h \in Peers : wk[h].active \in Jobs \cup {None}
      /\ \A j \in Jobs : lease[j].peer \in Peers \cup {None}
      /\ None \notin Peers /\ None \notin Jobs
      /\ \A h \in Peers : proc[h] = "GONE" => proc'[h] = "GONE"
      /\ ran \subseteq ran'
      /\ \A j \in Jobs : lease[j].peer # None => lease'[j].peer = lease[j].peer
      /\ \A j \in Jobs : lease[j].sent => lease'[j].sent
      /\ \A j \in Jobs : lease[j].sent => lease[j].peer # None
  BY ProcNext, RanNext, LeaseMono, SandboxAssumption DEF Typed, LeaseRow, WkRow, LeaseInv
\* A peer whose goroutine stays where it is, or goes where it knows nothing.
<1>1. ASSUME NEW h \in Peers, wk'[h].active \in {wk[h].active, None},
             wk'[h].step \in {wk[h].step, "ENDED", "PROVING", "INSTALLED"}
      PROVE  Knows(h)'
  <2>1. Knows(h)
    BY DEF WorkerInv
  <2>2. wk'[h].active # None => lease'[wk'[h].active].peer = h
    BY <1>0, <1>1, <2>1 DEF Knows
  <2>3. wk'[h].step = "TRANSFER" => \E j \in Jobs : lease'[j].peer = h /\ lease'[j].sent
    BY <1>0, <1>1, <2>1 DEF Knows
  <2>4. ASSUME wk'[h].step = "SERVING", NEW j \in Jobs, lease'[j].peer = h, lease'[j].sent
        PROVE  <<j, h>> \in ran'
    <3>0. ~Claim(h)
      BY <2>4, Moving DEF At
    <3>1. lease[j].sent
      BY <1>0, <2>4, <3>0, LeaseMono
    <3>2. lease[j].peer = h
      BY <1>0, <2>4, <3>1
    <3> QED BY <1>0, <1>1, <2>1, <2>4, <3>1, <3>2 DEF Knows
  <2>5. wk'[h].step \in {"CONFIRM", "PROVEN", "QUARANTINE"} =>
          \E j \in Jobs : lease'[j].peer = h /\ <<j, h>> \in ran'
    BY <1>0, <1>1, <2>1 DEF Knows
  <2>6. wk'[h].step = "PROVEN" => proc'[h] = "GONE"
    BY <1>0, <1>1, <2>1 DEF Knows
  <2> QED BY <2>2, <2>3, <2>4, <2>5, <2>6 DEF Knows
<1>2. CASE wk' = wk
  BY <1>1, <1>2 DEF WorkerInv
<1>3. ASSUME NEW h \in Peers, NEW x, At(h, x), Knows(h)' PROVE WorkerInv'
  BY <1>1, <1>3 DEF WorkerInv, At
<1>4. \A h \in Peers, x \in {"ENDED", "PROVING", "INSTALLED"} : At(h, x) => WorkerInv'
  BY <1>1 DEF WorkerInv, At
<1>5. ASSUME NEW h \in Peers,
             \/ Register(h) \/ RegistrationRejected(h) \/ Install(h) \/ RegistrationLost(h)
             \/ TransferFails(h) \/ ConnectionEnds(h)
      PROVE  WorkerInv'
  BY <1>4, <1>5, Moving
<1>6. ASSUME NEW h \in Peers, RegistrationAccepted(h) PROVE WorkerInv'
  <2>1. /\ \A q \in Peers \ {h} : wk'[q] = wk[q]
        /\ wk[h].step = "INSTALLED" /\ wk'[h].active = wk[h].active
        /\ wk'[h].step \in {"SERVING", "ENDED"}
    BY <1>6, Accepting
  <2>2. ~wk[h].used
    BY <2>1 DEF HandInv, Unserved
  <2>3. ASSUME NEW j \in Jobs, lease[j].peer = h PROVE FALSE
    <3>1. wk[lease[j].peer].used
      BY <1>0, <2>3 DEF LeaseInv
    <3> QED BY <2>2, <2>3, <3>1
  <2>4. lease' = lease
    BY <1>6 DEF RegistrationAccepted
  <2>5. Knows(h)'
    BY <2>1, <2>3, <2>4 DEF WorkerInv, Knows
  <2> QED BY <1>1, <2>1, <2>5 DEF WorkerInv
<1>7. ASSUME NEW h \in Peers, Drop(h) PROVE WorkerInv'
  BY <1>1, <1>7, Dropping DEF WorkerInv
<1>8. ASSUME NEW j \in Jobs, Submit(j) PROVE WorkerInv'
  <2>1. PICK h \in Peers :
             /\ wk[h].ready /\ ~wk[h].used
             /\ \A q \in Peers \ {h} : wk'[q] = wk[q]
             /\ wk'[h].step = wk[h].step /\ wk'[h].active = j
             /\ \A k \in Jobs \ {j} : lease'[k] = lease[k]
             /\ lease'[j].peer = h /\ lease'[j].sent = lease[j].sent
    BY <1>8, Submitting
  <2>2. ~lease[j].sent
    BY <1>8 DEF Submit, AnswerInv, AnswerOf, LeaseInv
  <2>3. ASSUME NEW k \in Jobs, lease[k].peer = h PROVE FALSE
    <3>1. wk[lease[k].peer].used
      BY <1>0, <2>3 DEF LeaseInv
    <3> QED BY <2>1, <2>3, <3>1
  <2>4. Knows(h)
    BY DEF WorkerInv
  <2>5. wk[h].step \notin {"TRANSFER", "CONFIRM", "PROVEN", "QUARANTINE"}
    BY <2>3, <2>4 DEF Knows
  <2>6. Knows(h)'
    BY <2>1, <2>2, <2>3, <2>5 DEF Knows
  <2> QED BY <1>1, <2>1, <2>6 DEF WorkerInv
<1>9. ASSUME NEW h \in Peers, Claim(h) PROVE WorkerInv'
  <2>1. At(h, "TRANSFER") /\ wk[h].active \in Jobs
    BY <1>9, Moving, Leasing
  <2>2. PICK j \in Jobs : j = wk[h].active
    BY <2>1
  <2>3. lease[j].peer = h
    BY <1>0, <2>2 DEF WorkerInv, Knows
  <2>4. lease'[j].peer = h /\ lease'[j].sent
    BY <1>9, <2>2, <2>3, Leasing
  <2>5. wk'[h].step = "TRANSFER" /\ wk'[h].active = j
    BY <2>1, <2>2 DEF At
  <2>6. Knows(h)'
    BY <2>4, <2>5 DEF Knows
  <2> QED BY <1>3, <2>1, <2>6
<1>10. ASSUME NEW h \in Peers, TransferWritten(h) PROVE WorkerInv'
  <2>1. At(h, "SERVING") /\ lease' = lease
    BY <1>10, Moving DEF TransferWritten
  <2>2. PICK j \in Jobs : lease[j].peer = h
    BY <1>10 DEF TransferWritten, WorkerInv, Knows
  <2>3. ran' = ran \cup {<<j, h>>}
    BY <1>10, <2>2, LeaseOfIs DEF TransferWritten
  <2>4. \A k \in Jobs : lease[k].peer = h => k = j
    BY <1>0, <2>2 DEF LeaseInv
  <2>5. wk'[h].step = "SERVING" /\ wk'[h].active = wk[h].active
    BY <2>1 DEF At
  <2>6. wk[h].active # None => lease[wk[h].active].peer = h
    BY DEF WorkerInv, Knows
  <2>7. Knows(h)'
    BY <2>1, <2>3, <2>4, <2>5, <2>6 DEF Knows
  <2> QED BY <1>3, <2>1, <2>7
<1>11. ASSUME NEW h \in Peers, Result(h) PROVE WorkerInv'
  BY <1>2, <1>11 DEF Result
<1>12. ASSUME NEW h \in Peers, Outcome(h) \/ Confirm(h) \/ ConfirmFails(h) PROVE WorkerInv'
  <2>1. PICK x \in {"CONFIRM", "PROVEN", "QUARANTINE"} : At(h, x)
    BY <1>12, Moving
  <2>2. lease' = lease /\ ran' = ran /\ proc' = proc
    BY <1>12 DEF Outcome, Confirm, ConfirmFails
  <2>3. \E j \in Jobs : lease[j].peer = h /\ <<j, h>> \in ran
    <3>1. CASE Outcome(h)
      <4>1. wk[h].active \in Jobs /\ lease[wk[h].active].result
        BY <1>0, <3>1 DEF Outcome
      <4>2. lease[wk[h].active].peer = h
        BY <1>0, <4>1 DEF WorkerInv, Knows
      <4> QED BY <4>1, <4>2 DEF LeaseInv
    <3>2. CASE Confirm(h) \/ ConfirmFails(h)
      BY <3>2 DEF Confirm, ConfirmFails, WorkerInv, Knows
    <3> QED BY <1>12, <3>1, <3>2
  <2>4. x = "PROVEN" => proc[h] = "GONE"
    <3>1. x = "PROVEN" => Confirm(h)
      BY <1>12, <2>1, Moving DEF At
    <3> QED BY <3>1 DEF Confirm
  <2>5. wk'[h].step = x /\ wk'[h].active = wk[h].active
    BY <2>1 DEF At
  <2>6. wk[h].active # None => lease[wk[h].active].peer = h
    BY DEF WorkerInv, Knows
  <2>7. Knows(h)'
    BY <2>2, <2>3, <2>4, <2>5, <2>6 DEF Knows
  <2> QED BY <1>3, <2>1, <2>7
<1>13. ASSUME NEW h \in Peers, NEW j \in Jobs, Settles(j, h) PROVE WorkerInv'
  <2>1. Settled(j, h)
    BY <1>13, Settling
  <2>2. \A q \in Peers : /\ wk'[q].step \in {wk[q].step, "ENDED"}
                         /\ wk'[q].active \in {wk[q].active, None}
    BY <2>1 DEF Settled
  <2> QED BY <1>1, <2>2 DEF WorkerInv
<1>14. ASSUME NEW h \in Peers, Quarantine(h) \/ Publish(h) PROVE WorkerInv'
  <2>1. PICK j \in Jobs : Settles(j, h)
    BY <1>14, Leased DEF Quarantine, Publish, Settles
  <2> QED BY <1>13, <2>1
<1>15. ASSUME NEW j \in Jobs, EndAbort(j) PROVE WorkerInv'
  <2>1. PICK h \in Peers : Settles(j, h)
    BY <1>15, Leased DEF EndAbort, Settles
  <2> QED BY <1>13, <2>1
<1>16. ASSUME Host \/ WriteStatus \/ WriteStatusFails \/ LatchRed \/ Shutdown \/ ServeReturns
       PROVE  wk' = wk
  BY <1>16 DEF Host, Launch, Start, SeeReady, CleanupRun, ProcessExits, StopSupervisor,
               SupervisorFails, WriteStatus, WriteStatusFails, LatchRed, Shutdown, ServeReturns
<1>17. ASSUME NEW h \in Peers, AcceptHandoff(h) \/ RejectHandoff(h) \/ ExpireHandoff(h) \/ Fencing(h)
       PROVE  wk' = wk
  BY <1>17 DEF AcceptHandoff, RejectHandoff, ExpireHandoff, Fencing, Fence, FenceFails, FenceAgain
<1>18. ASSUME NEW j \in Jobs, \/ SubmitRefused(j) \/ Offer(j) \/ TakeRelay(j) \/ WriteFrames(j)
                              \/ Deadline(j) \/ BeginAbort(j) \/ Tear(j) \/ TearFails(j)
       PROVE  wk' = wk
  BY <1>18 DEF SubmitRefused, Offer, TakeRelay, WriteFrames, Deadline, BeginAbort, Tear, TearFails
<1> QED BY <1>2, <1>5, <1>6, <1>7, <1>8, <1>9, <1>10, <1>11, <1>12, <1>14, <1>15, <1>16, <1>17, <1>18
        DEF Next, Dispatcher, Frame, Handler, Submission, Abort

-----------------------------------------------------------------------------
(* Answers.                                                                *)

LEMMA AnswerNext ==
    ASSUME Typed, FlagInv, HandInv, LeaseInv, AnswerInv, WorkerInv, RanInv, Next
    PROVE  AnswerInv'
<1> USE DEF host, disp, flag, stat, subm
<1>0. /\ \A j \in Jobs : lease[j].peer \in Peers \cup {None}
      /\ \A j \in Jobs : lease[j].peer = None <=> lease[j].state = "NONE"
      /\ None \notin Peers /\ None # "RETRY" /\ None # "CONFIRMED"
      /\ \A h \in Peers : proc[h] = "GONE" => proc'[h] = "GONE"
      /\ ran \subseteq ran'
      /\ \A j \in Jobs : lease[j].peer # None => lease'[j].peer = lease[j].peer
      /\ sub \in [Jobs -> SubStates] /\ chan \in [Jobs -> Answers \cup {None}]
      /\ told \in [Jobs -> Answers \cup {None}]
  BY ProcNext, RanNext, LeaseMono, SandboxAssumption DEF Typed, LeaseRow, LeaseInv
\* A job whose answer and lease are as they were, or whose answer comes now.
<1>1. ASSUME NEW j \in Jobs, sub'[j] = "NEW" => sub[j] = "NEW",
             chan'[j] = chan[j], told'[j] \in {told[j], chan[j]},
             lease'[j].sent = lease[j].sent,
             lease'[j].state = lease[j].state \/ (sub[j] # "NEW" /\ lease'[j].state = "RESOLVED")
      PROVE  AnswerOf(j)'
  <2>1. AnswerOf(j)
    BY DEF AnswerInv
  <2>2. sub'[j] = "NEW" => lease'[j].state = "NONE" /\ chan'[j] = None
    BY <1>1, <2>1 DEF AnswerOf
  <2>3. chan'[j] # None => lease'[j].state \in {"NONE", "RESOLVED"}
    BY <1>1, <2>1 DEF AnswerOf
  <2>4. chan'[j] = "RETRY" => ~lease'[j].sent
    BY <1>1, <2>1 DEF AnswerOf
  <2>5. chan'[j] = "CONFIRMED" => /\ lease'[j].peer # None /\ proc'[lease'[j].peer] = "GONE"
                                  /\ <<j, lease'[j].peer>> \in ran'
    BY <1>0, <1>1, <2>1 DEF AnswerOf
  <2>6. told'[j] # None => told'[j] = chan'[j]
    BY <1>1, <2>1 DEF AnswerOf
  <2> QED BY <2>2, <2>3, <2>4, <2>5, <2>6 DEF AnswerOf
<1>2. CASE UNCHANGED <<lease, sub, chan, told>>
  BY <1>1, <1>2 DEF AnswerInv
<1>3. ASSUME NEW j \in Jobs, Submit(j) PROVE AnswerInv'
  <2>1. /\ sub[j] = "NEW" /\ chan' = chan /\ told' = told /\ sub'[j] # "NEW"
        /\ \A k \in Jobs \ {j} : sub'[k] = sub[k]
    BY <1>0, <1>3 DEF Submit
  <2>2. \A k \in Jobs \ {j} : lease'[k] = lease[k]
    BY <1>3, Submitting
  <2>3. lease'[j].sent = lease[j].sent
    BY <1>3, Submitting
  <2>4. chan[j] = None /\ told[j] = None
    BY <1>0, <2>1 DEF AnswerInv, AnswerOf, Answers
  <2>5. ASSUME NEW k \in Jobs \ {j} PROVE AnswerOf(k)'
    BY <1>1, <2>1, <2>2
  <2>6. AnswerOf(j)'
    BY <1>0, <2>1, <2>4 DEF AnswerOf
  <2> QED BY <2>5, <2>6 DEF AnswerInv
<1>4. ASSUME NEW j \in Jobs, SubmitRefused(j) PROVE AnswerInv'
  <2>1. /\ sub[j] = "NEW" /\ lease' = lease /\ told' = told /\ sub'[j] # "NEW"
        /\ \A k \in Jobs \ {j} : sub'[k] = sub[k] /\ chan'[k] = chan[k]
        /\ chan'[j] \in {chan[j], "RETRY"}
    BY <1>0, <1>4 DEF SubmitRefused
  <2>2. chan[j] = None /\ told[j] = None /\ lease[j].state = "NONE" /\ ~lease[j].sent
    <3>1. AnswerOf(j)
      BY DEF AnswerInv
    <3>2. chan[j] = None /\ lease[j].state = "NONE"
      BY <2>1, <3>1 DEF AnswerOf
    <3>3. told[j] = None
      BY <3>1, <3>2 DEF AnswerOf
    <3> QED BY <3>2, <3>3 DEF LeaseInv
  <2>3. ASSUME NEW k \in Jobs \ {j} PROVE AnswerOf(k)'
    BY <1>1, <2>1
  <2>4. AnswerOf(j)'
    BY <1>0, <2>1, <2>2 DEF AnswerOf
  <2> QED BY <2>3, <2>4 DEF AnswerInv
<1>5. ASSUME NEW j \in Jobs, Offer(j) \/ TakeRelay(j) \/ WriteFrames(j) PROVE AnswerInv'
  <2>1. /\ lease' = lease /\ chan' = chan
        /\ \A k \in Jobs : /\ told'[k] \in {told[k], chan[k]}
                           /\ sub'[k] = "NEW" => sub[k] = "NEW"
    BY <1>0, <1>5 DEF Offer, TakeRelay, WriteFrames
  <2> QED BY <1>1, <2>1 DEF AnswerInv
<1>6. ASSUME NEW h \in Peers, Claim(h) PROVE AnswerInv'
  <2>1. PICK j \in Jobs : j = wk[h].active
    BY <1>6, Leasing
  <2>2. lease[j].state = "OFFERED" /\ sub[j] = "WAIT" /\ UNCHANGED <<sub, chan, told>>
    BY <1>6, <2>1 DEF Claim
  <2>3. \A k \in Jobs \ {j} : lease'[k] = lease[k]
    BY <1>6, <2>1, Leasing
  <2>4. chan[j] = None /\ told[j] = None
    BY <1>0, <2>2 DEF AnswerInv, AnswerOf
  <2>5. ASSUME NEW k \in Jobs \ {j} PROVE AnswerOf(k)'
    BY <1>1, <2>2, <2>3
  <2>6. AnswerOf(j)'
    BY <1>0, <2>2, <2>4 DEF AnswerOf, Answers
  <2> QED BY <2>5, <2>6 DEF AnswerInv
<1>7. ASSUME NEW h \in Peers, Result(h) PROVE AnswerInv'
  <2>1. PICK j \in Jobs : j = wk[h].active
    BY <1>7, Leasing
  <2>2. \A k \in Jobs \ {j} : lease'[k] = lease[k]
    BY <1>7, <2>1, Leasing
  <2>3. lease'[j].state = lease[j].state /\ lease'[j].sent = lease[j].sent
    <3> DEFINE a == [lease EXCEPT ![j].result = TRUE]
    <3>1. lease' = a /\ lease \in [Jobs -> LeaseRow]
      BY <1>7, <2>1 DEF Result, Typed
    <3>2. a[j].state = lease[j].state /\ a[j].sent = lease[j].sent
      BY <3>1, LeaseSet
    <3> HIDE DEF a
    <3> QED BY <3>1, <3>2
  <2>4. UNCHANGED <<sub, chan, told>>
    BY <1>7 DEF Result
  <2> QED BY <1>1, <2>2, <2>3, <2>4 DEF AnswerInv
<1>8. ASSUME NEW h \in Peers, NEW j \in Jobs, Settles(j, h) PROVE AnswerInv'
  <2>1. Settled(j, h) /\ UNCHANGED <<sub, told>>
    BY <1>8, Settling DEF Settles, EndAbort, Quarantine, Publish
  <2>2. lease[j].state # "NONE" /\ sub[j] # "NEW"
    BY <1>0, <2>1 DEF Settled, AnswerInv, AnswerOf
  <2>3. ASSUME NEW k \in Jobs, chan'[k] = chan[k] PROVE AnswerOf(k)'
    BY <1>1, <2>1, <2>2, <2>3 DEF Settled
  <2>4. ASSUME chan'[j] # chan[j] PROVE AnswerOf(j)'
    <3>1. /\ Unresolved(j) /\ lease'[j].state = "RESOLVED" /\ lease'[j].peer = h
          /\ lease'[j].sent = lease[j].sent /\ lease[j].peer = h
          /\ (chan'[j] = "RETRY" => ~lease[j].sent)
      BY <2>1, <2>4 DEF Settled
    <3>2. chan'[j] = "CONFIRMED" => proc'[h] = "GONE" /\ <<j, h>> \in ran
      BY <2>1, <2>4 DEF Settled
    <3>3. chan[j] = None /\ told[j] = None
      BY <1>0, <3>1 DEF Unresolved, AnswerInv, AnswerOf
    <3> QED BY <1>0, <2>1, <2>2, <3>1, <3>2, <3>3 DEF AnswerOf
  <2>5. \A k \in Jobs : k = j \/ chan'[k] = chan[k]
    BY <2>1 DEF Settled
  <2> QED BY <2>3, <2>4, <2>5 DEF AnswerInv
<1>9. ASSUME NEW h \in Peers, Quarantine(h) \/ Publish(h) PROVE AnswerInv'
  <2>1. PICK j \in Jobs : Settles(j, h)
    BY <1>9, Leased DEF Quarantine, Publish, Settles
  <2> QED BY <1>8, <2>1
<1>10. ASSUME NEW j \in Jobs, EndAbort(j) PROVE AnswerInv'
  <2>1. PICK h \in Peers : Settles(j, h)
    BY <1>10, Leased DEF EndAbort, Settles
  <2> QED BY <1>8, <2>1
<1>11. ASSUME Host \/ WriteStatus \/ WriteStatusFails \/ LatchRed \/ Shutdown \/ ServeReturns
       PROVE  UNCHANGED <<lease, sub, chan, told>>
  BY <1>11 DEF Host, Launch, Start, SeeReady, CleanupRun, ProcessExits, StopSupervisor,
               SupervisorFails, WriteStatus, WriteStatusFails, LatchRed, Shutdown, ServeReturns
<1>12. ASSUME NEW h \in Peers,
              \/ AcceptHandoff(h) \/ RejectHandoff(h) \/ ExpireHandoff(h) \/ Fencing(h)
              \/ Register(h) \/ RegistrationRejected(h) \/ Install(h) \/ RegistrationAccepted(h)
              \/ RegistrationLost(h) \/ Drop(h)
       PROVE  UNCHANGED <<lease, sub, chan, told>>
  BY <1>12 DEF AcceptHandoff, RejectHandoff, ExpireHandoff, Fencing, Fence, FenceFails, FenceAgain,
               Register, RegistrationRejected, Install, RegistrationAccepted, RegistrationLost, Drop
<1>13. ASSUME NEW h \in Peers,
              \/ TransferWritten(h) \/ TransferFails(h) \/ Outcome(h) \/ ConnectionEnds(h)
              \/ Confirm(h) \/ ConfirmFails(h)
       PROVE  UNCHANGED <<lease, sub, chan, told>>
  BY <1>13 DEF TransferWritten, TransferFails, Outcome, ConnectionEnds, Confirm, ConfirmFails
<1>14. ASSUME NEW j \in Jobs, Deadline(j) \/ BeginAbort(j) \/ Tear(j) \/ TearFails(j)
       PROVE  UNCHANGED <<lease, sub, chan, told>>
  BY <1>14 DEF Deadline, BeginAbort, Tear, TearFails
<1> QED BY <1>2, <1>3, <1>4, <1>5, <1>6, <1>7, <1>9, <1>10, <1>11, <1>12, <1>13, <1>14
        DEF Next, Dispatcher, Frame, Handler, Submission, Abort

-----------------------------------------------------------------------------
(* Roles and the status file.                                              *)

LEMMA StatusNext ==
    ASSUME Typed, FlagInv, HandInv, LeaseInv, WorkerInv, RanInv, StatusInv, Next
    PROVE  StatusInv'
<1> USE DEF host, disp, flag, stat, subm
<1>0. /\ \A h \in Peers : proc[h] = "GONE" => proc'[h] = "GONE"
      /\ None \notin Peers /\ \A r \in Roles : status[r].peer \in Peers \cup {None}
      /\ \A r \in Roles : doc.roles[r].peer \in Peers \cup {None}
  BY ProcNext, SandboxAssumption DEF Typed, RoleStatus, Documents
<1>1. \A r \in Roles : Reaped(status[r])' \/ status'[r] # status[r]
  BY <1>0 DEF StatusInv, Reaped
<1>2. \A r \in Roles : /\ status[r].state = "REAPED" =>
                            status[r].peer # None /\ proc'[status[r].peer] = "GONE"
                       /\ doc.roles[r].state = "REAPED" =>
                            doc.roles[r].peer # None /\ proc'[doc.roles[r].peer] = "GONE"
  BY <1>0 DEF StatusInv, Reaped
\* A role that a step changes is REAPED only of a peer that is gone.
<1>3. ASSUME doc' = doc,
             \A r \in Roles : \/ status'[r] = status[r] \/ status'[r].state # "REAPED"
                              \/ status'[r].peer \in Peers /\ proc'[status'[r].peer] = "GONE"
      PROVE  StatusInv'
  BY <1>0, <1>2, <1>3 DEF StatusInv, Reaped
<1>4. CASE status' = status /\ doc' = doc
  BY <1>3, <1>4
<1>5. CASE WriteStatus
  <2>1. status' = status /\ \A r \in Roles : doc'.roles[r] \in {status[r], AllRed[r]}
    BY <1>5 DEF WriteStatus
  <2>2. \A r \in Roles : AllRed[r].state = "RED"
    BY RedRoles
  <2> QED BY <1>2, <2>1, <2>2 DEF StatusInv, Reaped
<1>6. CASE WriteStatusFails \/ LatchRed
  <2>1. doc' = doc /\ status' \in {status, AllRed}
    BY <1>6 DEF WriteStatusFails, LatchRed
  <2>2. \A r \in Roles : AllRed[r].state = "RED"
    BY RedRoles
  <2> QED BY <1>3, <2>1, <2>2
<1>7. ASSUME NEW h \in Peers, AcceptHandoff(h) PROVE StatusInv'
  <2>1. doc' = doc /\ \A r \in Roles : status'[r] = status[r] \/ status'[r].state = "HANDED_OFF"
    BY <1>7 DEF AcceptHandoff, Typed
  <2> QED BY <1>3, <2>1
<1>8. ASSUME NEW h \in Peers, NEW call \in {"FENCE", "EXPIRED"}, Fence(call, h) PROVE StatusInv'
  <2>1. doc' = doc /\ proc'[h] = "GONE" /\ status' = RoleAfter(h, "REAPED")
    BY <1>8 DEF Fence, Typed
  <2>2. \A r \in Roles : status'[r] = status[r] \/ status'[r].peer = h
    BY <2>1, RoleAfterIs
  <2> QED BY <1>3, <2>1, <2>2
<1>9. ASSUME NEW h \in Peers, RegistrationAccepted(h) PROVE StatusInv'
  <2>1. doc' = doc /\ status' = RoleAfter(h, "READY")
    BY <1>9 DEF RegistrationAccepted
  <2>2. \A r \in Roles : status'[r] = status[r] \/ status'[r].state = "READY"
    BY <2>1, RoleAfterIs
  <2> QED BY <1>3, <2>1, <2>2
<1>10. ASSUME NEW j \in Jobs, Submit(j) PROVE StatusInv'
  <2>1. PICK h \in Peers : status' = RoleAfter(h, "BUSY")
    BY <1>10, Submitting
  <2>2. \A r \in Roles : status'[r] = status[r] \/ status'[r].state = "BUSY"
    BY <2>1, RoleAfterIs
  <2>3. doc' = doc
    BY <1>10 DEF Submit
  <2> QED BY <1>3, <2>2, <2>3
<1>11. ASSUME NEW h \in Peers, NEW j \in Jobs, Settles(j, h) PROVE StatusInv'
  <2>1. Settled(j, h) /\ doc' = doc
    BY <1>11, Settling DEF Settles, EndAbort, Quarantine, Publish
  <2>2. \A r \in Roles : status'[r] = status[r] \/ (proc'[h] = "GONE" /\ status'[r].peer = h)
    BY <2>1 DEF Settled
  <2> QED BY <1>3, <2>1, <2>2
<1>12. ASSUME NEW h \in Peers, Quarantine(h) \/ Publish(h) PROVE StatusInv'
  <2>1. PICK j \in Jobs : Settles(j, h)
    BY <1>12, Leased DEF Quarantine, Publish, Settles
  <2> QED BY <1>11, <2>1
<1>13. ASSUME NEW j \in Jobs, EndAbort(j) PROVE StatusInv'
  <2>1. PICK h \in Peers : Settles(j, h)
    BY <1>13, Leased DEF EndAbort, Settles
  <2> QED BY <1>11, <2>1
<1>14. ASSUME Host \/ Shutdown \/ ServeReturns PROVE UNCHANGED stat
  BY <1>14 DEF Host, Launch, Start, SeeReady, CleanupRun, ProcessExits, StopSupervisor,
               SupervisorFails, Shutdown, ServeReturns
<1>15. ASSUME NEW h \in Peers, NEW call \in {"FENCE", "EXPIRED"},
              \/ RejectHandoff(h) \/ ExpireHandoff(h) \/ FenceFails(call, h) \/ FenceAgain(call, h)
              \/ Register(h) \/ RegistrationRejected(h) \/ Install(h) \/ RegistrationLost(h)
              \/ Drop(h)
       PROVE  UNCHANGED stat
  BY <1>15 DEF RejectHandoff, ExpireHandoff, FenceFails, FenceAgain, Register,
               RegistrationRejected, Install, RegistrationLost, Drop
<1>16. ASSUME NEW h \in Peers,
              \/ Claim(h) \/ TransferWritten(h) \/ TransferFails(h) \/ Result(h) \/ Outcome(h)
              \/ ConnectionEnds(h) \/ Confirm(h) \/ ConfirmFails(h)
       PROVE  UNCHANGED stat
  BY <1>16 DEF Claim, TransferWritten, TransferFails, Result, Outcome, ConnectionEnds, Confirm,
               ConfirmFails
<1>17. ASSUME NEW j \in Jobs, \/ SubmitRefused(j) \/ Offer(j) \/ TakeRelay(j) \/ WriteFrames(j)
                              \/ Deadline(j) \/ BeginAbort(j) \/ Tear(j) \/ TearFails(j)
       PROVE  UNCHANGED stat
  BY <1>17 DEF SubmitRefused, Offer, TakeRelay, WriteFrames, Deadline, BeginAbort, Tear, TearFails
<1> QED BY <1>4, <1>5, <1>6, <1>7, <1>8, <1>9, <1>10, <1>12, <1>13, <1>14, <1>15, <1>16, <1>17
        DEF Next, Dispatcher, Frame, Handler, Submission, Abort, Fencing

-----------------------------------------------------------------------------
(* What ends a call, an open descriptor, a handoff, a goroutine, an abort. *)

Fenced(call, h) == Fence(call, h) \/ FenceFails(call, h) \/ FenceAgain(call, h)

\* A call ends when it is taken up.
LEMMA TodoNext ==
    ASSUME Next
    PROVE  \A c \in todo :
             \/ c \in todo'
             \/ \E call \in {"FENCE", "EXPIRED"}, h \in Peers : c = <<call, h>> /\ Fenced(call, h)
             \/ \E h \in Peers : c = <<"DROP", h>> /\ Drop(h)
             \/ \E j \in Jobs : c = <<"ABORT", j>> /\ BeginAbort(j)
             \/ c = <<"RED">> /\ LatchRed
<1> USE DEF host, disp, flag, stat, subm
<1>1. ASSUME Host \/ WriteStatus \/ WriteStatusFails \/ Shutdown \/ ServeReturns
      PROVE  todo \subseteq todo'
  BY <1>1 DEF Host, Launch, Start, SeeReady, CleanupRun, ProcessExits, StopSupervisor,
              SupervisorFails, WriteStatus, WriteStatusFails, Shutdown, ServeReturns
<1>2. ASSUME NEW h \in Peers,
             \/ AcceptHandoff(h) \/ RejectHandoff(h) \/ ExpireHandoff(h) \/ Register(h)
             \/ RegistrationRejected(h) \/ Install(h) \/ RegistrationAccepted(h)
             \/ RegistrationLost(h)
      PROVE  todo \subseteq todo'
  BY <1>2 DEF AcceptHandoff, RejectHandoff, ExpireHandoff, Register, RegistrationRejected, Install,
              RegistrationAccepted, RegistrationLost
<1>3. ASSUME NEW h \in Peers,
             \/ Claim(h) \/ TransferWritten(h) \/ TransferFails(h) \/ Result(h) \/ Outcome(h)
             \/ ConnectionEnds(h) \/ Confirm(h) \/ ConfirmFails(h) \/ Quarantine(h) \/ Publish(h)
      PROVE  todo \subseteq todo'
  BY <1>3 DEF Claim, TransferWritten, TransferFails, Result, Outcome, ConnectionEnds, Confirm,
              ConfirmFails, Quarantine, Publish
<1>4. ASSUME NEW j \in Jobs, Submission(j) \/ Deadline(j) \/ Tear(j) \/ TearFails(j) \/ EndAbort(j)
      PROVE  todo \subseteq todo'
  BY <1>4 DEF Submission, Submit, SubmitRefused, Offer, TakeRelay, WriteFrames, Deadline, Tear,
              TearFails, EndAbort
<1>5. ASSUME NEW h \in Peers, NEW call \in {"FENCE", "EXPIRED"}, Fenced(call, h)
      PROVE  todo \ {<<call, h>>} \subseteq todo'
  BY <1>5 DEF Fenced, Fence, FenceFails, FenceAgain
<1>6. ASSUME NEW h \in Peers, Drop(h) PROVE todo \ {<<"DROP", h>>} \subseteq todo'
  BY <1>6 DEF Drop
<1>7. ASSUME NEW j \in Jobs, BeginAbort(j) PROVE todo \ {<<"ABORT", j>>} \subseteq todo'
  BY <1>7 DEF BeginAbort
<1>8. LatchRed => todo \ {<<"RED">>} \subseteq todo'
  BY DEF LatchRed
<1>9. \/ todo \subseteq todo'
      \/ \E h \in Peers, call \in {"FENCE", "EXPIRED"} : Fenced(call, h)
      \/ \E h \in Peers : Drop(h)
      \/ \E j \in Jobs : BeginAbort(j)
      \/ LatchRed
  BY <1>1, <1>2, <1>3, <1>4
     DEF Next, Dispatcher, Frame, Handler, Submission, Abort, Fencing, Fenced
<1> QED BY <1>5, <1>6, <1>7, <1>8, <1>9

\* RED is final.
LEMMA RedStays == ASSUME Next, red PROVE red'
<1> USE DEF host, disp, flag, stat, subm
<1>1. Host => red' = red
  BY DEF Host, Launch, Start, SeeReady, CleanupRun, ProcessExits, StopSupervisor, SupervisorFails
<1>2. ASSUME NEW h \in Peers,
             \/ AcceptHandoff(h) \/ RejectHandoff(h) \/ ExpireHandoff(h) \/ Fencing(h)
             \/ Register(h) \/ RegistrationRejected(h) \/ Install(h) \/ RegistrationAccepted(h)
             \/ RegistrationLost(h) \/ Drop(h)
      PROVE  red' = red
  BY <1>2 DEF AcceptHandoff, RejectHandoff, ExpireHandoff, Fencing, Fence, FenceFails, FenceAgain,
              Register, RegistrationRejected, Install, RegistrationAccepted, RegistrationLost, Drop
<1>3. ASSUME NEW h \in Peers,
             \/ Claim(h) \/ TransferWritten(h) \/ TransferFails(h) \/ Result(h) \/ Outcome(h)
             \/ ConnectionEnds(h) \/ Confirm(h) \/ ConfirmFails(h) \/ Quarantine(h) \/ Publish(h)
      PROVE  red' = red
  BY <1>3 DEF Claim, TransferWritten, TransferFails, Result, Outcome, ConnectionEnds, Confirm,
              ConfirmFails, Quarantine, Publish
<1>4. ASSUME NEW j \in Jobs, Submission(j) \/ Deadline(j) \/ Abort(j) PROVE red' = red
  BY <1>4 DEF Submission, Submit, SubmitRefused, Offer, TakeRelay, WriteFrames, Deadline, Abort,
              BeginAbort, Tear, TearFails, EndAbort
<1>5. ASSUME WriteStatus \/ WriteStatusFails \/ LatchRed \/ Shutdown \/ ServeReturns
      PROVE  red => red'
  BY <1>5 DEF WriteStatus, WriteStatusFails, LatchRed, Shutdown, ServeReturns
<1> QED BY <1>1, <1>2, <1>3, <1>4, <1>5 DEF Next, Dispatcher, Frame, Handler

\* The alarm stays.
LEMMA AlarmNext == ASSUME Next, Alarm PROVE Alarm'
<1>1. red => red'
  BY RedStays
<1>2. <<"RED">> \in todo => <<"RED">> \in todo' \/ red'
  <2>1. LatchRed => red'
    BY DEF LatchRed
  <2>2. \A a, b : <<"RED">> # <<a, b>>
    OBVIOUS
  <2> QED BY <2>1, <2>2, TodoNext
<1> QED BY <1>1, <1>2 DEF Alarm

\* The steps that open or close a peer's descriptors.
LEMMA FdNext ==
    ASSUME Typed, FlagInv, LeaseInv, WorkerInv, RanInv, Next
    PROVE  \A h \in Peers : \/ fd'[h] = fd[h]
                            \/ AcceptHandoff(h) \/ RejectHandoff(h)
                            \/ \E call \in {"FENCE", "EXPIRED"} : Fence(call, h) \/ FenceFails(call, h)
                            \/ fd'[h] = "CLOSED" /\ (red \/ proc'[h] = "GONE")
<1> USE DEF host, disp, flag, stat, subm
<1>1. ASSUME Host \/ WriteStatus \/ WriteStatusFails \/ LatchRed \/ Shutdown \/ ServeReturns
      PROVE  fd' = fd
  BY <1>1 DEF Host, Launch, Start, SeeReady, CleanupRun, ProcessExits, StopSupervisor,
              SupervisorFails, WriteStatus, WriteStatusFails, LatchRed, Shutdown, ServeReturns
<1>2. ASSUME NEW h \in Peers,
             \/ AcceptHandoff(h) \/ RejectHandoff(h)
             \/ \E call \in {"FENCE", "EXPIRED"} : Fence(call, h) \/ FenceFails(call, h)
      PROVE  \A q \in Peers \ {h} : fd'[q] = fd[q]
  BY <1>2 DEF AcceptHandoff, RejectHandoff, Fence, FenceFails, Typed
<1>3. ASSUME NEW h \in Peers,
             \/ ExpireHandoff(h) \/ Register(h)
             \/ RegistrationRejected(h) \/ Install(h) \/ RegistrationAccepted(h)
             \/ RegistrationLost(h) \/ Drop(h) \/ \E call \in {"FENCE", "EXPIRED"} : FenceAgain(call, h)
      PROVE  fd' = fd
  BY <1>3 DEF ExpireHandoff, Register, RegistrationRejected, Install, RegistrationAccepted,
              RegistrationLost, Drop, FenceAgain
<1>4. ASSUME NEW h \in Peers,
             \/ Claim(h) \/ TransferWritten(h) \/ TransferFails(h) \/ Result(h) \/ Outcome(h)
             \/ ConnectionEnds(h) \/ Confirm(h) \/ ConfirmFails(h)
      PROVE  fd' = fd
  BY <1>4 DEF Claim, TransferWritten, TransferFails, Result, Outcome, ConnectionEnds, Confirm,
              ConfirmFails
<1>5. ASSUME NEW j \in Jobs, Submission(j) \/ Deadline(j) \/ BeginAbort(j) \/ Tear(j) \/ TearFails(j)
      PROVE  fd' = fd
  BY <1>5 DEF Submission, Submit, SubmitRefused, Offer, TakeRelay, WriteFrames, Deadline,
              BeginAbort, Tear, TearFails
<1>6. ASSUME NEW h \in Peers, Quarantine(h) \/ Publish(h)
      PROVE  \A q \in Peers : fd'[q] = fd[q] \/ (fd'[q] = "CLOSED" /\ (red \/ proc'[q] = "GONE"))
  <2>1. PICK j \in Jobs : Settles(j, h)
    BY <1>6, Leased DEF Quarantine, Publish, Settles
  <2>2. Settled(j, h)
    BY <2>1, Settling
  <2> QED BY <2>2 DEF Settled
<1>7. ASSUME NEW j \in Jobs, EndAbort(j)
      PROVE  \A q \in Peers : fd'[q] = fd[q] \/ (fd'[q] = "CLOSED" /\ (red \/ proc'[q] = "GONE"))
  <2>1. PICK h \in Peers : Settles(j, h)
    BY <1>7, Leased DEF EndAbort, Settles
  <2>2. Settled(j, h)
    BY <2>1, Settling
  <2> QED BY <2>2 DEF Settled
<1> QED BY <1>1, <1>2, <1>3, <1>4, <1>5, <1>6, <1>7
        DEF Next, Dispatcher, Frame, Handler, Abort, Fencing

\* A pending handoff ends by its expiry, its registration or a fence of them all.
LEMMA PendingNext ==
    ASSUME Typed, HandInv, Next
    PROVE  \A h \in Peers : hand[h] = "ACKNOWLEDGED" =>
             \/ hand'[h] = "ACKNOWLEDGED" \/ <<"EXPIRED", h>> \in todo' \/ Register(h)
             \/ red' \/ <<"FENCE", h>> \in todo'
<1> USE DEF host, disp, flag, stat, subm
<1>0. hand \in [Peers -> HandStates] /\ proc \in [Peers -> ProcStates]
  BY DEF Typed
<1>1. ASSUME NEW r \in Roles, NEW h \in Peers, Launch(r, h)
      PROVE  \A q \in Peers : hand[q] = "ACKNOWLEDGED" => hand'[q] = hand[q]
  BY <1>0, <1>1 DEF Launch, HandInv
<1>2. ASSUME \/ WriteStatus \/ WriteStatusFails \/ ServeReturns \/ StopSupervisor \/ SupervisorFails
             \/ \E r \in Roles : Start(r) \/ SeeReady(r) \/ CleanupRun(r)
             \/ \E h \in Peers : ProcessExits(h)
      PROVE  hand' = hand
  BY <1>2 DEF Start, SeeReady, CleanupRun, ProcessExits, StopSupervisor,
              SupervisorFails, WriteStatus, WriteStatusFails, ServeReturns
<1>3. ASSUME NEW h \in Peers, AcceptHandoff(h) \/ RejectHandoff(h)
      PROVE  \A q \in Peers : hand[q] = "ACKNOWLEDGED" => hand'[q] = hand[q]
  BY <1>0, <1>3 DEF AcceptHandoff, RejectHandoff
<1>4. ASSUME NEW h \in Peers, ExpireHandoff(h)
      PROVE  \A q \in Peers : hand'[q] = hand[q] \/ <<"EXPIRED", q>> \in todo'
  BY <1>0, <1>4 DEF ExpireHandoff
<1>5. ASSUME NEW h \in Peers, Register(h) PROVE \A q \in Peers \ {h} : hand'[q] = hand[q]
  BY <1>0, <1>5 DEF Register
<1>6. LatchRed => red'
  BY DEF LatchRed
<1>7. Shutdown => \A h \in Peers : hand[h] = "ACKNOWLEDGED" => <<"FENCE", h>> \in todo'
  BY DEF Shutdown, FenceAll, Pending
<1>8. ASSUME NEW h \in Peers,
             \/ Fencing(h) \/ RegistrationRejected(h) \/ Install(h) \/ RegistrationAccepted(h)
             \/ RegistrationLost(h) \/ Drop(h)
      PROVE  hand' = hand
  BY <1>8 DEF Fencing, Fence, FenceFails, FenceAgain, RegistrationRejected, Install,
              RegistrationAccepted, RegistrationLost, Drop
<1>9. ASSUME NEW h \in Peers,
             \/ Claim(h) \/ TransferWritten(h) \/ TransferFails(h) \/ Result(h) \/ Outcome(h)
             \/ ConnectionEnds(h) \/ Confirm(h) \/ ConfirmFails(h) \/ Quarantine(h) \/ Publish(h)
      PROVE  hand' = hand
  BY <1>9 DEF Claim, TransferWritten, TransferFails, Result, Outcome, ConnectionEnds, Confirm,
              ConfirmFails, Quarantine, Publish
<1>10. ASSUME NEW j \in Jobs, Submission(j) \/ Deadline(j) \/ Abort(j) PROVE hand' = hand
  BY <1>10 DEF Submission, Submit, SubmitRefused, Offer, TakeRelay, WriteFrames, Deadline, Abort,
               BeginAbort, Tear, TearFails, EndAbort
<1> QED BY <1>1, <1>2, <1>3, <1>4, <1>5, <1>6, <1>7, <1>8, <1>9, <1>10
        DEF Next, Host, Dispatcher, Frame, Handler

\* A goroutine that ends has left a call behind, or RED follows.
LEMMA ServingNext ==
    ASSUME Typed, FlagInv, LeaseInv, WorkerInv, RanInv, Next
    PROVE  \A h \in Peers : wk[h].step \notin {"NONE", "ENDED"} =>
             \/ wk'[h].step \notin {"NONE", "ENDED"} \/ Alarm'
             \/ <<"FENCE", h>> \in todo' \/ <<"DROP", h>> \in todo'
<1> USE DEF host, disp, flag, stat, subm
<1> DEFINE Left(h) == wk[h].step \notin {"NONE", "ENDED"} =>
                        \/ wk'[h].step \notin {"NONE", "ENDED"} \/ Alarm'
                        \/ <<"FENCE", h>> \in todo' \/ <<"DROP", h>> \in todo'
<1>1. ASSUME wk' = wk PROVE \A h \in Peers : Left(h)
  BY <1>1
<1>2. ASSUME NEW h \in Peers, NEW x, At(h, x),
             \/ x \notin {"NONE", "ENDED"}
             \/ <<"FENCE", h>> \in todo' \/ <<"DROP", h>> \in todo'
      PROVE  \A q \in Peers : Left(q)
  BY <1>2 DEF At
<1>3. ASSUME NEW h \in Peers, Register(h) \/ Install(h) PROVE \A q \in Peers : Left(q)
  <2>1. PICK x \in {"PROVING", "INSTALLED"} : At(h, x)
    BY <1>3, Moving
  <2> QED BY <1>2, <2>1
<1>4. ASSUME NEW h \in Peers,
             RegistrationRejected(h) \/ RegistrationLost(h) \/ TransferFails(h) \/ ConnectionEnds(h)
      PROVE  \A q \in Peers : Left(q)
  <2>1. At(h, "ENDED")
    BY <1>4, Moving
  <2>2. <<"FENCE", h>> \in todo' \/ <<"DROP", h>> \in todo'
    BY <1>4 DEF RegistrationRejected, RegistrationLost, TransferFails, ConnectionEnds
  <2> QED BY <1>2, <2>1, <2>2
<1>5. ASSUME NEW h \in Peers,
             Claim(h) \/ TransferWritten(h) \/ Outcome(h) \/ Confirm(h) \/ ConfirmFails(h)
      PROVE  \A q \in Peers : Left(q)
  <2>1. PICK x \in {"TRANSFER", "SERVING", "CONFIRM", "PROVEN", "QUARANTINE"} : At(h, x)
    BY <1>5, Moving
  <2> QED BY <1>2, <2>1
<1>6. ASSUME NEW h \in Peers, RegistrationAccepted(h) PROVE \A q \in Peers : Left(q)
  BY <1>6, Accepting DEF Alarm
<1>7. ASSUME NEW h \in Peers, Drop(h) PROVE \A q \in Peers : Left(q)
  BY <1>7, Dropping
<1>8. ASSUME NEW j \in Jobs, Submit(j) PROVE \A q \in Peers : Left(q)
  <2>1. \A q \in Peers : wk'[q].step = wk[q].step
    BY <1>8, Submitting
  <2> QED BY <2>1
<1>9. ASSUME NEW h \in Peers, Quarantine(h) \/ Publish(h) PROVE \A q \in Peers : Left(q)
  <2>1. PICK j \in Jobs : Settles(j, h)
    BY <1>9, Leased DEF Quarantine, Publish, Settles
  <2>2. Settled(j, h)
    BY <2>1, Settling
  <2>3. <<"DROP", h>> \in todo'
    BY <1>9 DEF Quarantine, Publish
  <2> QED BY <2>2, <2>3 DEF Settled
<1>10. ASSUME NEW j \in Jobs, EndAbort(j) PROVE \A q \in Peers : Left(q)
  <2>1. wk' = wk \/ Resolve(j, AbortAnswer(j), abort[j].proven, wk)
    BY <1>10 DEF EndAbort
  <2>2. CASE Resolve(j, AbortAnswer(j), abort[j].proven, wk)
    <3>1. lease[j].peer \in Peers /\ abort[j].proven \in BOOLEAN /\ wk \in [Peers -> WkRow]
      BY <1>10, Leased DEF EndAbort, Typed, AbortRow
    <3>2. \A q \in Peers : wk'[q].step = wk[q].step
      BY <2>2, <3>1, Resolves, Answering
    <3> QED BY <3>2
  <2> QED BY <1>1, <2>1, <2>2
<1>11. ASSUME Host \/ WriteStatus \/ WriteStatusFails \/ LatchRed \/ Shutdown \/ ServeReturns
       PROVE  wk' = wk
  BY <1>11 DEF Host, Launch, Start, SeeReady, CleanupRun, ProcessExits, StopSupervisor,
               SupervisorFails, WriteStatus, WriteStatusFails, LatchRed, Shutdown, ServeReturns
<1>12. ASSUME NEW h \in Peers,
              AcceptHandoff(h) \/ RejectHandoff(h) \/ ExpireHandoff(h) \/ Fencing(h) \/ Result(h)
       PROVE  wk' = wk
  BY <1>12 DEF AcceptHandoff, RejectHandoff, ExpireHandoff, Fencing, Fence, FenceFails, FenceAgain,
               Result
<1>13. ASSUME NEW j \in Jobs, \/ SubmitRefused(j) \/ Offer(j) \/ TakeRelay(j) \/ WriteFrames(j)
                              \/ Deadline(j) \/ BeginAbort(j) \/ Tear(j) \/ TearFails(j)
       PROVE  wk' = wk
  BY <1>13 DEF SubmitRefused, Offer, TakeRelay, WriteFrames, Deadline, BeginAbort, Tear, TearFails
<1> QED BY <1>1, <1>3, <1>4, <1>5, <1>6, <1>7, <1>8, <1>9, <1>10, <1>11, <1>12, <1>13
        DEF Next, Dispatcher, Frame, Handler, Submission, Abort

\* An abort ends by resolving its lease.
LEMMA AbortNext ==
    ASSUME Typed, Next
    PROVE  \A j \in Jobs : abort[j].step # "NONE" => abort'[j].step # "NONE" \/ EndAbort(j)
<1>1. ASSUME NEW j \in Jobs, BeginAbort(j) \/ Tear(j) \/ TearFails(j) \/ EndAbort(j)
      PROVE  \A k \in Jobs : abort[k].step # "NONE" => abort'[k].step # "NONE" \/ EndAbort(k)
  BY <1>1, Aborting
<1>2. CASE abort' = abort
  BY <1>2
<1>3. abort' = abort \/ \E j \in Jobs : Abort(j)
  <2> USE DEF host, disp, flag, stat, subm
  <2>1. ASSUME NEW j \in Jobs, Submit(j) PROVE abort' = abort
    BY <2>1 DEF Submit
  <2>2. ASSUME NEW h \in Peers, Claim(h) \/ Result(h) \/ Quarantine(h) \/ Publish(h)
        PROVE  abort' = abort
    BY <2>2 DEF Claim, Result, Quarantine, Publish
  <2> QED BY <2>1, <2>2, LeaseFrame
<1> QED BY <1>1, <1>2, <1>3 DEF Abort

-----------------------------------------------------------------------------
(* No sandbox is left behind.                                              *)

LEMMA DrainNext ==
    ASSUME Typed, FlagInv, HandInv, LeaseInv, AnswerInv, WorkerInv, RanInv, DrainInv, Next
    PROVE  DrainInv'
<1> USE DEF host, disp, flag, stat, subm
<1>0. /\ \A h \in Peers : proc[h] = "GONE" => proc'[h] = "GONE"
      /\ Alarm => Alarm'
      /\ \A h \in Peers : h # None
      /\ \A j \in Jobs : lease[j].peer # None => lease'[j].peer = lease[j].peer
  BY ProcNext, AlarmNext, LeaseMono, SandboxAssumption
\* A step that closes the descriptors of a peer saw it gone, or raises the alarm.
<1>1. ASSUME NEW h \in Peers, fd'[h] = "CLOSED", fd[h] # "CLOSED" PROVE Alarm' \/ proc'[h] = "GONE"
  <2>1. CASE AcceptHandoff(h) \/ RejectHandoff(h)
    BY <1>1, <2>1 DEF AcceptHandoff, RejectHandoff, Typed
  <2>2. ASSUME NEW call \in {"FENCE", "EXPIRED"}, Fence(call, h) PROVE proc'[h] = "GONE"
    BY <2>2 DEF Fence, Typed
  <2>3. ASSUME NEW call \in {"FENCE", "EXPIRED"}, FenceFails(call, h) PROVE Alarm'
    BY <2>3 DEF FenceFails, Alarm
  <2>4. red => Alarm'
    BY <1>0 DEF Alarm
  <2> QED BY <1>1, <2>1, <2>2, <2>3, <2>4, FdNext
<1>2. ASSUME NEW h \in Peers, fd'[h] = "CLOSED" PROVE Alarm' \/ proc'[h] = "GONE"
  BY <1>0, <1>1, <1>2 DEF DrainInv
\* A step that hands a peer over leaves it pending or fenced.
<1>3. ASSUME NEW h \in Peers, fd'[h] = "OPEN", fd[h] # "OPEN" PROVE Tracked(h)'
  <2>1. AcceptHandoff(h) \/ RejectHandoff(h)
    BY <1>3, FdNext DEF Fence, FenceFails, Typed
  <2>2. AcceptHandoff(h) => hand'[h] = "ACKNOWLEDGED"
    BY DEF AcceptHandoff, Typed
  <2>3. RejectHandoff(h) => <<"FENCE", h>> \in todo'
    BY <1>3 DEF RejectHandoff
  <2> QED BY <2>1, <2>2, <2>3 DEF Tracked
<1>4. ASSUME NEW h \in Peers, fd'[h] = "OPEN", fd[h] = "OPEN", ~Alarm' PROVE Tracked(h)'
  <2>0. Tracked(h)
    BY <1>0, <1>4 DEF DrainInv
  <2>1. CASE hand[h] = "ACKNOWLEDGED"
    <3>1. Register(h) => wk'[h].step = "PROVING"
      BY Moving DEF At
    <3> QED BY <1>4, <2>1, <3>1, PendingNext DEF Tracked, Alarm
  <2>2. CASE wk[h].step \notin {"NONE", "ENDED"}
    BY <1>4, <2>2, ServingNext DEF Tracked
  <2>3. ASSUME NEW call \in {"FENCE", "EXPIRED"}, <<call, h>> \in todo PROVE Tracked(h)'
    <3>1. \A c \in {"FENCE", "EXPIRED"} : ~Fenced(c, h)
      BY <1>4 DEF Fenced, Fence, FenceFails, FenceAgain, Typed
    <3>2. <<call, h>> \in todo'
      BY <2>3, <3>1, TodoNext
    <3> QED BY <3>2 DEF Tracked
  <2>4. CASE <<"DROP", h>> \in todo
    <3>1. <<"DROP", h>> \in todo' \/ Drop(h)
      BY <2>4, TodoNext
    <3>2. CASE Drop(h) /\ wk[h].active = None
      <4>1. <<"FENCE", h>> \in todo'
        BY <1>4, <3>2 DEF Drop
      <4> QED BY <4>1 DEF Tracked
    <3>3. CASE Drop(h) /\ wk[h].active # None
      <4>1. PICK j \in Jobs : j = wk[h].active
        BY <3>3 DEF Typed, WkRow
      <4>2. <<"ABORT", j>> \in todo' /\ lease' = lease
        BY <3>3, <4>1 DEF Drop
      <4>3. lease[j].peer = h
        BY <3>3, <4>1 DEF WorkerInv, Knows
      <4> QED BY <4>2, <4>3 DEF Tracked
    <3> QED BY <3>1, <3>2, <3>3 DEF Tracked
  <2>5. ASSUME NEW j \in Jobs, lease[j].peer = h, <<"ABORT", j>> \in todo \/ abort[j].step # "NONE"
        PROVE  Tracked(h)'
    <3>1. lease'[j].peer = h
      BY <1>0, <2>5
    <3>2. CASE <<"ABORT", j>> \in todo
      <4>1. <<"ABORT", j>> \in todo' \/ BeginAbort(j)
        BY <3>2, TodoNext
      <4>2. ASSUME BeginAbort(j) PROVE abort'[j].step # "NONE"
        <5>1. fd' = fd /\ lease' = lease
          BY <4>2 DEF BeginAbort
        <5>2. lease[j].state # "NONE" /\ lease[j].state # "RESOLVED"
          BY <1>0, <1>4, <2>5 DEF LeaseInv
        <5>3. Unresolved(j)
          BY <5>2 DEF Unresolved, Typed, LeaseRow
        <5> QED BY <4>2, <5>3, Aborting
      <4> QED BY <3>1, <4>1, <4>2 DEF Tracked
    <3>3. CASE abort[j].step # "NONE"
      <4>1. ASSUME EndAbort(j) PROVE FALSE
        <5>1. Settles(j, h)
          BY <2>5, <4>1 DEF Settles
        <5>2. Settled(j, h)
          BY <5>1, Settling
        <5> QED BY <1>4, <4>1, <5>2 DEF Settled
      <4>2. abort'[j].step # "NONE"
        BY <3>3, <4>1, AbortNext
      <4> QED BY <3>1, <4>2 DEF Tracked
    <3> QED BY <2>5, <3>2, <3>3
  <2> QED BY <2>0, <2>1, <2>2, <2>3, <2>4, <2>5 DEF Tracked
<1> QED BY <1>2, <1>3, <1>4 DEF DrainInv

LEMMA ShutdownNext ==
    ASSUME Typed, FlagInv, HandInv, LeaseInv, AnswerInv, WorkerInv, RanInv, DrainInv,
           ShutdownDrains, Next
    PROVE  ShutdownDrains'
<1> USE DEF host, disp, flag, stat, subm
<1>0. /\ \A h \in Peers : proc[h] = "GONE" => proc'[h] = "GONE"
      /\ Alarm => Alarm'
  BY ProcNext, AlarmNext
<1>1. CASE ServeReturns
  <2> SUFFICES ASSUME ~red, NEW h \in Peers, fd[h] # "NONE"
               PROVE  proc[h] = "GONE" \/ <<"EXPIRED", h>> \in todo
    BY <1>1 DEF ServeReturns, ShutdownDrains
  <2>1. /\ todo \subseteq {"EXPIRED"} \X Peers
        /\ \A j \in Jobs : abort[j].step = "NONE"
        /\ wk[h].step \in {"NONE", "ENDED"} /\ closed
    BY <1>1 DEF ServeReturns
  <2>2. <<"RED">> \notin todo /\ \A j \in Jobs : <<"ABORT", j>> \notin todo
    BY <2>1
  <2>3. hand[h] # "ACKNOWLEDGED"
    BY <2>1 DEF FlagInv, Pending
  <2>4. Tracked(h) => <<"EXPIRED", h>> \in todo
    BY <2>1, <2>2, <2>3 DEF Tracked
  <2>5. fd[h] \in {"OPEN", "CLOSED"}
    BY DEF Typed
  <2> QED BY <2>2, <2>4, <2>5 DEF DrainInv, Alarm
<1>2. CASE ~ServeReturns /\ ~returned
  <2>1. returned' = returned
    <3>1. Host => returned' = returned
      BY DEF Host, Launch, Start, SeeReady, CleanupRun, ProcessExits, StopSupervisor, SupervisorFails
    <3>2. ASSUME NEW h \in Peers,
                 \/ AcceptHandoff(h) \/ RejectHandoff(h) \/ ExpireHandoff(h) \/ Fencing(h)
                 \/ Register(h) \/ RegistrationRejected(h) \/ Install(h) \/ RegistrationAccepted(h)
                 \/ RegistrationLost(h) \/ Drop(h)
          PROVE  returned' = returned
      BY <3>2 DEF AcceptHandoff, RejectHandoff, ExpireHandoff, Fencing, Fence, FenceFails,
                  FenceAgain, Register, RegistrationRejected, Install, RegistrationAccepted,
                  RegistrationLost, Drop
    <3>3. ASSUME NEW h \in Peers,
                 \/ Claim(h) \/ TransferWritten(h) \/ TransferFails(h) \/ Result(h) \/ Outcome(h)
                 \/ ConnectionEnds(h) \/ Confirm(h) \/ ConfirmFails(h) \/ Quarantine(h) \/ Publish(h)
          PROVE  returned' = returned
      BY <3>3 DEF Claim, TransferWritten, TransferFails, Result, Outcome, ConnectionEnds, Confirm,
                  ConfirmFails, Quarantine, Publish
    <3>4. ASSUME NEW j \in Jobs, Submission(j) \/ Deadline(j) \/ Abort(j) PROVE returned' = returned
      BY <3>4 DEF Submission, Submit, SubmitRefused, Offer, TakeRelay, WriteFrames, Deadline, Abort,
                  BeginAbort, Tear, TearFails, EndAbort
    <3>5. ASSUME WriteStatus \/ WriteStatusFails \/ LatchRed \/ Shutdown PROVE returned' = returned
      BY <3>5 DEF WriteStatus, WriteStatusFails, LatchRed, Shutdown
    <3> QED BY <1>2, <3>1, <3>2, <3>3, <3>4, <3>5 DEF Next, Dispatcher, Frame, Handler
  <2> QED BY <1>2, <2>1 DEF ShutdownDrains
<1>3. CASE returned
  <2> SUFFICES ASSUME ~red', NEW h \in Peers, fd'[h] # "NONE"
               PROVE  proc'[h] = "GONE" \/ <<"EXPIRED", h>> \in todo'
    BY DEF ShutdownDrains
  <2>1. closed /\ \A call \in {"FENCE", "EXPIRED"} : ~FenceCalled(call, h)
    BY <1>3 DEF FlagInv, FenceCalled
  <2>2. ~AcceptHandoff(h) /\ ~RejectHandoff(h)
    BY <1>3, <2>1 DEF AcceptHandoff, RejectHandoff
  <2>3. \A call \in {"FENCE", "EXPIRED"} : ~Fenced(call, h)
    BY <2>1 DEF Fenced, Fence, FenceFails, FenceAgain
  <2>4. fd'[h] = fd[h] \/ proc'[h] = "GONE" \/ red
    BY <2>2, <2>3, FdNext DEF Fenced
  <2>5. <<"EXPIRED", h>> \in todo => <<"EXPIRED", h>> \in todo'
    BY <2>3, TodoNext
  <2>6. red => red'
    BY <1>0, RedStays
  <2> QED BY <1>0, <1>3, <2>4, <2>5, <2>6 DEF ShutdownDrains
<1> QED BY <1>1, <1>2, <1>3

-----------------------------------------------------------------------------
(* The theorems.                                                           *)

LEMMA IInvInit == ASSUME Init PROVE IInv
<1>1. TypeOK
  BY TypeInit, TypedOK
<1>2. FlagInv /\ HandInv /\ WorkerInv /\ RanInv /\ DrainInv /\ ShutdownDrains
  BY DEF Init, FlagInv, HandInv, WorkerInv, Knows, RanInv, DrainInv, ShutdownDrains, NoWorker, Unserved
<1>3. LeaseInv
  BY DEF Init, LeaseInv, NoLease, NoAbort
<1>4. AnswerInv
  BY SandboxAssumption DEF Init, AnswerInv, AnswerOf, NoLease
<1>5. StatusInv
  BY DEF Init, StatusInv, Reaped
<1> QED BY <1>1, <1>2, <1>3, <1>4, <1>5 DEF IInv

LEMMA IInvNext == ASSUME IInv, [Next]_vars PROVE IInv'
<1>1. CASE Next
  <2>1. Typed /\ FlagInv /\ HandInv /\ LeaseInv /\ AnswerInv /\ WorkerInv /\ RanInv /\ StatusInv
        /\ DrainInv /\ ShutdownDrains
    BY TypedOK DEF IInv
  <2>2. TypeOK'
    BY <1>1, <2>1, TypeNext, TypedOK
  <2>3. FlagInv' /\ HandInv' /\ LeaseInv'
    BY <1>1, <2>1, FlagNext, HandNext, LeaseNext
  <2>4. AnswerInv' /\ WorkerInv' /\ RanInv' /\ StatusInv'
    BY <1>1, <2>1, AnswerNext, WorkerNext, RanInvNext, StatusNext
  <2>5. DrainInv' /\ ShutdownDrains'
    BY <1>1, <2>1, DrainNext, ShutdownNext
  <2> QED BY <2>2, <2>3, <2>4, <2>5 DEF IInv
<1>2. CASE UNCHANGED vars
  <2>1. UNCHANGED <<proc, sup, supState, hand, fd, worker, wk, lease, abort, todo, red, latched,
                    closed, returned, status, doc, sub, chan, relay, told, ran, faults>>
    BY <1>2 DEF vars, host, disp, flag, stat, subm
  <2>2. TypeOK' /\ FlagInv' /\ HandInv' /\ ShutdownDrains'
    BY <2>1 DEF IInv, TypeOK, FlagInv, Pending, HandInv, Unserved, ShutdownDrains, Calls, Documents
  <2>3. LeaseInv' /\ AnswerInv' /\ WorkerInv' /\ RanInv'
    BY <2>1 DEF IInv, LeaseInv, AnswerInv, AnswerOf, WorkerInv, Knows, RanInv
  <2>4. StatusInv' /\ DrainInv'
    BY <2>1 DEF IInv, StatusInv, Reaped, DrainInv, Alarm, Tracked
  <2> QED BY <2>2, <2>3, <2>4 DEF IInv
<1> QED BY <1>1, <1>2

\* The inductive invariant holds, for every number of roles, peers, jobs and faults.
THEOREM Invariance == Spec => []IInv
<1>1. Init => IInv
  BY IInvInit
<1>2. IInv /\ [Next]_vars => IInv'
  BY IInvNext
<1> QED BY <1>1, <1>2, PTL DEF Spec

\* Every variable keeps its type (the tables of DispatcherV2 and its supervisor).
THEOREM TypeCorrect == Spec => []TypeOK
<1>1. IInv => TypeOK
  BY DEF IInv
<1> QED BY <1>1, Invariance, PTL

\* abortV2 answers RETRY only for a document no parser has had, although a claim
\* can slip in between its fence and its kill.
THEOREM RetryIsSafe == Spec => []RetryUntransferred
<1>1. IInv => RetryUntransferred
  <2> SUFFICES ASSUME IInv, NEW j \in Jobs, told[j] = "RETRY", NEW h \in Peers, <<j, h>> \in ran
               PROVE  FALSE
    BY DEF RetryUntransferred
  <2>1. chan[j] = "RETRY"
    BY SandboxAssumption DEF IInv, AnswerInv, AnswerOf
  <2>2. ~lease[j].sent
    BY <2>1 DEF IInv, AnswerInv, AnswerOf
  <2> QED BY <2>2 DEF IInv, RanInv
<1> QED BY <1>1, Invariance, PTL

\* handleV2Outcome releases a result only of a process proved gone, which had the
\* document.
THEOREM ReleasedWhenGone == Spec => []ResultAfterGone
<1>1. IInv => ResultAfterGone
  <2> SUFFICES ASSUME IInv, NEW j \in Jobs, told[j] = "CONFIRMED"
               PROVE  proc[lease[j].peer] = "GONE" /\ <<j, lease[j].peer>> \in ran
    BY DEF ResultAfterGone
  <2>1. chan[j] = "CONFIRMED"
    BY SandboxAssumption DEF IInv, AnswerInv, AnswerOf
  <2> QED BY <2>1 DEF IInv, AnswerInv, AnswerOf
<1> QED BY <1>1, Invariance, PTL

\* One parser process sees at most one document (worker.used).
THEOREM OneDocument == Spec => []OneShot
<1>1. IInv => OneShot
  <2> SUFFICES ASSUME IInv, NEW h \in Peers
               PROVE  Cardinality({j \in Jobs : <<j, h>> \in ran}) <= 1
    BY DEF OneShot
  <2> DEFINE S == {j \in Jobs : <<j, h>> \in ran}
  <2>1. ASSUME NEW j \in S, NEW k \in S PROVE j = k
    <3>1. lease[j].peer = h /\ lease[k].peer = h /\ h # None
      BY SandboxAssumption DEF IInv, RanInv
    <3> QED BY <3>1 DEF IInv, LeaseInv
  <2> HIDE DEF S
  <2>2. ASSUME S = {} PROVE Cardinality(S) <= 1
    BY <2>2, FS_EmptySet
  <2>3. ASSUME S # {} PROVE Cardinality(S) <= 1
    <3>1. PICK j : S = {j}
      BY <2>1, <2>3
    <3>2. Cardinality(S) = 1
      BY <3>1, FS_Singleton
    <3> QED BY <3>2
  <2>4. Cardinality(S) <= 1
    BY <2>2, <2>3
  <2> QED BY <2>4 DEF S
<1> QED BY <1>1, Invariance, PTL

\* status.json says REAPED only of a process that is gone, whatever failed.
THEOREM ReapedIsGone == Spec => []ReapedMeansGone
<1>1. IInv => ReapedMeansGone
  BY DEF IInv, StatusInv, Reaped, ReapedMeansGone
<1> QED BY <1>1, Invariance, PTL

\* A shutdown without RED leaves no accepted sandbox but one whose expiry is under way.
THEOREM NothingLeftBehind == Spec => []ShutdownDrains
<1>1. IInv => ShutdownDrains
  BY DEF IInv
<1> QED BY <1>1, Invariance, PTL

\* Nothing is written to a submitter once RED is latched (relayMu).
THEOREM LatchSilences == Spec => SilentAfterLatch
<1>1. IInv /\ [Next]_vars => [latched => told' = told]_vars
  <2> SUFFICES ASSUME IInv, Next, latched PROVE told' = told
    OBVIOUS
  <2> USE DEF host, disp, flag, stat, subm
  <2>1. \A j \in Jobs : sub[j] # "WRITE"
    BY SandboxAssumption DEF IInv, FlagInv
  <2>2. ASSUME NEW j \in Jobs, WriteFrames(j) PROVE FALSE
    BY <2>1, <2>2 DEF WriteFrames
  <2>3. ASSUME NEW j \in Jobs, \/ Submit(j) \/ SubmitRefused(j) \/ Offer(j) \/ TakeRelay(j)
                               \/ Deadline(j) \/ Abort(j)
        PROVE  told' = told
    BY <2>3 DEF Submit, SubmitRefused, Offer, TakeRelay, Deadline, Abort, BeginAbort, Tear,
                TearFails, EndAbort
  <2>4. ASSUME Host \/ WriteStatus \/ WriteStatusFails \/ LatchRed \/ Shutdown \/ ServeReturns
        PROVE  told' = told
    BY <2>4 DEF Host, Launch, Start, SeeReady, CleanupRun, ProcessExits, StopSupervisor,
                SupervisorFails, WriteStatus, WriteStatusFails, LatchRed, Shutdown, ServeReturns
  <2>5. ASSUME NEW h \in Peers,
               \/ AcceptHandoff(h) \/ RejectHandoff(h) \/ ExpireHandoff(h) \/ Fencing(h)
               \/ Register(h) \/ RegistrationRejected(h) \/ Install(h) \/ RegistrationAccepted(h)
               \/ RegistrationLost(h) \/ Drop(h)
        PROVE  told' = told
    BY <2>5 DEF AcceptHandoff, RejectHandoff, ExpireHandoff, Fencing, Fence, FenceFails, FenceAgain,
                Register, RegistrationRejected, Install, RegistrationAccepted, RegistrationLost, Drop
  <2>6. ASSUME NEW h \in Peers,
               \/ Claim(h) \/ TransferWritten(h) \/ TransferFails(h) \/ Result(h) \/ Outcome(h)
               \/ ConnectionEnds(h) \/ Confirm(h) \/ ConfirmFails(h) \/ Quarantine(h) \/ Publish(h)
        PROVE  told' = told
    BY <2>6 DEF Claim, TransferWritten, TransferFails, Result, Outcome, ConnectionEnds, Confirm,
                ConfirmFails, Quarantine, Publish
  <2> QED BY <2>2, <2>3, <2>4, <2>5, <2>6 DEF Next, Dispatcher, Frame, Handler, Submission
<1> QED BY <1>1, Invariance, PTL DEF Spec, SilentAfterLatch

=============================================================================
