---------------------------- MODULE SandboxDispatch ----------------------------
(***************************************************************************)
(* The one-shot parser sandbox: internal/sandboxdispatch (DispatcherV2),   *)
(* the host supervisor that gives it processes                             *)
(* (deploy/supervisor/native_ingest_supervisor.py) and the submitters of   *)
(* documents (internal/source/dispatchparser).                             *)
(*                                                                         *)
(* A peer is one parser process, launched by the supervisor, handed over   *)
(* by descriptor, registered, leased to at most one job and proved gone.   *)
(* The dispatcher runs one goroutine per connection and per timer; a step  *)
(* is one critical section of d.mu, or one call of the supervisor boundary *)
(* (Teardown, ConfirmGone) or one write between two sections.              *)
(***************************************************************************)
EXTENDS Naturals, FiniteSets

CONSTANTS
    Roles,     \* parser types
    Peers,     \* parser processes, one per handoff id
    Jobs,      \* submissions, one per lease id
    PeerRole,  \* [Peers -> Roles]
    JobRole,   \* [Jobs -> Roles]
    None,
    MaxFaults  \* bound: failed kills, proofs, status writes and handoff frames

ASSUME SandboxAssumption ==
    /\ PeerRole \in [Peers -> Roles] /\ JobRole \in [Jobs -> Roles]
    /\ None \notin Peers \cup Jobs \cup {"RETRY", "QUARANTINE", "CONFIRMED"}
    /\ MaxFaults \in Nat

VARIABLES
    \* the host
    proc,     \* [Peers -> state of the process and its cgroup]
    sup,      \* [Roles -> the supervisor's run of the role]
    supState, \* the supervisor runs, drains after a stop, or has ended
    \* DispatcherV2
    hand,     \* [Peers -> v2HandoffState, "SENT" before it is received]
    fd,       \* [Peers -> the dispatcher's pidfd and cgroup descriptor]
    worker,   \* [Roles -> the registered peer] (d.workers)
    wk,       \* [Peers -> v2Worker and the goroutine of its connection]
    lease,    \* [Jobs -> v2Lease]
    abort,    \* [Jobs -> the one abortV2 that set fencing]
    todo,     \* calls under way: abortV2, dropV2Worker, fenceV2Handoff (EXPIRED
              \* when the expiry timer makes it) and latchV2Red
    red,      \* d.red
    latched,  \* d.redCleanupStarted
    closed,   \* d.closed
    returned, \* ListenAndServe returned and the dispatcher process is gone
    status,   \* [Roles -> statusRoles]
    doc,      \* status.json
    \* submitters
    sub,      \* [Jobs -> goroutine of the submit connection]
    chan,     \* [Jobs -> lease.result]
    relay,    \* holder of relayMu
    told,     \* [Jobs -> what the submitter was told]
    \* history
    ran,      \* payloads that reached a parser
    faults

host == <<proc, sup, supState>>
disp == <<hand, fd, worker, wk, lease, abort, todo>>
flag == <<red, latched, closed, returned>>
stat == <<status, doc>>
subm == <<sub, chan, relay, told>>
vars == <<host, disp, flag, stat, subm, ran, faults>>

RoleStates == {"EMPTY", "HANDED_OFF", "READY", "BUSY", "REAPED", "RED"}
Answers    == {"RETRY", "QUARANTINE", "CONFIRMED"}
RoleStatus == [state : RoleStates, peer : Peers \cup {None}]
Documents  == [state : {"RUNNING", "RED", "STOPPING"}, roles : [Roles -> RoleStatus]]
Calls      == ({"ABORT"} \X Jobs) \cup ({"DROP", "FENCE", "EXPIRED"} \X Peers) \cup {<<"RED">>}

TypeOK ==
    /\ proc \in [Peers -> {"NONE", "CREATED", "RUNNING", "GONE"}]
    /\ sup \in [Roles -> [run  : Peers \cup {None},
                          step : {"IDLE", "SENT", "ACKED", "STARTED", "OWNED"}]]
    /\ supState \in {"RUN", "DRAIN", "END"}
    /\ hand \in [Peers -> {"NONE", "SENT", "ACKNOWLEDGED", "CONSUMED", "EXPIRED", "CLOSED"}]
    /\ fd \in [Peers -> {"NONE", "OPEN", "CLOSED"}]
    /\ worker \in [Roles -> Peers \cup {None}]
    /\ wk \in [Peers -> [step : {"NONE", "PROVING", "INSTALLED", "SERVING", "TRANSFER",
                                 "CONFIRM", "PROVEN", "QUARANTINE", "ENDED"},
                         ready : BOOLEAN, used : BOOLEAN, active : Jobs \cup {None}]]
    /\ lease \in [Jobs -> [state : {"NONE", "OFFERED", "TRANSFERRED", "RESOLVED"},
                           peer : Peers \cup {None}, sent : BOOLEAN, result : BOOLEAN]]
    /\ abort \in [Jobs -> [step : {"NONE", "TEAR", "END"},
                           sent : BOOLEAN, proven : BOOLEAN]]
    /\ todo \subseteq Calls
    /\ {red, latched, closed, returned} \subseteq BOOLEAN
    /\ status \in [Roles -> RoleStatus]
    /\ doc \in Documents
    /\ sub \in [Jobs -> {"NEW", "OFFER", "WAIT", "GATE", "WRITE", "DONE"}]
    /\ chan \in [Jobs -> Answers \cup {None}] /\ told \in [Jobs -> Answers \cup {None}]
    /\ relay \in Jobs \cup {None}
    /\ ran \subseteq Jobs \X Peers /\ faults \in 0 .. MaxFaults

NoWorker == [step |-> "NONE", ready |-> FALSE, used |-> FALSE, active |-> None]
NoLease  == [state |-> "NONE", peer |-> None, sent |-> FALSE, result |-> FALSE]
NoAbort  == [step |-> "NONE", sent |-> FALSE, proven |-> FALSE]
NoRun    == [run |-> None, step |-> "IDLE"]

Init ==
    /\ proc = [h \in Peers |-> "NONE"]
    /\ sup  = [r \in Roles |-> NoRun] /\ supState = "RUN"
    /\ hand = [h \in Peers |-> "NONE"] /\ fd = [h \in Peers |-> "NONE"]
    /\ worker = [r \in Roles |-> None] /\ wk = [h \in Peers |-> NoWorker]
    /\ lease = [j \in Jobs |-> NoLease] /\ abort = [j \in Jobs |-> NoAbort]
    /\ todo = {} /\ red = FALSE /\ latched = FALSE
    /\ closed = FALSE /\ returned = FALSE
    /\ status = [r \in Roles |-> [state |-> "EMPTY", peer |-> None]]
    /\ doc = [state |-> "RUNNING", roles |-> status]
    /\ sub = [j \in Jobs |-> "NEW"] /\ chan = [j \in Jobs |-> None]
    /\ told = [j \in Jobs |-> None] /\ relay = None
    /\ ran = {} /\ faults = 0

-----------------------------------------------------------------------------
(* The host supervisor: one thread that polls status.json.                 *)

Launching(r) == sup[r].step \in {"SENT", "ACKED", "STARTED"}

Says(r, h, states) == doc.roles[r].peer = h /\ doc.roles[r].state \in states

\* _launch_role up to the handoff: a process for a role that is free.
Launch(r, h) ==
    /\ supState = "RUN" /\ doc.state = "RUNNING"
    /\ sup[r].run = None /\ \A q \in Roles : ~Launching(q)
    /\ doc.roles[r].state \in {"EMPTY", "REAPED"}
    /\ PeerRole[h] = r /\ proc[h] = "NONE"
    /\ proc' = [proc EXCEPT ![h] = "CREATED"]
    /\ hand' = [hand EXCEPT ![h] = "SENT"]
    /\ sup'  = [sup EXCEPT ![r] = [run |-> h, step |-> "SENT"]]
    /\ UNCHANGED <<supState, fd, worker, wk, lease, abort, todo, flag, stat, subm,
                   ran, faults>>

\* release_exec_after_handoff: the parser runs only after the acknowledgement
\* and a status that shows its own handoff.
Start(r) ==
    /\ supState = "RUN" /\ sup[r].step = "ACKED"
    /\ doc.state = "RUNNING" /\ Says(r, sup[r].run, {"HANDED_OFF"})
    /\ proc' = [proc EXCEPT ![sup[r].run] = IF @ = "CREATED" THEN "RUNNING" ELSE @]
    /\ sup'  = [sup EXCEPT ![r].step = "STARTED"]
    /\ UNCHANGED <<supState, disp, flag, stat, subm, ran, faults>>

\* _wait_status_role for "ready": BUSY and REAPED show that it was.
SeeReady(r) ==
    /\ supState = "RUN" /\ sup[r].step = "STARTED"
    /\ doc.state = "RUNNING" /\ Says(r, sup[r].run, {"READY", "BUSY", "REAPED"})
    /\ sup' = [sup EXCEPT ![r].step = "OWNED"]
    /\ UNCHANGED <<proc, supState, disp, flag, stat, subm, ran, faults>>

\* _cleanup_reaped_run, by _advance_run or by _drain_after_stop.
CleanupRun(r) ==
    /\ \/ supState = "RUN" /\ sup[r].step = "OWNED" /\ \A q \in Roles : ~Launching(q)
       \/ supState = "DRAIN" /\ sup[r].run # None
    /\ doc.state # "RED" /\ Says(r, sup[r].run, {"REAPED"})
    /\ proc[sup[r].run] = "GONE"
    /\ sup' = [sup EXCEPT ![r] = NoRun]
    /\ UNCHANGED <<proc, supState, disp, flag, stat, subm, ran, faults>>

\* request_stop, by a signal or by a dispatcher that is stopping.
StopSupervisor ==
    /\ supState = "RUN"
    /\ supState' = "DRAIN"
    /\ UNCHANGED <<proc, sup, disp, flag, stat, subm, ran, faults>>

\* A RED dispatcher, or one of the bounded waits, ends the supervisor.
SupervisorFails ==
    /\ supState # "END"
    /\ \/ doc.state = "RED" \/ supState = "DRAIN"
       \/ \E r \in Roles : Launching(r) \/ (sup[r].run # None /\ proc[sup[r].run] = "GONE")
    /\ supState' = "END"
    /\ UNCHANGED <<proc, sup, disp, flag, stat, subm, ran, faults>>

\* A parser process ends by itself.
ProcessExits(h) ==
    /\ proc[h] = "RUNNING"
    /\ proc' = [proc EXCEPT ![h] = "GONE"]
    /\ UNCHANGED <<sup, supState, disp, flag, stat, subm, ran, faults>>

-----------------------------------------------------------------------------
(* Status roles and the file that publishes them (v2_status.go).           *)

\* setV2RoleStatusLocked: the legal successors of a role's state.
RoleAfter(h, state) ==
    LET r == PeerRole[h]
        from == CASE state = "READY"  -> {"HANDED_OFF"}
                  [] state = "BUSY"   -> {"READY"}
                  [] state = "REAPED" -> {"HANDED_OFF", "READY", "BUSY"}
    IN  IF status[r].peer = h /\ status[r].state \in from /\ ~red
        THEN [status EXCEPT ![r].state = state] ELSE status

\* Fault: a role takes the dispatcher's state, which the schema of a role lacks.
AllStopping == [r \in Roles |-> [status[r] EXCEPT !.state = "STOPPING"]]

AllRed == [r \in Roles |-> [status[r] EXCEPT !.state = "RED"]]

\* publishV2Status and the heartbeat: the document is taken and replaces the
\* file some time after the section that changed a role; a document that a
\* newer one overtakes is not written.
WriteStatus ==
    LET now == [state |-> IF red THEN "RED" ELSE IF closed THEN "STOPPING" ELSE "RUNNING",
                roles |-> IF red THEN AllRed ELSE status]
    IN  /\ now # doc /\ ~returned
        /\ doc' = now
        /\ UNCHANGED <<host, disp, flag, status, subm, ran, faults>>

\* writeV2StatusDocument fails: RED at once, its cleanup afterwards.
WriteStatusFails ==
    /\ faults < MaxFaults /\ ~returned
    /\ red' = TRUE /\ status' = AllRed
    /\ todo' = todo \cup {<<"RED">>}
    /\ faults' = faults + 1
    /\ UNCHANGED <<host, hand, fd, worker, wk, lease, abort, latched, closed,
                   returned, doc, subm, ran>>


-----------------------------------------------------------------------------
(* Supervisor handoffs (handleV2Handoff, fenceV2Handoff).                  *)

\* The acknowledgement is written under d.mu: no registration sees the
\* handoff before the supervisor has it.
AcceptHandoff(h) ==
    LET r == PeerRole[h]
    IN  /\ hand[h] = "SENT" /\ ~closed /\ ~red
        /\ status[r].state \in {"EMPTY", "REAPED"}
        /\ hand' = [hand EXCEPT ![h] = "ACKNOWLEDGED"]
        /\ fd' = [fd EXCEPT ![h] = "OPEN"]
        /\ status' = [status EXCEPT ![r] = [state |-> "HANDED_OFF", peer |-> h]]
        /\ sup' = [sup EXCEPT ![r].step = "ACKED"]
        /\ UNCHANGED <<proc, supState, worker, wk, lease, abort, todo, flag, doc,
                       subm, ran, faults>>

\* Admission refuses the handoff, or the acknowledgement cannot be written:
\* the dispatcher kills what it was handed. A peer that is not the supervisor
\* is hung up on. A frame that cannot be read, or a peer that does not match
\* it, latches RED and leaves the process alone; one whose cgroup cannot be
\* opened does both. Without the acknowledgement the supervisor gives up.
RejectHandoff(h) ==
    /\ hand[h] = "SENT" /\ ~returned
    /\ hand' = [hand EXCEPT ![h] = "CLOSED"]
    /\ \E killed \in BOOLEAN, latch \in BOOLEAN :
          /\ fd' = IF killed THEN [fd EXCEPT ![h] = "OPEN"] ELSE fd
          /\ todo' = todo \cup (IF killed THEN {<<"FENCE", h>>} ELSE {})
                          \cup (IF latch THEN {<<"RED">>} ELSE {})
          /\ IF latch THEN faults < MaxFaults /\ faults' = faults + 1 ELSE faults' = faults
    /\ supState' = "END"
    /\ UNCHANGED <<proc, sup, worker, wk, lease, abort, flag, stat, subm, ran>>

\* expireV2Handoff, on a timer of its own.
ExpireHandoff(h) ==
    /\ hand[h] = "ACKNOWLEDGED"
    /\ hand' = [hand EXCEPT ![h] = "EXPIRED"]
    /\ todo' = todo \cup {<<"EXPIRED", h>>}
    /\ UNCHANGED <<host, fd, worker, wk, lease, abort, flag, stat, subm, ran, faults>>

FenceCalled(call, h) == <<call, h>> \in todo /\ ~returned

\* Fault: a role is reaped once its peer was signalled, gone or not.
FenceUnproven(call, h) ==
    /\ FenceCalled(call, h) /\ fd[h] = "OPEN"
    /\ fd' = [fd EXCEPT ![h] = "CLOSED"]
    /\ status' = RoleAfter(h, "REAPED")
    /\ todo' = todo \ {<<call, h>>}
    /\ UNCHANGED <<host, hand, worker, wk, lease, abort, flag, doc, subm, ran, faults>>

\* fenceV2Handoff, and the end of dropV2Worker for a peer without a lease:
\* kill, prove, close the descriptors, and only then report REAPED.
Fence(call, h) ==
    /\ FenceCalled(call, h) /\ fd[h] = "OPEN"
    /\ proc' = [proc EXCEPT ![h] = "GONE"]
    /\ fd' = [fd EXCEPT ![h] = "CLOSED"]
    /\ status' = RoleAfter(h, "REAPED")
    /\ todo' = todo \ {<<call, h>>}
    /\ UNCHANGED <<sup, supState, hand, worker, wk, lease, abort, flag, doc,
                   subm, ran, faults>>

\* The kill or the proof fails: RED instead of REAPED.
FenceFails(call, h) ==
    /\ FenceCalled(call, h) /\ fd[h] = "OPEN" /\ faults < MaxFaults
    /\ \E p \in {proc[h], "GONE"} : proc' = [proc EXCEPT ![h] = p]
    /\ fd' = [fd EXCEPT ![h] = "CLOSED"]
    /\ todo' = (todo \ {<<call, h>>}) \cup {<<"RED">>}
    /\ faults' = faults + 1
    /\ UNCHANGED <<sup, supState, hand, worker, wk, lease, abort, flag, stat, subm, ran>>

\* The descriptor was closed by an abort of the same peer.
FenceAgain(call, h) ==
    /\ FenceCalled(call, h) /\ fd[h] = "CLOSED"
    /\ todo' = todo \ {<<call, h>>}
    /\ UNCHANGED <<host, hand, fd, worker, wk, lease, abort, flag, stat, subm, ran, faults>>

-----------------------------------------------------------------------------
(* Registration (handleV2Registration) and the end of a worker.            *)

\* takeV2Handoff: one registration consumes one acknowledged handoff.
Register(h) ==
    /\ proc[h] = "RUNNING" /\ hand[h] = "ACKNOWLEDGED"
    /\ hand' = [hand EXCEPT ![h] = "CONSUMED"]
    /\ wk' = [wk EXCEPT ![h].step = "PROVING"]
    /\ UNCHANGED <<host, fd, worker, lease, abort, todo, flag, stat, subm, ran, faults>>

\* The peer could not be proved, or installV2ProvedWorker refuses it.
RegistrationRejected(h) ==
    /\ wk[h].step = "PROVING"
    /\ wk' = [wk EXCEPT ![h].step = "ENDED"]
    /\ todo' = todo \cup {<<"FENCE", h>>}
    /\ UNCHANGED <<host, hand, fd, worker, lease, abort, flag, stat, subm, ran, faults>>

Install(h) ==
    /\ wk[h].step = "PROVING" /\ ~closed /\ ~red /\ worker[PeerRole[h]] = None
    /\ worker' = [worker EXCEPT ![PeerRole[h]] = h]
    /\ wk' = [wk EXCEPT ![h].step = "INSTALLED"]
    /\ UNCHANGED <<host, hand, fd, lease, abort, todo, flag, stat, subm, ran, faults>>

\* The acknowledgement reached the worker: it may have a lease.
RegistrationAccepted(h) ==
    /\ wk[h].step = "INSTALLED" /\ worker[PeerRole[h]] = h
    /\ status' = RoleAfter(h, "READY")
    /\ wk' = [wk EXCEPT ![h].ready = TRUE,
                        ![h].step = IF status' = status THEN "ENDED" ELSE "SERVING"]
    /\ todo' = IF status' = status THEN todo \cup {<<"RED">>} ELSE todo
    /\ UNCHANGED <<host, hand, fd, worker, lease, abort, flag, doc, subm, ran, faults>>

\* The worker was dropped meanwhile or its connection fails.
RegistrationLost(h) ==
    /\ wk[h].step = "INSTALLED"
    /\ wk' = [wk EXCEPT ![h].step = "ENDED"]
    /\ todo' = todo \cup {<<"DROP", h>>}
    /\ UNCHANGED <<host, hand, fd, worker, lease, abort, flag, stat, subm, ran, faults>>

\* dropV2Worker: out of the table, then the lease or the bare peer is fenced.
Drop(h) ==
    LET r == PeerRole[h]
        next == IF wk[h].active # None THEN {<<"ABORT", wk[h].active>>}
                ELSE IF fd[h] = "OPEN" THEN {<<"FENCE", h>>} ELSE {}
    IN  /\ <<"DROP", h>> \in todo
        /\ worker' = [worker EXCEPT ![r] = IF @ = h THEN None ELSE @]
        /\ wk' = [wk EXCEPT ![h].active = None, ![h].ready = FALSE]
        /\ todo' = (todo \ {<<"DROP", h>>}) \cup next
        /\ UNCHANGED <<host, hand, fd, lease, abort, flag, stat, subm, ran, faults>>

-----------------------------------------------------------------------------
(* Submissions (handleV2Submitter) and the lease.                          *)

Eligible(h) == h # None /\ wk[h].ready /\ ~wk[h].used /\ wk[h].active = None

\* Admission refuses silently, or answers RETRY when the role has no free peer.
SubmitRefused(j) ==
    /\ sub[j] = "NEW" /\ ~returned
    /\ \/ (closed \/ red) /\ sub' = [sub EXCEPT ![j] = "DONE"] /\ chan' = chan
       \/ /\ ~closed /\ ~red /\ ~Eligible(worker[JobRole[j]])
          /\ sub' = [sub EXCEPT ![j] = "GATE"] /\ chan' = [chan EXCEPT ![j] = "RETRY"]
    /\ UNCHANGED <<host, disp, flag, stat, relay, told, ran, faults>>

Submit(j) ==
    LET h == worker[JobRole[j]]
    IN  /\ sub[j] = "NEW" /\ ~closed /\ ~red /\ Eligible(h)
        /\ lease' = [lease EXCEPT ![j].state = "OFFERED", ![j].peer = h]
        /\ wk' = [wk EXCEPT ![h].used = TRUE, ![h].active = j]
        /\ status' = RoleAfter(h, "BUSY")
        /\ todo' = IF status' = status THEN todo \cup {<<"RED">>} ELSE todo
        /\ sub' = [sub EXCEPT ![j] = IF status' = status THEN "DONE" ELSE "OFFER"]
        /\ UNCHANGED <<host, hand, fd, worker, abort, flag, doc, chan, relay, told,
                       ran, faults>>

\* writeV2Offer; without it the lease is aborted and the submitter hears nothing.
Offer(j) ==
    /\ sub[j] = "OFFER"
    /\ \/ sub' = [sub EXCEPT ![j] = "WAIT"] /\ todo' = todo
       \/ sub' = [sub EXCEPT ![j] = "DONE"] /\ todo' = todo \cup {<<"ABORT", j>>}
    /\ UNCHANGED <<host, hand, fd, worker, wk, lease, abort, flag, stat, chan, relay, told,
                   ran, faults>>

\* Fault: the result is not sent to the handler that waits for it.
ResolveSilent(j, answer, proven, w) ==
    LET h == lease[j].peer
    IN  /\ lease' = [lease EXCEPT ![j].state = "RESOLVED"]
        /\ wk' = [w EXCEPT ![h].active = IF @ = j THEN None ELSE @]
        /\ fd' = [fd EXCEPT ![h] = "CLOSED"]
        /\ status' = IF proven THEN RoleAfter(h, "REAPED") ELSE status
        /\ chan' = chan

\* resolveV2Locked, with the worker records of the caller in w.
Resolve(j, answer, proven, w) ==
    LET h == lease[j].peer
    IN  /\ lease' = [lease EXCEPT ![j].state = "RESOLVED"]
        /\ wk' = [w EXCEPT ![h].active = IF @ = j THEN None ELSE @]
        /\ fd' = [fd EXCEPT ![h] = "CLOSED"]
        /\ status' = IF proven THEN RoleAfter(h, "REAPED") ELSE status
        /\ chan' = [chan EXCEPT ![j] = answer]

Unresolved(j) == lease[j].state \in {"OFFERED", "TRANSFERRED"}

\* expireV2: the lease's own timer; during an abort it would return at once.
Deadline(j) ==
    /\ Unresolved(j) /\ abort[j].step = "NONE"
    /\ todo' = todo \cup {<<"ABORT", j>>}
    /\ UNCHANGED <<host, hand, fd, worker, wk, lease, abort, flag, stat, subm, ran, faults>>

\* abortV2 up to the kill: the first caller fences, the others return.
BeginAbort(j) ==
    /\ <<"ABORT", j>> \in todo
    /\ todo' = todo \ {<<"ABORT", j>>}
    /\ abort' = IF Unresolved(j) /\ abort[j].step = "NONE"
                THEN [abort EXCEPT ![j] = [step |-> "TEAR", sent |-> lease[j].sent,
                                           proven |-> FALSE]]
                ELSE abort
    /\ UNCHANGED <<host, hand, fd, worker, wk, lease, flag, stat, subm, ran, faults>>

\* teardownAndConfirmV2Final with the kill and the proof both good.
Tear(j) ==
    /\ abort[j].step = "TEAR" /\ fd[lease[j].peer] = "OPEN"
    /\ proc' = [proc EXCEPT ![lease[j].peer] = "GONE"]
    /\ abort' = [abort EXCEPT ![j].step = "END", ![j].proven = TRUE]
    /\ UNCHANGED <<sup, supState, hand, fd, worker, wk, lease, todo, flag, stat, subm,
                   ran, faults>>

\* A fault of the host, or the descriptor of the peer was closed under the call.
TearFails(j) ==
    LET h == lease[j].peer
    IN  /\ abort[j].step = "TEAR"
        /\ \/ fd[h] = "CLOSED" /\ proc' = proc /\ faults' = faults
           \/ /\ faults < MaxFaults /\ faults' = faults + 1
              /\ \E p \in {proc[h], "GONE"} : proc' = [proc EXCEPT ![h] = p]
        /\ abort' = [abort EXCEPT ![j].step = "END"]
        /\ todo' = todo \cup {<<"RED">>}
        /\ UNCHANGED <<sup, supState, hand, fd, worker, wk, lease, flag, stat, subm, ran>>

\* Fault: the classification uses the flag read before the kill.
AbortAnswerStale(j) == IF abort[j].sent THEN "QUARANTINE" ELSE "RETRY"

AbortAnswer(j) == IF abort[j].sent \/ lease[j].sent THEN "QUARANTINE" ELSE "RETRY"

\* The end of abortV2; markV2Red has returned when the peer is not proven gone.
EndAbort(j) ==
    /\ abort[j].step = "END" /\ (abort[j].proven \/ latched)
    /\ abort' = [abort EXCEPT ![j] = NoAbort]
    /\ IF Unresolved(j)
       THEN Resolve(j, AbortAnswer(j), abort[j].proven, wk)
       ELSE UNCHANGED <<lease, wk, fd, status, chan>>
    /\ UNCHANGED <<host, hand, worker, todo, flag, doc, sub, relay, told, ran, faults>>

-----------------------------------------------------------------------------
(* Frames of a worker (serveV2Worker). The worker is not trusted: any      *)
(* frame may come, and each handler decides.                               *)

\* The one lease of a one-shot peer.
LeaseOf(h) == CHOOSE j \in Jobs : lease[j].peer = h

EndWorker(h) == [wk EXCEPT ![h].step = "ENDED"]

\* handleV2Claim marks the transfer before it writes the payload.
Claim(h) ==
    LET j == wk[h].active
    IN  /\ wk[h].step = "SERVING" /\ j # None /\ lease[j].state = "OFFERED" /\ sub[j] = "WAIT"
        /\ lease' = [lease EXCEPT ![j].state = "TRANSFERRED", ![j].sent = TRUE]
        /\ wk' = [wk EXCEPT ![h].step = "TRANSFER"]
        /\ UNCHANGED <<host, hand, fd, worker, abort, todo, flag, stat, subm, ran, faults>>

TransferWritten(h) ==
    /\ wk[h].step = "TRANSFER" /\ proc[h] = "RUNNING"
    /\ ran' = ran \cup {<<LeaseOf(h), h>>}
    /\ wk' = [wk EXCEPT ![h].step = "SERVING"]
    /\ UNCHANGED <<host, hand, fd, worker, lease, abort, todo, flag, stat, subm, faults>>

TransferFails(h) ==
    /\ wk[h].step = "TRANSFER"
    /\ wk' = EndWorker(h)
    /\ todo' = todo \cup {<<"ABORT", LeaseOf(h)>>, <<"DROP", h>>}
    /\ UNCHANGED <<host, hand, fd, worker, lease, abort, flag, stat, subm, ran, faults>>

Result(h) ==
    LET j == wk[h].active
    IN  /\ wk[h].step = "SERVING" /\ j # None /\ lease[j].sent /\ ~lease[j].result
        /\ lease' = [lease EXCEPT ![j].result = TRUE]
        /\ UNCHANGED <<host, hand, fd, worker, wk, abort, todo, flag, stat, subm, ran, faults>>

\* Fault: an outcome is taken from a peer that sent no result.
OutcomeUnmatched(h) ==
    /\ wk[h].step = "SERVING" /\ wk[h].active # None
    /\ wk' = [wk EXCEPT ![h].step = "CONFIRM"]
    /\ UNCHANGED <<host, hand, fd, worker, lease, abort, todo, flag, stat, subm, ran, faults>>

\* handleV2Outcome for an outcome that matches the lease and the result.
Outcome(h) ==
    LET j == wk[h].active
    IN  /\ wk[h].step = "SERVING" /\ j # None /\ lease[j].result
        /\ wk' = [wk EXCEPT ![h].step = "CONFIRM"]
        /\ UNCHANGED <<host, hand, fd, worker, lease, abort, todo, flag, stat, subm, ran, faults>>

\* End of file, or a frame its handler refuses: dropV2Worker aborts the lease.
ConnectionEnds(h) ==
    /\ wk[h].step = "SERVING"
    /\ wk' = EndWorker(h)
    /\ todo' = todo \cup {<<"DROP", h>>}
    /\ UNCHANGED <<host, hand, fd, worker, lease, abort, flag, stat, subm, ran, faults>>

\* ensureV2Gone: the process has exited and its cgroup is empty.
Confirm(h) ==
    /\ wk[h].step = "CONFIRM" /\ fd[h] = "OPEN" /\ proc[h] = "GONE"
    /\ wk' = [wk EXCEPT ![h].step = "PROVEN"]
    /\ UNCHANGED <<host, hand, fd, worker, lease, abort, todo, flag, stat, subm, ran, faults>>

\* No exit in time, or limits that drifted; or the descriptors were closed by
\* an abort of the same lease.
ConfirmFails(h) ==
    /\ wk[h].step \in {"CONFIRM", "PROVEN"}
    /\ \/ fd[h] = "CLOSED" /\ faults' = faults
       \/ fd[h] = "OPEN" /\ faults < MaxFaults /\ faults' = faults + 1
    /\ wk' = [wk EXCEPT ![h].step = "QUARANTINE"]
    /\ todo' = todo \cup {<<"RED">>}
    /\ UNCHANGED <<host, hand, fd, worker, lease, abort, flag, stat, subm, ran>>

\* After the latch: a last kill, then finishV2Quarantine.
Quarantine(h) ==
    LET j == LeaseOf(h)
    IN  /\ wk[h].step = "QUARANTINE" /\ latched
        /\ \E p \in IF fd[h] = "OPEN" THEN {proc[h], "GONE"} ELSE {proc[h]} :
               proc' = [proc EXCEPT ![h] = p]
        /\ IF Unresolved(j) THEN Resolve(j, "QUARANTINE", FALSE, EndWorker(h))
           ELSE wk' = EndWorker(h) /\ UNCHANGED <<lease, fd, status, chan>>
        /\ todo' = todo \cup {<<"DROP", h>>}
        /\ UNCHANGED <<sup, supState, hand, worker, abort, flag, doc, sub, relay, told,
                       ran, faults>>

\* The last section of handleV2Outcome: the result is released, or it came
\* after RED, a shutdown or an abort of the lease and is discarded.
Publish(h) ==
    LET j == LeaseOf(h)
    IN  /\ wk[h].step = "PROVEN"
        /\ IF ~red /\ ~closed /\ Unresolved(j) THEN Resolve(j, "CONFIRMED", TRUE, EndWorker(h))
           ELSE wk' = EndWorker(h) /\ UNCHANGED <<lease, fd, status, chan>>
        /\ todo' = todo \cup {<<"DROP", h>>}
        /\ UNCHANGED <<host, hand, worker, abort, flag, doc, sub, relay, told, ran, faults>>

-----------------------------------------------------------------------------
(* The relay to the submitter (writeV2SubmitResult).                       *)

\* Fault: the relay is not gated by the latch.
TakeRelayUngated(j) ==
    /\ sub[j] = "GATE" \/ (sub[j] = "WAIT" /\ chan[j] # None)
    /\ relay = None /\ relay' = j
    /\ sub' = [sub EXCEPT ![j] = "WRITE"]
    /\ UNCHANGED <<host, disp, flag, stat, chan, told, ran, faults>>

\* Fault: the early return of a closed gate keeps relayMu.
TakeRelayHeld(j) ==
    /\ sub[j] = "GATE" \/ (sub[j] = "WAIT" /\ chan[j] # None)
    /\ relay = None /\ relay' = j
    /\ sub' = [sub EXCEPT ![j] = IF red \/ closed THEN "DONE" ELSE "WRITE"]
    /\ UNCHANGED <<host, disp, flag, stat, chan, told, ran, faults>>

\* relayMu, then the gate under d.mu: nothing is written when it is closed.
TakeRelay(j) ==
    /\ sub[j] = "GATE" \/ (sub[j] = "WAIT" /\ chan[j] # None)
    /\ relay = None
    /\ IF red \/ closed THEN sub' = [sub EXCEPT ![j] = "DONE"] /\ relay' = relay
       ELSE sub' = [sub EXCEPT ![j] = "WRITE"] /\ relay' = j
    /\ UNCHANGED <<host, disp, flag, stat, chan, told, ran, faults>>

\* The frames are written without d.mu, and may fail.
WriteFrames(j) ==
    /\ sub[j] = "WRITE"
    /\ told' \in {told, [told EXCEPT ![j] = chan[j]]}
    /\ sub' = [sub EXCEPT ![j] = "DONE"] /\ relay' = None
    /\ UNCHANGED <<host, disp, flag, stat, chan, ran, faults>>

-----------------------------------------------------------------------------
(* RED and shutdown.                                                       *)

Pending == {h \in Peers : hand[h] = "ACKNOWLEDGED"}

ClosePending == [h \in Peers |-> IF h \in Pending THEN "CLOSED" ELSE hand[h]]

\* Fault: a shutdown ends the leases and forgets the peers not yet registered.
FenceAllLeases == {<<"ABORT", j>> : j \in {k \in Jobs : Unresolved(k)}}

FenceAll == {<<"ABORT", j>> : j \in {k \in Jobs : Unresolved(k)}} \cup {<<"FENCE", h>> : h \in Pending}

\* latchV2Red: behind relayMu, once; every lease, worker and handoff is fenced.
LatchRed ==
    LET workers == {worker[r] : r \in Roles} \ {None}
    IN  /\ <<"RED">> \in todo /\ relay = None
        /\ latched' = TRUE /\ red' = TRUE
        /\ IF latched THEN hand' = hand /\ status' = status /\ todo' = todo \ {<<"RED">>}
           ELSE /\ hand' = ClosePending /\ status' = AllRed
                /\ todo' = (todo \ {<<"RED">>}) \cup FenceAll \cup {<<"DROP", h>> : h \in workers}
        /\ UNCHANGED <<host, fd, worker, wk, lease, abort, closed, returned, doc,
                       subm, ran, faults>>

\* shutdownV2, on a signal or when the latch has closed the listeners.
Shutdown ==
    /\ ~closed
    /\ closed' = TRUE /\ hand' = ClosePending /\ todo' = todo \cup FenceAll
    /\ UNCHANGED <<host, fd, worker, wk, lease, abort, red, latched, returned, stat, subm,
                   ran, faults>>

\* connWG.Wait: every connection's handler has returned, with the calls it made.
\* The timers' goroutines are not waited for.
ServeReturns ==
    /\ closed /\ ~returned
    /\ todo \subseteq {"EXPIRED"} \X Peers
    /\ \A j \in Jobs : abort[j].step = "NONE" /\ sub[j] \in {"NEW", "DONE"}
    /\ \A h \in Peers : wk[h].step \in {"NONE", "ENDED"}
    /\ returned' = TRUE
    /\ UNCHANGED <<host, disp, red, latched, closed, stat, subm, ran, faults>>

-----------------------------------------------------------------------------
Host ==
    \/ \E r \in Roles : Start(r) \/ SeeReady(r) \/ CleanupRun(r) \/ \E h \in Peers : Launch(r, h)
    \/ StopSupervisor \/ SupervisorFails
    \/ \E h \in Peers : ProcessExits(h)

\* Steps a goroutine or a timer of the dispatcher takes when it is scheduled.
Handler(h) ==
    \/ RegistrationRejected(h) \/ Install(h) \/ RegistrationAccepted(h) \/ RegistrationLost(h)
    \/ TransferWritten(h) \/ TransferFails(h)
    \/ Confirm(h) \/ ConfirmFails(h) \/ Quarantine(h) \/ Publish(h)

Submission(j) ==
    Submit(j) \/ SubmitRefused(j) \/ Offer(j) \/ TakeRelay(j) \/ WriteFrames(j)

Abort(j) == BeginAbort(j) \/ Tear(j) \/ TearFails(j) \/ EndAbort(j)

Fencing(h) ==
    \E call \in {"FENCE", "EXPIRED"} : Fence(call, h) \/ FenceFails(call, h) \/ FenceAgain(call, h)

Frame(h) == Register(h) \/ Claim(h) \/ Result(h) \/ Outcome(h) \/ ConnectionEnds(h)

Dispatcher ==
    \/ WriteStatus \/ WriteStatusFails
    \/ \E h \in Peers : \/ AcceptHandoff(h) \/ RejectHandoff(h) \/ ExpireHandoff(h)
                        \/ Fencing(h) \/ Drop(h) \/ Frame(h) \/ Handler(h)
    \/ \E j \in Jobs : Submission(j) \/ Deadline(j) \/ Abort(j)
    \/ LatchRed \/ Shutdown \/ ServeReturns

Next == Host \/ Dispatcher

Spec == Init /\ [][Next]_vars

-----------------------------------------------------------------------------
(* Safety.                                                                 *)

\* A submitter told to retry may send the document again: no parser has it.
\* abortV2 re-reads transferSent after the kill, since a claim can slip in.
RetryUntransferred ==
    \A j \in Jobs : told[j] = "RETRY" => \A h \in Peers : <<j, h>> \notin ran

\* A result is released only when the process that made it is gone, and it had
\* the document (handleV2Outcome holds it until ensureV2Gone).
ResultAfterGone ==
    \A j \in Jobs : told[j] = "CONFIRMED" =>
        proc[lease[j].peer] = "GONE" /\ <<j, lease[j].peer>> \in ran

\* One parser process never sees two documents (worker.used).
OneShot == \A h \in Peers : Cardinality({j \in Jobs : <<j, h>> \in ran}) <= 1

\* The status file says REAPED, which lets the supervisor delete the container
\* and start the next peer of the role, only of a process that is gone.
ReapedMeansGone ==
    \A r \in Roles : doc.roles[r].state = "REAPED" => proc[doc.roles[r].peer] = "GONE"

\* Once the latch is taken nothing is published to a submitter: the relay in
\* flight was waited for (relayMu) and the later ones see RED.
SilentAfterLatch == [][latched => told' = told]_vars

\* A shutdown that ends without RED leaves no accepted sandbox behind, except
\* one whose expiry had begun: connWG does not wait for that timer's fence.
ShutdownDrains ==
    returned /\ ~red =>
        \A h \in Peers : fd[h] # "NONE" => proc[h] = "GONE" \/ <<"EXPIRED", h>> \in todo

-----------------------------------------------------------------------------
(* Liveness. The dispatcher's goroutines and timers are scheduled, and a   *)
(* connection ends when the other side is gone or the dispatcher closes    *)
(* it. Nothing is assumed of the supervisor, the workers or a worker's     *)
(* frames, and nothing of a stop that nobody asks for.                     *)

ConnectionCloses(h) == (closed \/ latched \/ proc[h] = "GONE") /\ ConnectionEnds(h)

\* What runs by itself for a peer and for a job. An idle worker waits.
PeerRuns(h) == Handler(h) \/ ConnectionCloses(h) \/ Drop(h) \/ Fencing(h)
JobRuns(j)  == Submission(j) \/ Deadline(j) \/ Abort(j)

LiveSpec ==
    /\ Spec
    /\ \A h \in Peers : WF_vars(PeerRuns(h))
    /\ \A j \in Jobs : WF_vars(JobRuns(j))
    /\ WF_vars(LatchRed) /\ WF_vars(ServeReturns)

\* Every admitted submission ends, whatever the worker does: no handler waits
\* on lease.result for ever.
Answered == \A j \in Jobs : sub[j] \notin {"NEW", "DONE"} ~> sub[j] = "DONE"

\* A shutdown ends: connWG.Wait is not held by a handler that waits on another.
ShutdownReturns == closed ~> returned

=============================================================================
