------------------------------ MODULE QuestionRun ------------------------------
(***************************************************************************)
(* A question, from Create to the run it leaves, and the purge of its      *)
(* conversation: internal/question/service.go, internal/purge, and the     *)
(* functions and policies of migrations 000024, 000053, 000054, 000055 and *)
(* 000080 they meet in.                                                    *)
(*                                                                         *)
(* A request r mints the run r; a request that continues no conversation   *)
(* begins the conversation r. Database transactions are READ COMMITTED: a  *)
(* transaction that decides in one statement and commits later is two      *)
(* steps (start, completion, cleanup); the others are one, since what they *)
(* check and what they write cannot change in between or commutes.         *)
(*                                                                         *)
(* A text is the subject "Q", the bare period "AT" that only makes sense   *)
(* after a subject, or the two spliced, "Q_AT".                            *)
(***************************************************************************)
EXTENDS Naturals, FiniteSets, FiniteSetsExt

CONSTANTS
    Requests,
    Keys,        \* idempotency keys
    Fragments,   \* evidence fragments
    Purgers,
    MaxAttempts, \* of a purge request
    MaxFaults,   \* bound: crashes, lost replies, failed writes, lapsed leases
    Old,         \* requests answered before, each the first of a conversation
    Asks,        \* bound: <<request, key, text, conversation>> that clients send
    None

ASSUME QuestionAssumption ==
    /\ MaxAttempts \in Nat \ {0} /\ MaxFaults \in Nat /\ None \notin Requests
    /\ Old \subseteq Requests
    /\ Asks \subseteq (Requests \ Old) \X Keys \X {"Q", "AT"} \X (Requests \cup {None})

VARIABLES
    h,        \* [Requests -> the handler of a request]
    run,      \* [Requests -> question_run, its retention, citations and artifacts]
    idem,     \* [Keys -> question_idempotency]
    conv,     \* [Requests -> conversation_retention]
    readable, \* the evidence fragments the asker may read
    member,   \* the asker is a member of the workspace
    audit,    \* [Requests -> how often each outcome was recorded]
    req,      \* [Requests -> conversation_purge_request of the conversation]
    pg,       \* [Purgers -> what a purger is doing]
    faults

vars == <<h, run, idem, conv, readable, member, audit, req, pg, faults>>
store == <<run, idem, conv, audit>>
purging == <<req, pg>>

Texts     == {"Q", "AT", "Q_AT"}
Artifacts == {"QUESTION", "CANDIDATES", "ANSWER"}
Answered  == {"COMPLETED", "INSUFFICIENT_EVIDENCE"}
Retention == {"NONE", "ACTIVE", "PURGING", "PURGED"}
Steps == {"IDLE", "MEMORY", "LOOKUP", "START", "STARTING", "RELOOKUP", "RETRIEVE",
          "SNAPSHOT", "COMPLETE", "COMPLETING", "FAILING", "GET", "DONE"}
PurgeSteps == {"IDLE", "CLAIMED", "BEGIN", "CLEAN", "ERASED", "COMPLETE", "FAIL"}

TypeOK ==
    /\ h \in [Requests -> [step : Steps, key : Keys \cup {None}, text : Texts,
                           asked : Texts, conv : Requests \cup {None},
                           turn : Nat, found : SUBSET Fragments,
                           out : {"NONE", "RUN", "CONFLICT", "ERROR"},
                           got : Requests \cup {None}, lost : BOOLEAN]]
    /\ run \in [Requests -> [status : {"NONE", "RUNNING", "FAILED"} \cup Answered,
                             kept : Retention, turn : Nat,
                             cites : SUBSET Fragments, live : SUBSET Artifacts]]
    /\ idem \in [Keys -> [run : Requests \cup {None}, text : Texts,
                          conv : Requests \cup {None}]]
    /\ conv \in [Requests -> [state : Retention, writers : SUBSET Requests]]
    /\ readable \subseteq Fragments
    /\ member \in BOOLEAN
    /\ audit \in [Requests -> [completed : 0 .. 2, failed : 0 .. 2]]
    /\ req \in [Requests -> [status : {"NONE", "PENDING", "RUNNING", "SUCCEEDED", "DEAD"},
                             attempts : 0 .. MaxAttempts, lapsed : BOOLEAN]]
    /\ pg \in [Purgers -> [step : PurgeSteps, conv : Requests \cup {None},
                           attempt : 0 .. MaxAttempts, runs : SUBSET Requests,
                           erased : SUBSET (Requests \X Artifacts)]]
    /\ faults \in 0 .. MaxFaults

IdleHandler == [step |-> "IDLE", key |-> None, text |-> "Q", asked |-> "Q", conv |-> None,
                turn |-> 0, found |-> {}, out |-> "NONE", got |-> None, lost |-> FALSE]
IdlePurger == [step |-> "IDLE", conv |-> None, attempt |-> 0, runs |-> {},
               erased |-> {}]

Init ==
    /\ h = [r \in Requests |-> IF r \in Old
              THEN [IdleHandler EXCEPT !.step = "DONE", !.out = "RUN", !.got = r]
              ELSE IdleHandler]
    /\ run = [r \in Requests |-> IF r \in Old
                THEN [status |-> "COMPLETED", kept |-> "ACTIVE", turn |-> 1,
                      cites |-> Fragments, live |-> Artifacts]
                ELSE [status |-> "NONE", kept |-> "NONE", turn |-> 0, cites |-> {}, live |-> {}]]
    /\ idem = [k \in Keys |-> [run |-> None, text |-> "Q", conv |-> None]]
    /\ conv = [c \in Requests |-> [state |-> IF c \in Old THEN "ACTIVE" ELSE "NONE",
                                    writers |-> {}]]
    /\ readable = Fragments
    /\ member = TRUE
    /\ audit = [r \in Requests |-> [completed |-> IF r \in Old THEN 1 ELSE 0, failed |-> 0]]
    /\ req = [c \in Requests |-> [status |-> "NONE", attempts |-> 0, lapsed |-> FALSE]]
    /\ pg = [q \in Purgers |-> IdlePurger]
    /\ faults = 0

-----------------------------------------------------------------------------
(* What a run belongs to, and who may read it.                             *)

ConvOf(r) == IF h[r].conv = None THEN r ELSE h[r].conv
Runs(c)   == {r \in Requests : run[r].status # "NONE" /\ ConvOf(r) = c}

\* question_run_readable.
RunReadable(r) ==
    /\ member
    /\ run[r].kept = "ACTIVE"
    /\ conv[ConvOf(r)].state = "ACTIVE"
    /\ run[r].cites \subseteq readable

\* The artifacts a stored row points at; reading an erased one ends the read.
Bound(r) ==
    IF run[r].status \in Answered THEN {"QUESTION", "ANSWER"} ELSE {"QUESTION"}

ReadStoredRun(r) == RunReadable(r) /\ Bound(r) \subseteq run[r].live

-----------------------------------------------------------------------------
(* Create.                                                                 *)

At(r, s)   == h[r].step = s
Goto(r, s) == h' = [h EXCEPT ![r].step = s]
End(r, o)  == h' = [h EXCEPT ![r].step = "DONE", ![r].out = o, ![r].turn = 0, ![r].found = {}]
Lost(r)    == h' = [h EXCEPT ![r].step = "DONE", ![r].out = "ERROR", ![r].lost = TRUE,
                             ![r].turn = 0, ![r].found = {}]
Failing(r) == h' = [h EXCEPT ![r].step = "FAILING", ![r].found = {}]
Fault      == faults < MaxFaults /\ faults' = faults + 1

\* Ids are minted and the admission is recorded before anything is read. A
\* bare period in a conversation is a follow-up.
Submit(r, k, t, c) ==
    /\ At(r, "IDLE") /\ <<r, k, t, c>> \in Asks
    /\ c # None => conv[c].state # "NONE"
    /\ h' = [h EXCEPT ![r].key = k, ![r].text = t, ![r].asked = t, ![r].conv = c,
                      ![r].step = IF t = "AT" /\ c # None THEN "MEMORY" ELSE "LOOKUP"]
    /\ UNCHANGED <<store, readable, member, purging, faults>>

LastTurn(c) == {r \in Runs(c) : \A x \in Runs(c) : run[x].turn <= run[r].turn}

\* previousTurnQuestionText and SpliceFollowUpPeriod, which declines a base
\* that has a period of its own. An error leaves the text as it is.
Memory(r) ==
    /\ At(r, "MEMORY")
    /\ \/ /\ \E b \in LastTurn(h[r].conv) :
                h' = [h EXCEPT ![r].step = "LOOKUP",
                               ![r].asked = IF /\ RunReadable(b) /\ "QUESTION" \in run[b].live
                                               /\ h[b].asked = "Q"
                                            THEN "Q_AT" ELSE @]
          /\ faults' = faults
       \/ Fault /\ Goto(r, "LOOKUP")
    /\ UNCHANGED <<store, readable, member, purging>>

\* Fault: the hash is taken over the minted conversation.
SameHashMinted(r) == idem[h[r].key].text = h[r].asked /\ idem[h[r].key].conv = ConvOf(r)

\* requestHash.
SameHash(r) == idem[h[r].key].text = h[r].asked /\ idem[h[r].key].conv = h[r].conv

\* lookupIdempotency, before the start and after a unique violation of it.
Lookup(r) ==
    LET e == idem[h[r].key] IN
    /\ h[r].step \in {"LOOKUP", "RELOOKUP"}
    /\ \/ e.run = None /\ IF At(r, "LOOKUP") THEN Goto(r, "START") ELSE End(r, "ERROR")
       \/ e.run # None /\ ~SameHash(r) /\ End(r, "CONFLICT")
       \/ e.run # None /\ SameHash(r)
          /\ h' = [h EXCEPT ![r].step = "GET", ![r].got = e.run]
    /\ UNCHANGED <<store, readable, member, purging, faults>>

\* Fault: the conversation is not locked while the turn is numbered.
LockedNever(c) == FALSE

\* SELECT ... FOR UPDATE of the conversation, until the start commits.
Locked(c) == c # None /\ \E x \in Requests : At(x, "STARTING") /\ h[x].conv = c

NextTurn(c) == IF c = None THEN 1 ELSE Max({0} \cup {run[x].turn : x \in Runs(c)}) + 1

\* The head of start: the asker's role and, to continue, a conversation whose
\* retention is ACTIVE; its row is not locked.
StartOpen(r) ==
    /\ At(r, "START")
    /\ LET allowed == member /\ (h[r].conv # None => conv[h[r].conv].state = "ACTIVE") IN
       \/ /\ allowed /\ ~Locked(h[r].conv)
          /\ h' = [h EXCEPT ![r].step = "STARTING", ![r].turn = NextTurn(h[r].conv)]
       \/ ~allowed /\ End(r, "ERROR")
    /\ UNCHANGED <<store, readable, member, purging, faults>>

\* Fault: nothing makes the key unique.
TakenTurn(r) == \E x \in Runs(ConvOf(r)) : run[x].turn = h[r].turn

\* The unique constraints a start can meet: its key, its turn.
Taken(r) ==
    \/ idem[h[r].key].run # None
    \/ \E x \in Runs(ConvOf(r)) : run[x].turn = h[r].turn

\* The rest of start. The reply of the commit may be lost: Create returns the
\* error and leaves the run to nobody.
StartCommit(r) ==
    /\ At(r, "STARTING") /\ ~Taken(r)
    /\ run' = [run EXCEPT ![r] = [status |-> "RUNNING", kept |-> "ACTIVE", turn |-> h[r].turn,
                                  cites |-> {}, live |-> {"QUESTION"}]]
    /\ conv' = IF h[r].conv = None THEN [conv EXCEPT ![r].state = "ACTIVE"] ELSE conv
    /\ idem' = [idem EXCEPT ![h[r].key] = [run |-> r, text |-> h[r].asked, conv |-> h[r].conv]]
    /\ \/ h' = [h EXCEPT ![r].step = "RETRIEVE", ![r].turn = 0] /\ faults' = faults
       \/ Fault /\ Lost(r)
    /\ UNCHANGED <<audit, readable, member, purging>>

\* A unique violation (23505), the policy on the turn that reads the retention
\* again, or a database error.
StartAbort(r) ==
    /\ At(r, "STARTING")
    /\ \/ Taken(r) /\ Goto(r, "RELOOKUP") /\ faults' = faults
       \/ /\ h[r].conv # None /\ conv[h[r].conv].state # "ACTIVE"
          /\ End(r, "ERROR") /\ faults' = faults
       \/ Fault /\ End(r, "ERROR")
    /\ UNCHANGED <<store, readable, member, purging>>

-----------------------------------------------------------------------------
(* execute, and the end of a run.                                          *)

\* Planning and retrieval. A question the planner refuses is completed with
\* nothing; a structured refusal skips the candidate snapshot.
Retrieve(r) ==
    /\ At(r, "RETRIEVE")
    /\ \/ member /\ \E F \in SUBSET readable :
             h' = [h EXCEPT ![r].step = "SNAPSHOT", ![r].found = F]
       \/ member /\ Goto(r, "COMPLETE")
       \/ Failing(r)
    /\ UNCHANGED <<store, readable, member, purging, faults>>

\* Fault: an error of the snapshot returns without the cleanup of Create.
SnapshotFailedSilent(r) == End(r, "ERROR")

SnapshotFailed(r) == Failing(r)

\* persistRetrievalSnapshot: the run is RUNNING and every candidate is still
\* readable. Nothing asks about retention.
Snapshot(r) ==
    /\ At(r, "SNAPSHOT")
    /\ \/ /\ member /\ h[r].found \subseteq readable
          /\ run' = [run EXCEPT ![r].live = @ \cup {"CANDIDATES"}]
          /\ \/ Goto(r, "COMPLETE") /\ faults' = faults
             \/ Fault /\ SnapshotFailed(r)
       \/ /\ ~(member /\ h[r].found \subseteq readable)
          /\ SnapshotFailed(r)
          /\ UNCHANGED <<run, faults>>
    /\ UNCHANGED <<idem, conv, audit, readable, member, purging>>

\* The completing transaction reads the gate first; a citation of a fragment
\* that is gone by then will be refused.
CompleteOpen(r) ==
    /\ At(r, "COMPLETE")
    /\ \/ RunReadable(r) /\ \E F \in SUBSET (h[r].found \cap readable) :
             h' = [h EXCEPT ![r].step = "COMPLETING", ![r].found = F]
       \/ ~(RunReadable(r) /\ h[r].found \subseteq readable) /\ Failing(r)
    /\ UNCHANGED <<store, readable, member, purging, faults>>

\* ... then it inserts the citations, each guarded at its insert, binds the
\* answer, sets the status WHERE RUNNING and records the outcome. The update is
\* subject to membership, and its row count is not read.
CompleteCommit(r) ==
    /\ At(r, "COMPLETING")
    /\ \E updated \in {TRUE, member} :
          run' = [run EXCEPT ![r].cites = h[r].found, ![r].live = @ \cup {"ANSWER"},
                             ![r].status = IF ~updated THEN @
                                           ELSE IF h[r].found # {} THEN "COMPLETED"
                                           ELSE "INSUFFICIENT_EVIDENCE"]
    /\ audit' = [audit EXCEPT ![r].completed = @ + 1]
    /\ \/ h' = [h EXCEPT ![r].step = "GET", ![r].got = r, ![r].found = {}] /\ faults' = faults
       \/ Fault /\ Failing(r)
    /\ UNCHANGED <<idem, conv, readable, member, purging>>

\* A fragment or the membership was lost before the insert, or the write failed.
CompleteAbort(r) ==
    /\ At(r, "COMPLETING")
    /\ \/ ~(member /\ h[r].found \subseteq readable) /\ faults' = faults
       \/ Fault
    /\ Failing(r)
    /\ UNCHANGED <<store, readable, member, purging>>

\* Fault: the outcome is recorded although the update met no row.
MayFailAlways(r) == member

\* The rows the update of fail meets.
MayFail(r) == member /\ run[r].status = "RUNNING"

\* reportFailureCleanup and fail, on a context the caller cannot cancel.
Fail(r) ==
    /\ At(r, "FAILING")
    /\ \/ /\ MayFail(r)
          /\ run' = [run EXCEPT ![r].status = IF @ = "RUNNING" THEN "FAILED" ELSE @]
          /\ audit' = [audit EXCEPT ![r].failed = @ + 1]
          /\ End(r, "ERROR") /\ faults' = faults
       \/ ~MayFail(r) /\ End(r, "ERROR") /\ UNCHANGED <<run, audit, faults>>
       \/ Fault /\ Lost(r) /\ UNCHANGED <<run, audit>>
    /\ UNCHANGED <<idem, conv, readable, member, purging>>

\* Get of the run just made, or of the one the key names.
Get(r) ==
    /\ At(r, "GET")
    /\ End(r, IF ReadStoredRun(h[r].got) THEN "RUN" ELSE "ERROR")
    /\ UNCHANGED <<store, readable, member, purging, faults>>

\* A read outside of execute fails: Create returns the error.
ReadError(r) ==
    /\ h[r].step \in {"LOOKUP", "RELOOKUP", "START", "GET"} /\ Fault
    /\ End(r, "ERROR")
    /\ UNCHANGED <<store, readable, member, purging>>

\* The process dies; what it had not committed is rolled back.
Crash(r) ==
    /\ h[r].step \notin {"IDLE", "DONE"} /\ Fault
    /\ Lost(r)
    /\ UNCHANGED <<store, readable, member, purging>>

-----------------------------------------------------------------------------
(* The world: sources and members change.                                  *)

Revoke(f) ==
    /\ f \in readable /\ readable' = readable \ {f}
    /\ UNCHANGED <<h, store, member, purging, faults>>

\* Removing a member updates the workspace row, which an open start shares.
RemoveMember ==
    /\ member /\ member' = FALSE
    /\ \A r \in Requests : ~At(r, "STARTING")
    /\ UNCHANGED <<h, store, readable, purging, faults>>

-----------------------------------------------------------------------------
(* The purge of a conversation.                                            *)

\* conversation_purge_request_enqueue, by the application. Bound: one request,
\* for a conversation of Old.
EnqueuePurge(c) ==
    /\ c \in Old /\ req[c].status = "NONE" /\ conv[c].state = "ACTIVE" /\ member
    /\ req' = [req EXCEPT ![c].status = "PENDING"]
    /\ UNCHANGED <<h, store, readable, member, pg, faults>>

PurgerAt(q, s) == pg[q].step = s
PurgerTo(q, s) == pg' = [pg EXCEPT ![q].step = s]
Exit(q)        == pg' = [pg EXCEPT ![q] = IdlePurger]

\* Claim, and the heartbeat right after it.
Claim(q, c) ==
    /\ PurgerAt(q, "IDLE") /\ req[c].status = "PENDING"
    /\ req' = [req EXCEPT ![c].status = "RUNNING", ![c].attempts = @ + 1, ![c].lapsed = FALSE]
    /\ pg' = [pg EXCEPT ![q] = [IdlePurger EXCEPT !.step = "CLAIMED", !.conv = c,
                                                  !.attempt = req[c].attempts + 1]]
    /\ UNCHANGED <<h, store, readable, member, faults>>

AtWork(c) == \E q \in Purgers : pg[q].conv = c /\ pg[q].attempt = req[c].attempts

\* The deadline passes: surely when the holder is gone, else it is a fault.
Lapse(c) ==
    /\ req[c].status = "RUNNING" /\ ~req[c].lapsed
    /\ IF AtWork(c) THEN Fault ELSE faults' = faults
    /\ req' = [req EXCEPT ![c].lapsed = TRUE]
    /\ UNCHANGED <<h, store, readable, member, pg>>

\* Fault: the budget is compared one too late.
AfterLossOneMore(c) ==
    req' = [req EXCEPT ![c].status = IF req[c].attempts <= MaxAttempts THEN "PENDING" ELSE "DEAD"]

\* A lost attempt: back to the queue within the budget.
AfterLoss(c) ==
    req' = [req EXCEPT ![c].status = IF req[c].attempts < MaxAttempts THEN "PENDING" ELSE "DEAD"]

Expired(c) == req[c].status = "RUNNING" /\ req[c].lapsed

\* RunOnce begins with a reclaim.
Reclaim(q, c) ==
    /\ PurgerAt(q, "IDLE") /\ Expired(c)
    /\ AfterLoss(c)
    /\ UNCHANGED <<h, store, readable, member, pg, faults>>

\* conversationRetentionState.
ReadState(q) ==
    LET s == conv[pg[q].conv].state IN
    /\ PurgerAt(q, "CLAIMED")
    /\ PurgerTo(q, IF s = "ACTIVE" THEN "BEGIN" ELSE IF s = "PURGING" THEN "CLEAN" ELSE "COMPLETE")
    /\ UNCHANGED <<h, store, readable, member, req, faults>>

\* The retention row a cleanup has locked.
RetentionLocked(c) == \E q \in Purgers : PurgerAt(q, "ERASED") /\ pg[q].conv = c

\* conversation_begin_purge, with its audit event: from ACTIVE only.
Begin(q) ==
    LET c == pg[q].conv IN
    /\ PurgerAt(q, "BEGIN") /\ ~RetentionLocked(c)
    /\ IF conv[c].state = "ACTIVE"
       THEN /\ conv' = [conv EXCEPT ![c].state = "PURGING"]
            /\ run' = [r \in Requests |->
                         IF r \in Runs(c) /\ run[r].kept = "ACTIVE"
                         THEN [run[r] EXCEPT !.kept = "PURGING"] ELSE run[r]]
            /\ \/ PurgerTo(q, "CLEAN") /\ faults' = faults
               \/ Fault /\ PurgerTo(q, "FAIL")
       ELSE PurgerTo(q, "FAIL") /\ UNCHANGED <<run, conv, faults>>
    /\ UNCHANGED <<h, idem, audit, readable, member, req>>

\* Fault: the candidate sets are forgotten.
OwnedWithoutCandidates(c) == {x \in Runs(c) \X Artifacts : x[2] \in run[x[1]].live \ {"CANDIDATES"}}

\* The artifacts of a conversation: of its runs, their citations and candidate sets.
Owned(c) == {x \in Runs(c) \X Artifacts : x[2] \in run[x[1]].live}

\* CompleteConversationPurge: the row is locked, a PURGED one ends it ...
CleanupOpen(q) ==
    LET c == pg[q].conv IN
    /\ PurgerAt(q, "CLEAN") /\ ~RetentionLocked(c)
    /\ IF conv[c].state = "PURGED"
       THEN PurgerTo(q, "COMPLETE")
       ELSE pg' = [pg EXCEPT ![q].step = "ERASED", ![q].erased = Owned(c), ![q].runs = Runs(c)]
    /\ UNCHANGED <<h, store, readable, member, req, faults>>

\* A request that writes without asking about retention again: an open start, a
\* run on its way to its candidate snapshot, a completion past its gate.
Writing(r) == h[r].step \in {"STARTING", "RETRIEVE", "SNAPSHOT", "COMPLETING"}

\* The code keeps no such set; conv remembers who they were when the
\* conversation became PURGED.
Writers(c) == {r \in Requests : ConvOf(r) = c /\ Writing(r)}

\* ... the artifacts seen are erased and the run retentions closed, and what
\* is decryptable in a fresh snapshot ends the attempt.
CleanupCommit(q) ==
    LET c == pg[q].conv IN
    /\ PurgerAt(q, "ERASED")
    /\ IF Owned(c) \subseteq pg[q].erased
       THEN /\ run' = [r \in Requests |->
                         IF r \in pg[q].runs
                         THEN [run[r] EXCEPT !.kept = "PURGED",
                                             !.live = {a \in @ : <<r, a>> \notin pg[q].erased}]
                         ELSE run[r]]
            /\ conv' = [conv EXCEPT ![c].state = "PURGED", ![c].writers = Writers(c)]
            /\ \/ PurgerTo(q, "COMPLETE") /\ faults' = faults
               \/ Fault /\ PurgerTo(q, "FAIL")
       ELSE PurgerTo(q, "FAIL") /\ UNCHANGED <<run, conv, faults>>
    /\ UNCHANGED <<h, idem, audit, readable, member, req>>

Holds(q) ==
    LET c == pg[q].conv IN
    req[c].status = "RUNNING" /\ req[c].attempts = pg[q].attempt /\ ~req[c].lapsed

\* queue.Complete and queue.Fail, both fenced; an error ends the process, and
\* the supervisor starts it again.
CompleteRequest(q) ==
    /\ PurgerAt(q, "COMPLETE")
    /\ IF Holds(q) /\ conv[pg[q].conv].state = "PURGED"
       THEN req' = [req EXCEPT ![pg[q].conv].status = "SUCCEEDED"]
       ELSE req' = req
    /\ Exit(q)
    /\ UNCHANGED <<h, store, readable, member, faults>>

FailRequest(q) ==
    /\ PurgerAt(q, "FAIL")
    /\ IF Holds(q) THEN AfterLoss(pg[q].conv) ELSE req' = req
    /\ Exit(q)
    /\ UNCHANGED <<h, store, readable, member, faults>>

\* A transaction of the purge fails and is rolled back.
PurgeError(q) ==
    /\ pg[q].step \in {"CLAIMED", "BEGIN", "CLEAN", "ERASED"} /\ Fault
    /\ PurgerTo(q, "FAIL")
    /\ UNCHANGED <<h, store, readable, member, req>>

CrashPurger(q) ==
    /\ ~PurgerAt(q, "IDLE") /\ Fault
    /\ Exit(q)
    /\ UNCHANGED <<h, store, readable, member, req>>

-----------------------------------------------------------------------------
HandlerStep(r) ==
    \/ Memory(r) \/ Lookup(r)
    \/ StartOpen(r) \/ StartCommit(r) \/ StartAbort(r)
    \/ Retrieve(r) \/ Snapshot(r)
    \/ CompleteOpen(r) \/ CompleteCommit(r) \/ CompleteAbort(r)
    \/ Fail(r) \/ Get(r) \/ ReadError(r)

PurgerStep(q) ==
    \/ \E c \in Requests : Claim(q, c) \/ Reclaim(q, c)
    \/ ReadState(q) \/ Begin(q) \/ CleanupOpen(q) \/ CleanupCommit(q)
    \/ CompleteRequest(q) \/ FailRequest(q) \/ PurgeError(q)

Next ==
    \/ \E r \in Requests, k \in Keys, t \in Texts, c \in Requests \cup {None} :
          Submit(r, k, t, c)
    \/ \E r \in Requests : HandlerStep(r) \/ Crash(r) \/ EnqueuePurge(r) \/ Lapse(r)
    \/ \E f \in Fragments : Revoke(f)
    \/ RemoveMember
    \/ \E q \in Purgers : PurgerStep(q) \/ CrashPurger(q)

Spec == Init /\ [][Next]_vars

-----------------------------------------------------------------------------
(* Properties.                                                             *)

\* One key, one run, whatever requests race under it (DATA_MODEL.md, section
\* 6): a run exists only under its own key, and whoever is given a run for a
\* key is given that run.
ReplaySame ==
    \A r \in Requests :
       r \notin Old =>
       /\ run[r].status # "NONE" => idem[h[r].key].run = r
       /\ h[r].out = "RUN" => h[r].got = idem[h[r].key].run

\* A unique violation is read as a race for the key (Create): then the key is
\* there. The lock on the conversation keeps turn numbers from colliding.
CollisionIsReplay ==
    \A r \in Requests : At(r, "RELOOKUP") => idem[h[r].key].run # None

\* The same request sent again is refused as a conflict only when it is a bare
\* follow-up, whose text depends on the turn before it.
RepeatConflictsOnlyFollowUp ==
    \A r \in Requests : h[r].out = "CONFLICT" =>
       LET w == idem[h[r].key].run IN
       h[r].text # h[w].text \/ h[r].conv # h[w].conv \/ h[r].text = "AT"

\* The journal tells what became of a run: the outcome is recorded once, with
\* the status and not without it, also when the reply of a commit is lost and
\* fail runs after it. Only the removal of the asker during the completing
\* transaction leaves a completion recorded of a run that is RUNNING.
AuditMatches ==
    \A r \in Requests :
       /\ audit[r].completed + audit[r].failed <= 1
       /\ audit[r].failed = 1 <=> run[r].status = "FAILED"
       /\ run[r].status \in Answered => audit[r].completed = 1
       /\ audit[r].completed = 1 /\ member => run[r].status \in Answered

\* A run that nobody works on any more is RUNNING only if its process died, a
\* reply or the cleanup itself was lost, or its asker was removed: every error
\* of execute ends in fail.
StrandedOnlyByLoss ==
    \A r \in Requests :
       run[r].status = "RUNNING" /\ At(r, "DONE") => h[r].lost \/ ~member

\* What can be decrypted in a PURGED conversation was written by a request
\* that was past the last question about retention when the cleanup committed.
\* A run that had ended is erased to its last artifact, a run that still has
\* the gate of its completion before it adds nothing but its candidates, and no
\* later request adds to a PURGED conversation.
LeftByWriters ==
    \A r \in Requests :
       conv[ConvOf(r)].state = "PURGED" /\ run[r].live # {} => r \in conv[ConvOf(r)].writers

-----------------------------------------------------------------------------
(* What the repository says, and the code does not do.                     *)

\* "Only after verifying the physical absence of content does the state become
\* PURGED" (DATA_MODEL.md, section 6; 000054): nothing of a PURGED
\* conversation can be decrypted.
PurgedErased ==
    \A r \in Requests : conv[ConvOf(r)].state = "PURGED" => run[r].live = {}
=============================================================================
