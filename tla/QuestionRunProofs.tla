--------------------------- MODULE QuestionRunProofs ---------------------------
(***************************************************************************)
(* Proofs about QuestionRun for any sets of requests, keys, fragments and  *)
(* purgers, every budget and every number of faults.                       *)
(*                                                                         *)
(* The safety properties are proved together.  ReplaySame needs that a key *)
(* names a run that was started under it; CollisionIsReplay that an open   *)
(* start numbers its turn past every turn there is, which rests on the row *)
(* lock; LeftByWriters that a conversation is never open again and that    *)
(* whoever still writes into it was past the gates when the purge ended.   *)
(***************************************************************************)
EXTENDS QuestionRun, TLAPS

\* Nothing is stored yet, and the run is being executed.
Before == {"IDLE", "MEMORY", "LOOKUP", "START", "STARTING", "RELOOKUP"}
During == {"RETRIEVE", "SNAPSHOT", "COMPLETE", "COMPLETING"}

\* Where a handler is, and what there is of its run.
RequestInv ==
    \A r \in Requests :
        /\ r \in Old => At(r, "DONE") /\ h[r].out # "CONFLICT"
        /\ At(r, "IDLE") => h[r].conv = None
        /\ At(r, "MEMORY") => h[r].text = "AT"
        /\ ~At(r, "IDLE") /\ r \notin Old => h[r].key \in Keys
        /\ h[r].step \in Before => run[r].status = "NONE"
        /\ h[r].step \in During => run[r].status = "RUNNING"
        /\ ~At(r, "DONE") => h[r].out = "NONE"
        /\ h[r].text # "AT" => h[r].asked = h[r].text

\* A key names a run that was started under it and for the same request.
KeyInv ==
    /\ \A k \in Keys : idem[k].run # None =>
          LET w == idem[k].run IN
          /\ w \notin Old /\ run[w].status # "NONE" /\ h[w].key = k
          /\ h[w].asked = idem[k].text /\ h[w].conv = idem[k].conv
    /\ \A r \in Requests :
          /\ At(r, "GET") => h[r].got # None /\ h[r].got = idem[h[r].key].run
          /\ h[r].out = "CONFLICT" => idem[h[r].key].run # None
          /\ h[r].out = "RUN" /\ r \notin Old => idem[h[r].key].run # None

\* What is recorded of a run that is being worked on.
OutcomeInv ==
    \A r \in Requests :
        /\ run[r].status = "NONE" => audit[r].completed = 0 /\ run[r].live = {}
        /\ h[r].step \in During => audit[r].completed = 0
        /\ At(r, "GET") /\ run[r].status = "RUNNING" => ~member

\* A conversation exists when its first run does, and is not continued before.
ConvInv ==
    \A r \in Requests :
        /\ conv[r].state # "NONE" => run[r].status # "NONE" /\ h[r].conv = None
        /\ h[r].conv # None => conv[h[r].conv].state # "NONE"

\* Turns of a conversation: there is a last one, an open start is past it, and
\* one start at a time is open.
TurnInv ==
    /\ \A c \in Requests : Runs(c) # {} => LastTurn(c) # {}
    /\ \A r \in Requests : At(r, "STARTING") =>
          \A x \in Runs(ConvOf(r)) : run[x].turn < h[r].turn
    /\ \A r, x \in Requests :
          At(r, "STARTING") /\ At(x, "STARTING") /\ r # x /\ h[r].conv # None
          => h[r].conv # h[x].conv

\* A purge request that waits has attempts left; a new one has made none.
Waits(row) ==
    /\ row.status = "PENDING" => row.attempts < MaxAttempts
    /\ row.status = "NONE" => row.attempts = 0

\* The purge requests and their purgers.
PurgeInv ==
    /\ \A c \in Requests : Waits(req[c])
    /\ \A q \in Purgers :
          LET c == pg[q].conv IN
          /\ ~PurgerAt(q, "IDLE") => c \in Requests
          /\ PurgerAt(q, "CLEAN") => conv[c].state \in {"PURGING", "PURGED"}
          /\ PurgerAt(q, "ERASED") =>
                /\ conv[c].state = "PURGING"
                /\ pg[q].runs \subseteq Runs(c)
                /\ pg[q].erased \subseteq pg[q].runs \X Artifacts
    /\ \A q, p \in Purgers :
          PurgerAt(q, "ERASED") /\ PurgerAt(p, "ERASED") /\ q # p => pg[q].conv # pg[p].conv
    /\ \A r \in Requests :
          conv[ConvOf(r)].state = "PURGED" /\ Writing(r) => r \in conv[ConvOf(r)].writers

\* The inductive invariant.
IInv ==
    /\ TypeOK
    /\ RequestInv /\ KeyInv /\ OutcomeInv /\ ConvInv /\ TurnInv /\ PurgeInv
    /\ ReplaySame /\ CollisionIsReplay /\ RepeatConflictsOnlyFollowUp
    /\ AuditMatches /\ StrandedOnlyByLoss /\ LeftByWriters
-----------------------------------------------------------------------------
(* Handler steps other than Submit and StartCommit.                        *)

Handler == [step : Steps, key : Keys \cup {None}, text : Texts,
            asked : Texts, conv : Requests \cup {None},
            turn : Nat, found : SUBSET Fragments,
            out : {"NONE", "RUN", "CONFLICT", "ERROR"},
            got : Requests \cup {None}, lost : BOOLEAN]

LEMMA HandlerTyped ==
    IInv => h \in [Requests -> Handler]
  BY DEF IInv, TypeOK, Handler

RunRow == [status : {"NONE", "RUNNING", "FAILED"} \cup Answered, kept : Retention,
           turn : Nat, cites : SUBSET Fragments, live : SUBSET Artifacts]

LEMMA RunTyped ==
    IInv => run \in [Requests -> RunRow]
  BY DEF IInv, TypeOK, RunRow

LEMMA RunType ==
    ASSUME TypeOK, h' \in [Requests -> Handler], run' \in [Requests -> RunRow],
           audit' \in [Requests -> [completed : 0 .. 2, failed : 0 .. 2]],
           faults' \in 0 .. MaxFaults, UNCHANGED <<idem, conv, readable, member, purging>>
    PROVE  TypeOK'
  BY DEF TypeOK, Handler, RunRow, purging

LEMMA HandlerType ==
    ASSUME TypeOK, h' \in [Requests -> Handler], faults' \in 0 .. MaxFaults,
           UNCHANGED <<store, readable, member, purging>>
    PROVE  TypeOK'
  BY DEF TypeOK, Handler, store, purging

\* What such a step of r may do: it touches the handler, the run and the
\* outcome of r alone, keeps what identifies the request, and leaves r where
\* its run, its key and the others allow.
Moves(r) ==
    /\ \A x \in Requests \ {r} : h'[x] = h[x] /\ run'[x] = run[x] /\ audit'[x] = audit[x]
    /\ h'[r].key = h[r].key /\ h'[r].text = h[r].text /\ h'[r].conv = h[r].conv
    /\ h'[r].asked # h[r].asked => h[r].step \in Before /\ h[r].text = "AT"
    /\ run'[r].turn = run[r].turn
    /\ run'[r].status = "NONE" <=> run[r].status = "NONE"
    /\ run'[r].live # run[r].live => h[r].step \in During /\ Writing(r)
    /\ audit'[r] # audit[r] => run[r].status # "NONE"
    /\ ~At(r, "IDLE") /\ r \notin Old /\ h'[r].step # "IDLE" /\ h'[r].step # "MEMORY"

\* Where r is afterwards.
Arrives(r) ==
    /\ h'[r].step \in Before => run'[r].status = "NONE"
    /\ h'[r].step \in During => run'[r].status = "RUNNING" /\ audit'[r].completed = 0
    /\ h'[r].step # "DONE" => h'[r].out = "NONE"
    /\ h'[r].step = "GET" =>
          /\ h'[r].got # None /\ h'[r].got = idem[h[r].key].run
          /\ run'[r].status = "RUNNING" => ~member
    /\ h'[r].step = "RELOOKUP" => idem[h[r].key].run # None
    /\ h'[r].out = "CONFLICT" => idem[h[r].key].run # None /\ ~SameHash(r)
    /\ h'[r].out = "RUN" => h'[r].got = idem[h[r].key].run /\ idem[h[r].key].run # None
    /\ h'[r].step = "DONE" /\ run'[r].status = "RUNNING" => h'[r].lost \/ ~member
    /\ h'[r].step = "STARTING" =>
          /\ conv[ConvOf(r)].state \notin {"PURGING", "PURGED"}
          /\ ~Locked(h[r].conv)
          /\ \A x \in Runs(ConvOf(r)) : run[x].turn < h'[r].turn
    /\ h'[r].step \in During => h[r].step \in During
    /\ Writing(r)' => Writing(r) \/ conv[ConvOf(r)].state # "PURGED"

\* A run is in the conversation it was in.
LEMMA RunsSame ==
    ASSUME NEW r \in Requests, Moves(r)
    PROVE  /\ \A x \in Requests : ConvOf(x)' = ConvOf(x)
           /\ \A c \in Requests : Runs(c)' = Runs(c) /\ LastTurn(c)' = LastTurn(c)
           /\ \A x \in Requests : run'[x].turn = run[x].turn
<1>1. \A x \in Requests : ConvOf(x)' = ConvOf(x)
  BY DEF Moves, ConvOf
<1>2. \A c \in Requests : Runs(c)' = Runs(c)
  BY <1>1 DEF Moves, Runs
<1>3. \A x \in Requests : run'[x].turn = run[x].turn
  BY DEF Moves
<1>4. \A c \in Requests : LastTurn(c)' = LastTurn(c)
  <2> TAKE c \in Requests
  <2>1. Runs(c) \subseteq Requests
    BY DEF Runs
  <2> QED BY <2>1, <1>2, <1>3 DEF LastTurn
<1> QED BY <1>1, <1>2, <1>3, <1>4

LEMMA MovesInd ==
    ASSUME IInv, TypeOK', NEW r \in Requests, Moves(r), Arrives(r), AuditMatches',
           UNCHANGED <<idem, conv, member, req, pg>>
    PROVE  IInv'
<1>1. RequestInv'
  BY DEF IInv, RequestInv, Moves, Arrives, At
<1>2. KeyInv'
  <2>1. \A k \in Keys : idem[k].run \in Requests \cup {None}
    BY DEF IInv, TypeOK
  <2> QED BY <1>1, <2>1 DEF IInv, RequestInv, KeyInv, Moves, Arrives, At
<1>3. OutcomeInv'
  BY DEF IInv, RequestInv, OutcomeInv, Moves, Arrives, At, Before, During
<1>4. ConvInv'
  BY DEF IInv, ConvInv, Moves
<1>5. TurnInv'
  <2>1. \A x \in Requests : ConvOf(x) \in Requests
    BY DEF IInv, TypeOK, ConvOf
  <2>2. \A c \in Requests : Runs(c) \subseteq Requests
    BY DEF Runs
  <2>3. (\A c \in Requests : Runs(c) # {} => LastTurn(c) # {})'
    BY RunsSame DEF IInv, TurnInv
  <2>4. (\A y \in Requests : At(y, "STARTING") =>
          \A x \in Runs(ConvOf(y)) : run[x].turn < h[y].turn)'
    <3> SUFFICES ASSUME NEW y \in Requests, h'[y].step = "STARTING",
                        NEW x \in Runs(ConvOf(y))
                 PROVE  run[x].turn < h'[y].turn
      BY RunsSame, <2>1, <2>2 DEF At
    <3> QED BY DEF IInv, TurnInv, Moves, Arrives, At
  <2>5. (\A y, x \in Requests :
          At(y, "STARTING") /\ At(x, "STARTING") /\ y # x /\ h[y].conv # None
          => h[y].conv # h[x].conv)'
    BY DEF IInv, TurnInv, Moves, Arrives, At, Locked
  <2> QED BY <2>3, <2>4, <2>5 DEF TurnInv
<1>6. PurgeInv'
  BY RunsSame DEF IInv, PurgeInv, Moves, Arrives, At, Writing, PurgerAt
<1>7. ReplaySame'
  BY DEF IInv, ReplaySame, Moves, Arrives
<1>8. CollisionIsReplay'
  BY DEF IInv, CollisionIsReplay, Moves, Arrives, At
<1>9. RepeatConflictsOnlyFollowUp'
  <2> SUFFICES ASSUME NEW x \in Requests, h'[x].out = "CONFLICT"
               PROVE  LET w == idem[h'[x].key].run IN
                      h'[x].text # h'[w].text \/ h'[x].conv # h'[w].conv \/ h'[x].text = "AT"
    BY DEF RepeatConflictsOnlyFollowUp
  <2>1. /\ \A y \in Requests : h'[y].text = h[y].text /\ h'[y].conv = h[y].conv
        /\ h'[x].key = h[x].key /\ h[x].key \in Keys
    BY DEF IInv, RequestInv, Moves, At
  <2>2. idem[h[x].key].run # None => idem[h[x].key].run \in Requests
    BY <2>1 DEF IInv, TypeOK
  <2>3. CASE x # r
    BY <2>1, <2>2, <2>3 DEF IInv, RepeatConflictsOnlyFollowUp, KeyInv, Moves
  <2>4. CASE x = r
    BY <2>1, <2>2, <2>4 DEF IInv, RequestInv, KeyInv, Arrives, SameHash
  <2> QED BY <2>3, <2>4
<1>10. StrandedOnlyByLoss'
  BY DEF IInv, StrandedOnlyByLoss, Moves, Arrives, At
<1>11. LeftByWriters'
  BY RunsSame DEF IInv, LeftByWriters, PurgeInv, Moves, Writing
<1> QED BY <1>1, <1>2, <1>3, <1>4, <1>5, <1>6, <1>7, <1>8, <1>9, <1>10, <1>11 DEF IInv
-----------------------------------------------------------------------------
\* The steps that only move the handler: an end that is not a success ...
LEMMA EndType ==
    ASSUME IInv, NEW r \in Requests, NEW o \in {"RUN", "CONFLICT", "ERROR"}, End(r, o)
    PROVE  h' \in [Requests -> Handler]
<1>1. h \in [Requests -> Handler] /\ h[r] \in Handler
  BY HandlerTyped
<1>2. [h[r] EXCEPT !.step = "DONE", !.out = o, !.turn = 0, !.found = {}] \in Handler
  BY <1>1 DEF Handler, Steps
<1> QED BY <1>1, <1>2 DEF End

LEMMA EndMoves ==
    ASSUME IInv, NEW r \in Requests, ~At(r, "IDLE"), ~At(r, "DONE"),
           NEW o \in {"CONFLICT", "ERROR"}, End(r, o),
           run[r].status # "RUNNING" \/ ~member,
           o = "CONFLICT" => idem[h[r].key].run # None /\ ~SameHash(r),
           faults' \in 0 .. MaxFaults,
           UNCHANGED <<store, readable, member, purging>>
    PROVE  IInv'
<1>1. TypeOK'
  BY EndType, HandlerType DEF IInv
<1>2. Moves(r)
  BY HandlerTyped DEF IInv, RequestInv, Moves, End, At, store, Handler
<1>3. Arrives(r)
  BY HandlerTyped DEF IInv, RequestInv, Arrives, End, At, store, Before, During, Handler
<1>4. AuditMatches'
  BY DEF IInv, AuditMatches, store
<1> QED BY <1>1, <1>2, <1>3, <1>4, MovesInd DEF store, purging

\* ... the loss of the process or of its last word ...
LEMMA LostMoves ==
    ASSUME IInv, NEW r \in Requests, ~At(r, "IDLE"), ~At(r, "DONE"), Lost(r),
           faults' \in 0 .. MaxFaults,
           UNCHANGED <<store, readable, member, purging>>
    PROVE  IInv'
<1>1. TypeOK'
  <2>1. h \in [Requests -> Handler] /\ h[r] \in Handler
    BY HandlerTyped
  <2>2. [h[r] EXCEPT !.step = "DONE", !.out = "ERROR", !.lost = TRUE, !.turn = 0, !.found = {}]
          \in Handler
    BY <2>1 DEF Handler, Steps
  <2>3. h' \in [Requests -> Handler]
    BY <2>1, <2>2 DEF Lost
  <2> QED BY <2>3, HandlerType DEF IInv
<1>2. Moves(r)
  BY HandlerTyped DEF IInv, RequestInv, Moves, Lost, At, store, Handler
<1>3. Arrives(r)
  BY HandlerTyped DEF IInv, RequestInv, Arrives, Lost, At, store, Before, During, Handler
<1>4. AuditMatches'
  BY DEF IInv, AuditMatches, store
<1> QED BY <1>1, <1>2, <1>3, <1>4, MovesInd DEF store, purging

\* ... and the ones that go on to a step of execute or to its cleanup.
Goes(r, s, F) == h' = [h EXCEPT ![r].step = s, ![r].found = F]

LEMMA GoMoves ==
    ASSUME IInv, NEW r \in Requests, NEW s \in During \cup {"FAILING"},
           NEW F \in SUBSET Fragments,
           Goes(r, s, F),
           h[r].step \in During,
           s = "COMPLETING" => conv[ConvOf(r)].state # "PURGED",
           s \in {"RETRIEVE", "SNAPSHOT"} => Writing(r),
           faults' \in 0 .. MaxFaults,
           UNCHANGED <<store, readable, member, purging>>
    PROVE  IInv'
<1>1. TypeOK'
  <2>1. h \in [Requests -> Handler] /\ h[r] \in Handler
    BY HandlerTyped
  <2>2. [h[r] EXCEPT !.step = s, !.found = F] \in Handler
    BY <2>1 DEF Handler, Steps, During
  <2>3. h' \in [Requests -> Handler]
    BY <2>1, <2>2 DEF Goes
  <2> QED BY <2>3, HandlerType DEF IInv
<1>2. Moves(r)
  BY DEF IInv, TypeOK, RequestInv, Moves, At, store, During, Goes
<1>3. Arrives(r)
  BY DEF IInv, TypeOK, RequestInv, OutcomeInv, Arrives, At, store, Before, During, Writing, Goes
<1>4. AuditMatches'
  BY DEF IInv, AuditMatches, store
<1> QED BY <1>1, <1>2, <1>3, <1>4, MovesInd DEF store, purging

LEMMA MemoryInd ==
    ASSUME IInv, NEW r \in Requests, Memory(r)
    PROVE  IInv'
<1>1. PICK a \in Texts :
        h' = [h EXCEPT ![r].step = "LOOKUP", ![r].asked = a]
  <2>1. CASE \E b \in LastTurn(h[r].conv) :
                h' = [h EXCEPT ![r].step = "LOOKUP",
                               ![r].asked = IF /\ RunReadable(b) /\ "QUESTION" \in run[b].live
                                               /\ h[b].asked = "Q"
                                            THEN "Q_AT" ELSE @]
    BY <2>1 DEF IInv, TypeOK, Texts
  <2>2. CASE Goto(r, "LOOKUP")
    <3>1. h' = [h EXCEPT ![r].step = "LOOKUP", ![r].asked = h[r].asked]
      BY <2>2 DEF IInv, TypeOK, Goto
    <3> QED BY <3>1 DEF IInv, TypeOK
  <2> QED BY <2>1, <2>2 DEF Memory
<1>2. /\ UNCHANGED <<store, readable, member, purging>> /\ At(r, "MEMORY")
      /\ faults' \in 0 .. MaxFaults
  BY QuestionAssumption DEF IInv, TypeOK, Memory, Fault
<1>3. TypeOK'
  <2>1. h \in [Requests -> Handler] /\ h[r] \in Handler
    BY HandlerTyped
  <2>2. [h[r] EXCEPT !.step = "LOOKUP", !.asked = a] \in Handler
    BY <2>1 DEF Handler, Steps
  <2>3. h' \in [Requests -> Handler]
    BY <1>1, <2>1, <2>2
  <2> QED BY <2>3, <1>2, HandlerType DEF IInv
<1>4. Moves(r)
  BY <1>1, <1>2 DEF IInv, TypeOK, RequestInv, Moves, At, store, Before
<1>5. Arrives(r)
  BY <1>1, <1>2 DEF IInv, TypeOK, RequestInv, Arrives, At, store, Before, During, Writing
<1>6. AuditMatches'
  BY <1>2 DEF IInv, AuditMatches, store
<1> QED BY <1>2, <1>3, <1>4, <1>5, <1>6, MovesInd DEF store, purging

\* A found key is either refused or leads to the run it names.
LEMMA LookupInd ==
    ASSUME IInv, NEW r \in Requests, Lookup(r)
    PROVE  IInv'
<1>1. /\ UNCHANGED <<store, readable, member, purging>>
      /\ h[r].step \in {"LOOKUP", "RELOOKUP"} /\ faults' \in 0 .. MaxFaults
  BY DEF Lookup, IInv, TypeOK
<1>2. run[r].status = "NONE" /\ r \notin Old /\ h[r].key \in Keys /\ h[r].out = "NONE"
  BY <1>1 DEF IInv, RequestInv, Before, At
<1>3. CASE End(r, "ERROR")
  BY <1>1, <1>2, <1>3, EndMoves DEF At
<1>4. CASE idem[h[r].key].run # None /\ ~SameHash(r) /\ End(r, "CONFLICT")
  BY <1>1, <1>2, <1>4, EndMoves DEF At
<1>5. CASE Goto(r, "START")
  <2>1. TypeOK'
    <3>1. h' \in [Requests -> Handler]
      BY <1>5, HandlerTyped DEF Handler, Goto, Steps
    <3> QED BY <3>1, <1>1, HandlerType DEF IInv
  <2>2. Moves(r)
    BY <1>1, <1>2, <1>5 DEF IInv, TypeOK, Moves, At, store, Goto
  <2>3. Arrives(r)
    BY <1>1, <1>2, <1>5 DEF IInv, TypeOK, Arrives, At, store, Goto, Before, During, Writing
  <2>4. AuditMatches'
    BY <1>1 DEF IInv, AuditMatches, store
  <2> QED BY <1>1, <2>1, <2>2, <2>3, <2>4, MovesInd DEF store, purging
<1>6. CASE /\ idem[h[r].key].run # None
           /\ h' = [h EXCEPT ![r].step = "GET", ![r].got = idem[h[r].key].run]
  <2>1. TypeOK'
    <3>1. h \in [Requests -> Handler] /\ h[r] \in Handler
      BY HandlerTyped
    <3>2. idem[h[r].key].run \in Requests \cup {None}
      BY <1>2 DEF IInv, TypeOK
    <3>3. [h[r] EXCEPT !.step = "GET", !.got = idem[h[r].key].run] \in Handler
      BY <3>1, <3>2 DEF Handler, Steps
    <3>4. h' \in [Requests -> Handler]
      BY <1>6, <3>1, <3>3
    <3> QED BY <3>4, <1>1, HandlerType DEF IInv
  <2>2. Moves(r)
    BY <1>1, <1>2, <1>6 DEF IInv, TypeOK, Moves, At, store
  <2>3. Arrives(r)
    BY <1>1, <1>2, <1>6 DEF IInv, TypeOK, Arrives, At, store, Before, During, Writing
  <2>4. AuditMatches'
    BY <1>1 DEF IInv, AuditMatches, store
  <2> QED BY <1>1, <2>1, <2>2, <2>3, <2>4, MovesInd DEF store, purging
<1> QED BY <1>3, <1>4, <1>5, <1>6 DEF Lookup

\* The next turn of a conversation is past all of its turns.
LEMMA NextTurnPast ==
    ASSUME IInv, NEW c \in Requests \cup {None}
    PROVE  /\ NextTurn(c) \in Nat
           /\ c # None => \A x \in Runs(c) : run[x].turn < NextTurn(c)
<1>1. CASE c = None
  BY <1>1 DEF NextTurn
<1>2. CASE c # None
  <2> DEFINE S == {0} \cup {run[x].turn : x \in Runs(c)}
  <2>1. c \in Requests /\ \A x \in Runs(c) : run[x].turn \in Nat
    BY <1>2 DEF IInv, TypeOK, Runs
  <2>2. \E m \in S : \A y \in S : m >= y
    <3>1. CASE Runs(c) = {}
      BY <3>1
    <3>2. CASE Runs(c) # {}
      <4>1. PICK b \in LastTurn(c) : TRUE
        BY <2>1, <3>2 DEF IInv, TurnInv
      <4>2. b \in Runs(c) /\ \A x \in Runs(c) : run[x].turn <= run[b].turn
        BY <4>1 DEF LastTurn
      <4> QED BY <2>1, <4>2
    <3> QED BY <3>1, <3>2
  <2> DEFINE m == Max(S)
  <2>3. m \in S /\ \A y \in S : m >= y
    BY <2>2 DEF Max
  <2>4. NextTurn(c) = m + 1
    BY <1>2 DEF NextTurn
  <2> HIDE DEF S, m
  <2>5. S \subseteq Nat /\ \A x \in Runs(c) : run[x].turn \in S
    BY <2>1 DEF S
  <2> QED BY <2>1, <2>3, <2>4, <2>5
<1> QED BY <1>1, <1>2

\* Nobody is in the conversation of a request that has not begun it.
LEMMA NoRunsYet ==
    ASSUME IInv, NEW r \in Requests, run[r].status = "NONE"
    PROVE  Runs(r) = {} /\ conv[r].state = "NONE"
<1>1. conv[r].state = "NONE"
  BY DEF IInv, ConvInv
<1>2. \A x \in Requests : h[x].conv # r
  BY <1>1, QuestionAssumption DEF IInv, ConvInv
<1> QED BY <1>1, <1>2 DEF Runs, ConvOf

\* The turn of an open start is past the others; the row lock keeps it so.
LEMMA StartOpenInd ==
    ASSUME IInv, NEW r \in Requests, StartOpen(r)
    PROVE  IInv'
<1>1. /\ UNCHANGED <<store, readable, member, purging>>
      /\ At(r, "START") /\ faults' \in 0 .. MaxFaults
  BY DEF StartOpen, IInv, TypeOK
<1>2. /\ run[r].status = "NONE" /\ r \notin Old /\ h[r].out = "NONE"
      /\ h[r].conv \in Requests \cup {None} /\ conv[r].state = "NONE"
  BY <1>1, NoRunsYet DEF IInv, TypeOK, RequestInv, Before, At
<1>3. CASE End(r, "ERROR")
  BY <1>1, <1>2, <1>3, EndMoves DEF At
<1>4. CASE /\ h[r].conv # None => conv[h[r].conv].state = "ACTIVE"
           /\ ~Locked(h[r].conv)
           /\ h' = [h EXCEPT ![r].step = "STARTING", ![r].turn = NextTurn(h[r].conv)]
  <2>1. /\ NextTurn(h[r].conv) \in Nat
        /\ \A x \in Runs(ConvOf(r)) : run[x].turn < NextTurn(h[r].conv)
    BY <1>2, NextTurnPast, NoRunsYet DEF ConvOf
  <2>2. TypeOK'
    <3>1. h \in [Requests -> Handler] /\ h[r] \in Handler
      BY HandlerTyped
    <3>2. [h[r] EXCEPT !.step = "STARTING", !.turn = NextTurn(h[r].conv)] \in Handler
      BY <2>1, <3>1 DEF Handler, Steps
    <3>3. h' \in [Requests -> Handler]
      BY <1>4, <3>1, <3>2
    <3> QED BY <1>1, <3>3, HandlerType DEF IInv
  <2>3. Moves(r)
    BY <1>1, <1>2, <1>4 DEF IInv, TypeOK, Moves, At, store
  <2>4. Arrives(r)
    BY <1>1, <1>2, <1>4, <2>1 DEF IInv, TypeOK, Arrives, At, store, During, ConvOf
  <2>5. AuditMatches'
    BY <1>1 DEF IInv, AuditMatches, store
  <2> QED BY <1>1, <2>2, <2>3, <2>4, <2>5, MovesInd DEF store, purging
<1> QED BY <1>3, <1>4 DEF StartOpen

\* A unique violation is on the key: the turn of an open start is free.
LEMMA StartAbortInd ==
    ASSUME IInv, NEW r \in Requests, StartAbort(r)
    PROVE  IInv'
<1>1. /\ UNCHANGED <<store, readable, member, purging>> /\ At(r, "STARTING")
      /\ faults' \in 0 .. MaxFaults
  BY QuestionAssumption DEF StartAbort, IInv, TypeOK, Fault
<1>2. run[r].status = "NONE" /\ r \notin Old /\ h[r].out = "NONE"
  BY <1>1 DEF IInv, RequestInv, Before, At
<1>3. CASE End(r, "ERROR")
  BY <1>1, <1>2, <1>3, EndMoves DEF At
<1>4. CASE Taken(r) /\ Goto(r, "RELOOKUP")
  <2>1. ConvOf(r) \in Requests /\ h[r].turn \in Nat
    BY DEF IInv, TypeOK, ConvOf
  <2>2. \A x \in Runs(ConvOf(r)) : run[x].turn < h[r].turn /\ run[x].turn \in Nat
    BY <1>1 DEF IInv, TypeOK, TurnInv, Runs
  <2>3. idem[h[r].key].run # None
    BY <1>4, <2>1, <2>2 DEF Taken
  <2>4. TypeOK'
    <3>1. h' \in [Requests -> Handler]
      BY <1>4, HandlerTyped DEF Goto, Handler, Steps
    <3> QED BY <1>1, <3>1, HandlerType DEF IInv
  <2>5. Moves(r)
    BY <1>1, <1>2, <1>4 DEF IInv, TypeOK, Moves, At, store, Goto
  <2>6. Arrives(r)
    BY <1>1, <1>2, <1>4, <2>3 DEF IInv, TypeOK, Arrives, At, store, During, Goto, Writing
  <2>7. AuditMatches'
    BY <1>1 DEF IInv, AuditMatches, store
  <2> QED BY <1>1, <2>4, <2>5, <2>6, <2>7, MovesInd DEF store, purging
<1> QED BY <1>3, <1>4 DEF StartAbort
-----------------------------------------------------------------------------
(* execute.                                                                *)

\* What every step of execute starts from.
LEMMA Working ==
    ASSUME IInv, NEW r \in Requests, h[r].step \in During
    PROVE  /\ r \notin Old /\ h[r].out = "NONE" /\ h[r].key \in Keys
           /\ run[r].status = "RUNNING" /\ h[r].found \subseteq Fragments
           /\ audit[r].completed = 0 /\ audit[r].failed = 0
           /\ idem[h[r].key].run = r
<1>1. /\ r \notin Old /\ h[r].out = "NONE" /\ h[r].key \in Keys /\ run[r].status = "RUNNING"
  BY DEF IInv, RequestInv, During, At
<1>2. audit[r].completed = 0 /\ audit[r].failed \in 0 .. 2
  BY DEF IInv, TypeOK, OutcomeInv
<1>3. audit[r].failed = 0
  BY <1>1, <1>2 DEF IInv, AuditMatches
<1>4. idem[h[r].key].run = r
  BY <1>1 DEF IInv, ReplaySame
<1> QED BY <1>1, <1>2, <1>3, <1>4 DEF IInv, TypeOK

\* Failing(r) and Goto(r, s) in the form of GoMoves.
LEMMA GoForms ==
    ASSUME IInv, NEW r \in Requests
    PROVE  /\ Failing(r) => Goes(r, "FAILING", {})
           /\ \A s \in Steps : Goto(r, s) => Goes(r, s, h[r].found)
           /\ h[r].found \subseteq Fragments
<1>1. h \in [Requests -> Handler] /\ h[r] \in Handler
  BY HandlerTyped
<1>2. \A s \in Steps : [h[r] EXCEPT !.step = s] = [h[r] EXCEPT !.step = s, !.found = h[r].found]
  BY <1>1 DEF Handler
<1>3. \A s \in Steps : Goto(r, s) => Goes(r, s, h[r].found)
  BY <1>1, <1>2 DEF Goto, Goes
<1> QED BY <1>1, <1>3 DEF Failing, Handler, Goes

LEMMA RetrieveInd ==
    ASSUME IInv, NEW r \in Requests, Retrieve(r)
    PROVE  IInv'
<1>1. /\ UNCHANGED <<store, readable, member, purging>>
      /\ h[r].step \in During /\ Writing(r)
      /\ faults' \in 0 .. MaxFaults /\ readable \subseteq Fragments
  BY DEF Retrieve, IInv, TypeOK, At, During, Writing
<1>2. CASE \E F \in SUBSET readable : Goes(r, "SNAPSHOT", F)
  BY <1>1, <1>2, GoMoves DEF During
<1>3. CASE Goto(r, "COMPLETE")
  BY <1>1, <1>3, GoForms, GoMoves DEF During, Steps
<1>4. CASE Failing(r)
  BY <1>1, <1>4, GoForms, GoMoves
<1> QED BY <1>2, <1>3, <1>4 DEF Retrieve, Goes

LEMMA CompleteOpenInd ==
    ASSUME IInv, NEW r \in Requests, CompleteOpen(r)
    PROVE  IInv'
<1>1. /\ UNCHANGED <<store, readable, member, purging>>
      /\ h[r].step \in During /\ faults' \in 0 .. MaxFaults /\ readable \subseteq Fragments
  BY DEF CompleteOpen, IInv, TypeOK, At, During
<1>2. CASE RunReadable(r) /\ \E F \in SUBSET (h[r].found \cap readable) : Goes(r, "COMPLETING", F)
  BY <1>1, <1>2, GoMoves DEF During, RunReadable
<1>3. CASE Failing(r)
  BY <1>1, <1>3, GoForms, GoMoves
<1> QED BY <1>2, <1>3 DEF CompleteOpen, Goes

LEMMA CompleteAbortInd ==
    ASSUME IInv, NEW r \in Requests, CompleteAbort(r)
    PROVE  IInv'
<1>1. /\ UNCHANGED <<store, readable, member, purging>>
      /\ h[r].step \in During /\ faults' \in 0 .. MaxFaults /\ Failing(r)
  BY QuestionAssumption DEF CompleteAbort, IInv, TypeOK, At, During, Fault
<1> QED BY <1>1, GoForms, GoMoves

\* persistRetrievalSnapshot writes while the run is being worked on.
LEMMA SnapshotInd ==
    ASSUME IInv, NEW r \in Requests, Snapshot(r)
    PROVE  IInv'
<1>1. /\ UNCHANGED <<idem, conv, audit, readable, member, purging>>
      /\ At(r, "SNAPSHOT") /\ h[r].step \in During /\ faults' \in 0 .. MaxFaults
  BY QuestionAssumption DEF Snapshot, IInv, TypeOK, At, During, Fault
<1>2. CASE run' = run
  <2>1. Failing(r) \/ Goto(r, "COMPLETE")
    BY DEF Snapshot, SnapshotFailed
  <2> QED BY <1>1, <1>2, <2>1, GoForms, GoMoves DEF During, Steps, store
<1>3. CASE run' = [run EXCEPT ![r].live = @ \cup {"CANDIDATES"}]
  <2>1. PICK s \in {"COMPLETE", "FAILING"}, F \in SUBSET Fragments : Goes(r, s, F)
    BY GoForms DEF Snapshot, SnapshotFailed, Steps
  <2>2. h' \in [Requests -> Handler]
    <3>1. h \in [Requests -> Handler] /\ h[r] \in Handler
      BY HandlerTyped
    <3>2. [h[r] EXCEPT !.step = s, !.found = F] \in Handler
      BY <3>1 DEF Handler, Steps
    <3> QED BY <2>1, <3>1, <3>2 DEF Goes
  <2>3. TypeOK'
    <3>1. run' \in [Requests -> RunRow]
      BY <1>3, RunTyped DEF RunRow, Artifacts
    <3> QED BY <1>1, <2>2, <3>1, RunType DEF IInv, TypeOK
  <2>4. Moves(r)
    BY <1>1, <1>3, <2>1, Working DEF IInv, TypeOK, Moves, At, Goes, Writing
  <2>5. Arrives(r)
    BY <1>1, <1>3, <2>1, Working DEF IInv, TypeOK, Arrives, At, Before, During, Writing, Goes
  <2>6. AuditMatches'
    BY <1>1, <1>3 DEF IInv, TypeOK, AuditMatches
  <2> QED BY <1>1, <2>3, <2>4, <2>5, <2>6, MovesInd DEF purging
<1> QED BY <1>2, <1>3 DEF Snapshot

\* The outcome is recorded once; the update misses its row only without
\* membership.
LEMMA CompleteCommitInd ==
    ASSUME IInv, NEW r \in Requests, CompleteCommit(r)
    PROVE  IInv'
<1>1. /\ UNCHANGED <<idem, conv, readable, member, purging>>
      /\ At(r, "COMPLETING") /\ h[r].step \in During /\ faults' \in 0 .. MaxFaults
      /\ audit' = [audit EXCEPT ![r].completed = @ + 1]
  BY QuestionAssumption DEF CompleteCommit, IInv, TypeOK, At, During, Fault
<1>2. PICK st \in {"RUNNING", "COMPLETED", "INSUFFICIENT_EVIDENCE"} :
        /\ run' = [run EXCEPT ![r].cites = h[r].found, ![r].live = @ \cup {"ANSWER"},
                              ![r].status = st]
        /\ st = "RUNNING" => ~member
  <2>1. PICK updated \in {TRUE, member} :
          run' = [run EXCEPT ![r].cites = h[r].found, ![r].live = @ \cup {"ANSWER"},
                             ![r].status = IF ~updated THEN @
                                           ELSE IF h[r].found # {} THEN "COMPLETED"
                                           ELSE "INSUFFICIENT_EVIDENCE"]
    BY DEF CompleteCommit
  <2>2. run[r].status = "RUNNING" /\ run \in [Requests -> RunRow]
    BY <1>1, Working, RunTyped
  <2> DEFINE st == IF ~updated THEN "RUNNING"
                   ELSE IF h[r].found # {} THEN "COMPLETED" ELSE "INSUFFICIENT_EVIDENCE"
  <2>3. run' = [run EXCEPT ![r].cites = h[r].found, ![r].live = @ \cup {"ANSWER"},
                           ![r].status = st]
    BY <2>1, <2>2
  <2>4. st = "RUNNING" => ~member
    BY <2>1
  <2>5. st \in {"RUNNING", "COMPLETED", "INSUFFICIENT_EVIDENCE"}
    OBVIOUS
  <2> HIDE DEF st
  <2> QED BY <2>3, <2>4, <2>5
<1>3. \/ h' = [h EXCEPT ![r].step = "GET", ![r].got = r, ![r].found = {}]
      \/ Failing(r)
  BY DEF CompleteCommit
<1>4. h' \in [Requests -> Handler]
  <2>1. h \in [Requests -> Handler] /\ h[r] \in Handler
    BY HandlerTyped
  <2>2. /\ [h[r] EXCEPT !.step = "GET", !.got = r, !.found = {}] \in Handler
        /\ [h[r] EXCEPT !.step = "FAILING", !.found = {}] \in Handler
    BY <2>1 DEF Handler, Steps
  <2> QED BY <1>3, <2>1, <2>2 DEF Failing
<1>5. /\ audit' \in [Requests -> [completed : 0 .. 2, failed : 0 .. 2]]
      /\ audit'[r].completed = 1 /\ audit'[r].failed = 0
      /\ \A x \in Requests \ {r} : audit'[x] = audit[x]
  BY <1>1, Working DEF IInv, TypeOK
<1>6. TypeOK'
  <2>1. run \in [Requests -> RunRow] /\ run[r] \in RunRow
    BY RunTyped
  <2>2. [run[r] EXCEPT !.cites = h[r].found, !.live = @ \cup {"ANSWER"}, !.status = st] \in RunRow
    BY <2>1, <1>1, Working DEF RunRow, Artifacts, Answered
  <2>3. run' \in [Requests -> RunRow]
    BY <1>2, <2>1, <2>2
  <2> QED BY <1>1, <1>4, <1>5, <2>3, RunType DEF IInv
<1>7. Moves(r)
  BY <1>1, <1>2, <1>3, <1>5, Working, HandlerTyped, RunTyped
     DEF Moves, At, Failing, Handler, RunRow, Writing
<1>8. Arrives(r)
  BY <1>1, <1>2, <1>3, <1>5, Working, HandlerTyped, RunTyped, QuestionAssumption
     DEF Arrives, At, Failing, Handler, RunRow, Before, During, Writing
<1>9. AuditMatches'
  BY <1>1, <1>2, <1>5, RunTyped DEF IInv, AuditMatches, RunRow, Answered
<1> QED BY <1>1, <1>6, <1>7, <1>8, <1>9, MovesInd DEF purging

\* fail closes a run that is RUNNING, and only then records it.
LEMMA FailInd ==
    ASSUME IInv, NEW r \in Requests, Fail(r)
    PROVE  IInv'
<1>1. /\ UNCHANGED <<idem, conv, readable, member, purging>>
      /\ At(r, "FAILING") /\ faults' \in 0 .. MaxFaults
  BY QuestionAssumption DEF Fail, IInv, TypeOK, Fault
<1>2. r \notin Old /\ h[r].out = "NONE"
  BY <1>1 DEF IInv, RequestInv, At
<1>3. CASE UNCHANGED <<run, audit>> /\ ~MayFail(r) /\ End(r, "ERROR")
  BY <1>1, <1>2, <1>3, EndMoves DEF At, MayFail, store
<1>4. CASE UNCHANGED <<run, audit>> /\ Lost(r)
  BY <1>1, <1>2, <1>4, LostMoves DEF At, store
<1>5. CASE /\ MayFail(r) /\ End(r, "ERROR")
           /\ run' = [run EXCEPT ![r].status = IF @ = "RUNNING" THEN "FAILED" ELSE @]
           /\ audit' = [audit EXCEPT ![r].failed = @ + 1]
  <2>1. run[r].status = "RUNNING" /\ member
    BY <1>5 DEF MayFail
  <2>2. audit[r].completed = 0 /\ audit[r].failed = 0
    <3>1. audit[r].completed \in 0 .. 2 /\ audit[r].failed \in 0 .. 2
      BY DEF IInv, TypeOK
    <3> QED BY <2>1, <3>1 DEF IInv, AuditMatches, Answered
  <2>3. run' = [run EXCEPT ![r].status = "FAILED"]
    BY <1>5, <2>1, RunTyped
  <2>4. h' \in [Requests -> Handler]
    BY <1>5, EndType
  <2>5. /\ audit' \in [Requests -> [completed : 0 .. 2, failed : 0 .. 2]]
        /\ audit'[r].completed = 0 /\ audit'[r].failed = 1
        /\ \A x \in Requests \ {r} : audit'[x] = audit[x]
    BY <1>5, <2>2 DEF IInv, TypeOK
  <2>6. TypeOK'
    <3>1. run' \in [Requests -> RunRow]
      BY <2>3, RunTyped DEF RunRow
    <3> QED BY <1>1, <2>4, <2>5, <3>1, RunType DEF IInv
  <2>7. Moves(r)
    BY <1>1, <1>2, <1>5, <2>1, <2>3, <2>5, HandlerTyped, RunTyped
       DEF Moves, At, End, Handler, RunRow
  <2>8. Arrives(r)
    BY <1>1, <1>2, <1>5, <2>3, <2>5, HandlerTyped, RunTyped
       DEF Arrives, At, End, Handler, RunRow, Before, During
  <2>9. AuditMatches'
    BY <1>1, <2>3, <2>5, RunTyped DEF IInv, AuditMatches, RunRow, Answered
  <2> QED BY <1>1, <2>6, <2>7, <2>8, <2>9, MovesInd DEF purging
<1> QED BY <1>3, <1>4, <1>5 DEF Fail

\* Get of the run the key names.
LEMMA GetInd ==
    ASSUME IInv, NEW r \in Requests, Get(r)
    PROVE  IInv'
<1>1. /\ UNCHANGED <<store, readable, member, purging>> /\ At(r, "GET")
      /\ faults' \in 0 .. MaxFaults
  BY DEF Get, IInv, TypeOK
<1>2. /\ r \notin Old /\ h[r].out = "NONE" /\ h[r].got = idem[h[r].key].run
      /\ h[r].got # None /\ (run[r].status = "RUNNING" => ~member)
  BY <1>1 DEF IInv, RequestInv, KeyInv, OutcomeInv, At
<1>3. CASE End(r, "ERROR")
  BY <1>1, <1>2, <1>3, EndMoves DEF At
<1>4. CASE End(r, "RUN")
  <2>1. TypeOK'
    <3>1. h' \in [Requests -> Handler]
      BY <1>4, EndType
    <3> QED BY <1>1, <3>1, HandlerType DEF IInv
  <2>2. Moves(r)
    BY <1>1, <1>2, <1>4, HandlerTyped DEF Moves, At, store, End, Handler
  <2>3. Arrives(r)
    BY <1>1, <1>2, <1>4, HandlerTyped DEF Arrives, At, store, End, Handler, Before, During
  <2>4. AuditMatches'
    BY <1>1 DEF IInv, AuditMatches, store
  <2> QED BY <1>1, <2>1, <2>2, <2>3, <2>4, MovesInd DEF store, purging
<1> QED BY <1>3, <1>4 DEF Get

LEMMA ReadErrorInd ==
    ASSUME IInv, NEW r \in Requests, ReadError(r)
    PROVE  IInv'
<1>1. /\ UNCHANGED <<store, readable, member, purging>> /\ End(r, "ERROR")
      /\ h[r].step \in {"LOOKUP", "RELOOKUP", "START", "GET"} /\ faults' \in 0 .. MaxFaults
  BY QuestionAssumption DEF ReadError, IInv, TypeOK, Fault
<1>2. run[r].status # "RUNNING" \/ ~member
  BY <1>1 DEF IInv, RequestInv, OutcomeInv, At, Before
<1> QED BY <1>1, <1>2, EndMoves DEF At

LEMMA CrashInd ==
    ASSUME IInv, NEW r \in Requests, Crash(r)
    PROVE  IInv'
<1>1. /\ UNCHANGED <<store, readable, member, purging>> /\ Lost(r)
      /\ h[r].step \notin {"IDLE", "DONE"} /\ faults' \in 0 .. MaxFaults
  BY QuestionAssumption DEF Crash, IInv, TypeOK, Fault
<1> QED BY <1>1, LostMoves DEF At

-----------------------------------------------------------------------------
(* A request is submitted, and its run begins.                             *)

\* Nothing hangs on a request that was not submitted.
LEMMA SubmitInd ==
    ASSUME IInv, NEW r \in Requests, NEW k \in Keys, NEW t \in Texts,
           NEW c \in Requests \cup {None}, Submit(r, k, t, c)
    PROVE  IInv'
<1> DEFINE s == IF t = "AT" /\ c # None THEN "MEMORY" ELSE "LOOKUP"
<1>1. /\ At(r, "IDLE") /\ r \notin Old /\ (c # None => conv[c].state # "NONE")
      /\ h' = [h EXCEPT ![r].key = k, ![r].text = t, ![r].asked = t, ![r].conv = c,
                        ![r].step = s]
      /\ UNCHANGED <<store, readable, member, purging, faults>>
  BY QuestionAssumption DEF Submit
<1>2. s \in {"MEMORY", "LOOKUP"} /\ (s = "MEMORY" => t = "AT")
  OBVIOUS
<1> HIDE DEF s
<1>3. h \in [Requests -> Handler] /\ h[r] \in Handler
  BY HandlerTyped
<1>4. /\ \A x \in Requests \ {r} : h'[x] = h[x]
      /\ h'[r].key = k /\ h'[r].text = t /\ h'[r].asked = t /\ h'[r].conv = c
      /\ h'[r].step = s /\ h'[r].out = h[r].out /\ h'[r].got = h[r].got
  BY <1>1, <1>3 DEF Handler
<1>5. run[r].status = "NONE" /\ h[r].out = "NONE" /\ run[r].live = {} /\ conv[r].state = "NONE"
  BY <1>1, NoRunsYet DEF IInv, RequestInv, OutcomeInv, Before, At
<1>6. TypeOK'
  <2>1. [h[r] EXCEPT !.key = k, !.text = t, !.asked = t, !.conv = c, !.step = s] \in Handler
    BY <1>2, <1>3 DEF Handler, Steps
  <2>2. h' \in [Requests -> Handler]
    BY <1>1, <1>3, <2>1
  <2> QED BY <1>1, <2>2, HandlerType DEF IInv, TypeOK
<1>7. RequestInv'
  <2> SUFFICES ASSUME NEW x \in Requests PROVE RequestInv!(x)'
    BY DEF RequestInv
  <2>1. CASE x # r
    BY <1>1, <1>4, <2>1 DEF IInv, RequestInv, At, store
  <2>2. CASE x = r
    BY <1>1, <1>2, <1>4, <1>5, <2>2 DEF At, Before, During, store
  <2> QED BY <2>1, <2>2
<1>8. KeyInv'
  <2>1. \A j \in Keys : idem[j].run \in Requests \cup {None}
    BY DEF IInv, TypeOK
  <2>2. \A j \in Keys : idem[j].run # r
    BY <1>5, QuestionAssumption DEF IInv, KeyInv
  <2>3. ASSUME NEW j \in Keys, idem[j].run # None
        PROVE  LET w == idem[j].run IN
               /\ w \notin Old /\ run[w].status # "NONE" /\ h'[w].key = j
               /\ h'[w].asked = idem[j].text /\ h'[w].conv = idem[j].conv
    <3>1. idem[j].run \in Requests \ {r}
      BY <2>1, <2>2, <2>3
    <3>2. h'[idem[j].run] = h[idem[j].run]
      BY <1>4, <3>1
    <3> QED BY <2>3, <3>2 DEF IInv, KeyInv
  <2>4. ASSUME NEW x \in Requests
        PROVE  KeyInv!2!(x)'
    <3>1. CASE x # r
      <4>1. h'[x] = h[x] /\ idem' = idem
        BY <1>1, <1>4, <3>1 DEF store
      <4> QED BY <4>1 DEF IInv, KeyInv, At
    <3>2. CASE x = r
      BY <1>2, <1>4, <1>5, <3>2 DEF At
    <3> QED BY <3>1, <3>2
  <2> QED BY <1>1, <2>3, <2>4 DEF KeyInv, store
<1>9. OutcomeInv'
  BY <1>1, <1>2, <1>4, <1>5 DEF IInv, OutcomeInv, At, During, store
<1>10. ConvInv'
  BY <1>1, <1>4, <1>5 DEF IInv, ConvInv, store
<1>11. \A d \in Requests : Runs(d)' = Runs(d) /\ LastTurn(d)' = LastTurn(d)
  <2>1. \A x \in Requests \ {r} : ConvOf(x)' = ConvOf(x)
    BY <1>4 DEF ConvOf
  <2>2. \A d \in Requests : Runs(d)' = Runs(d)
    BY <1>1, <1>5, <2>1 DEF Runs, store
  <2> QED BY <1>1, <2>2 DEF LastTurn, store
<1>12. TurnInv'
  <2>1. \A x \in Requests \ {r} : ConvOf(x)' = ConvOf(x) /\ ConvOf(x) \in Requests
    BY <1>4 DEF ConvOf, IInv, TypeOK
  <2>2. \A x \in Requests : At(x, "STARTING")' => At(x, "STARTING") /\ x # r
    BY <1>2, <1>4 DEF At
  <2>3. TurnInv!1'
    BY <1>11 DEF IInv, TurnInv
  <2>4. ASSUME NEW y \in Requests, At(y, "STARTING")',
               NEW x \in Runs(ConvOf(y))'
        PROVE  (run[x].turn < h[y].turn)'
    <3>1. At(y, "STARTING") /\ y # r /\ h'[y] = h[y]
      BY <1>4, <2>2, <2>4
    <3>2. x \in Runs(ConvOf(y))
      BY <1>11, <2>1, <2>4, <3>1
    <3> QED BY <1>1, <3>1, <3>2 DEF IInv, TurnInv, store
  <2>5. TurnInv!3'
    BY <1>4, <2>2 DEF IInv, TurnInv
  <2> QED BY <2>3, <2>4, <2>5 DEF TurnInv
<1>13. PurgeInv'
  <2>1. \A x \in Requests \ {r} : ConvOf(x)' = ConvOf(x)
    BY <1>4 DEF ConvOf
  <2>2. ~Writing(r)'
    BY <1>2, <1>4 DEF Writing, During
  <2>3. \A x \in Requests : Writing(x)' => Writing(x) /\ x # r
    BY <1>4, <2>2 DEF Writing
  <2> QED BY <1>1, <1>11, <2>1, <2>3 DEF IInv, PurgeInv, PurgerAt, store, purging
<1>14. ReplaySame'
  BY <1>1, <1>4, <1>5 DEF IInv, ReplaySame, store
<1>15. CollisionIsReplay'
  BY <1>1, <1>2, <1>4 DEF IInv, CollisionIsReplay, At, store
<1>16. RepeatConflictsOnlyFollowUp'
  <2> SUFFICES ASSUME NEW x \in Requests, h'[x].out = "CONFLICT"
               PROVE  LET w == idem[h'[x].key].run IN
                      h'[x].text # h'[w].text \/ h'[x].conv # h'[w].conv \/ h'[x].text = "AT"
    BY <1>1 DEF RepeatConflictsOnlyFollowUp, store
  <2>1. x # r /\ h'[x] = h[x] /\ h[x].key \in Keys
    BY <1>4, <1>5 DEF IInv, RequestInv, At
  <2>2. idem[h[x].key].run \in Requests \ {r}
    BY <1>5, <2>1 DEF IInv, TypeOK, KeyInv
  <2> QED BY <1>4, <2>1, <2>2 DEF IInv, RepeatConflictsOnlyFollowUp
<1>17. AuditMatches'
  BY <1>1 DEF IInv, AuditMatches, store
<1>18. StrandedOnlyByLoss'
  BY <1>1, <1>4, <1>5 DEF IInv, StrandedOnlyByLoss, At, store
<1>19. LeftByWriters'
  BY <1>1, <1>4, <1>5 DEF IInv, LeftByWriters, ConvOf, store
<1> QED BY <1>6, <1>7, <1>8, <1>9, <1>10, <1>12, <1>13, <1>14, <1>15, <1>16, <1>17, <1>18,
           <1>19 DEF IInv

\* What the start of r leaves: the run, the key and, at the first turn, the
\* conversation. Nobody else is starting in the conversation.
LEMMA StartFacts ==
    ASSUME IInv, NEW r \in Requests, StartCommit(r)
    PROVE  /\ r \notin Old /\ h[r].key \in Keys /\ h[r].step = "STARTING"
           /\ h[r].out = "NONE" /\ run[r].status = "NONE" /\ idem[h[r].key].run = None
           /\ \A x \in Requests \ {r} : h'[x] = h[x] /\ run'[x] = run[x]
           /\ h'[r].key = h[r].key /\ h'[r].text = h[r].text
           /\ h'[r].asked = h[r].asked /\ h'[r].conv = h[r].conv
           /\ \/ h'[r].step = "RETRIEVE" /\ h'[r].out = "NONE"
              \/ h'[r].step = "DONE" /\ h'[r].out = "ERROR" /\ h'[r].lost
           /\ run'[r].status = "RUNNING" /\ run'[r].turn = h[r].turn
           /\ \A k \in Keys \ {h[r].key} : idem'[k] = idem[k]
           /\ idem'[h[r].key] = [run |-> r, text |-> h[r].asked, conv |-> h[r].conv]
           /\ \A c \in Requests \ {r} : conv'[c] = conv[c]
           /\ conv'[r] = IF h[r].conv = None THEN [conv[r] EXCEPT !.state = "ACTIVE"] ELSE conv[r]
           /\ audit' = audit /\ member' = member /\ req' = req /\ pg' = pg
<1>1. /\ h \in [Requests -> Handler] /\ run \in [Requests -> RunRow]
      /\ conv \in [Requests -> [state : Retention, writers : SUBSET Requests]]
      /\ idem \in [Keys -> [run : Requests \cup {None}, text : Texts, conv : Requests \cup {None}]]
  BY HandlerTyped, RunTyped DEF IInv, TypeOK
<1>2. /\ r \notin Old /\ h[r].key \in Keys /\ h[r].step = "STARTING"
      /\ h[r].out = "NONE" /\ run[r].status = "NONE" /\ idem[h[r].key].run = None
  BY DEF IInv, RequestInv, StartCommit, At, Before, Taken
<1>3. /\ \A x \in Requests \ {r} : h'[x] = h[x]
      /\ h'[r].key = h[r].key /\ h'[r].text = h[r].text
      /\ h'[r].asked = h[r].asked /\ h'[r].conv = h[r].conv
      /\ \/ h'[r].step = "RETRIEVE" /\ h'[r].out = "NONE"
         \/ h'[r].step = "DONE" /\ h'[r].out = "ERROR" /\ h'[r].lost
  BY <1>1, <1>2 DEF StartCommit, Lost, Handler
<1>4. /\ \A x \in Requests \ {r} : run'[x] = run[x]
      /\ run'[r].status = "RUNNING" /\ run'[r].turn = h[r].turn
      /\ \A k \in Keys \ {h[r].key} : idem'[k] = idem[k]
      /\ idem'[h[r].key] = [run |-> r, text |-> h[r].asked, conv |-> h[r].conv]
  BY <1>1, <1>2 DEF StartCommit
<1>5. /\ \A c \in Requests \ {r} : conv'[c] = conv[c]
      /\ conv'[r] = IF h[r].conv = None THEN [conv[r] EXCEPT !.state = "ACTIVE"] ELSE conv[r]
      /\ audit' = audit /\ member' = member /\ req' = req /\ pg' = pg
  BY <1>1 DEF StartCommit, purging
<1> QED BY <1>2, <1>3, <1>4, <1>5

LEMMA StartAlone ==
    ASSUME IInv, NEW r \in Requests, At(r, "STARTING"),
           NEW x \in Requests \ {r}, At(x, "STARTING")
    PROVE  ConvOf(x) # ConvOf(r)
<1>1. /\ run[r].status = "NONE" /\ run[x].status = "NONE"
      /\ conv[r].state = "NONE" /\ conv[x].state = "NONE"
  BY NoRunsYet DEF IInv, RequestInv, Before, At
<1>2. h[x].conv # r /\ h[r].conv # x
  BY <1>1, QuestionAssumption DEF IInv, ConvInv
<1>3. h[r].conv # None => h[r].conv # h[x].conv
  BY DEF IInv, TurnInv
<1> QED BY <1>2, <1>3 DEF ConvOf

LEMMA StartTurns ==
    ASSUME IInv, NEW r \in Requests, StartCommit(r)
    PROVE  TurnInv'
<1> /\ \A x \in Requests \ {r} : h'[x] = h[x] /\ run'[x] = run[x]
    /\ h'[r].conv = h[r].conv /\ h[r].step = "STARTING"
    /\ h'[r].step \in {"RETRIEVE", "DONE"}
    /\ run[r].status = "NONE" /\ run'[r].status = "RUNNING" /\ run'[r].turn = h[r].turn
  BY StartFacts
<1>1. \A x \in Requests : ConvOf(x)' = ConvOf(x) /\ ConvOf(x) \in Requests
  BY DEF ConvOf, IInv, TypeOK
<1>2. \A c \in Requests :
        Runs(c)' = IF c = ConvOf(r) THEN Runs(c) \cup {r} ELSE Runs(c)
  BY <1>1 DEF Runs
<1>3. /\ h[r].turn \in Nat /\ \A x \in Runs(ConvOf(r)) : run[x].turn < h[r].turn
      /\ \A x \in Requests : run[x].turn \in Nat
  BY DEF IInv, TypeOK, TurnInv, At
<1>4. \A c \in Requests : Runs(c) \subseteq Requests \ {r}
  BY DEF Runs
<1>5. \A x \in Requests : run'[x].turn = IF x = r THEN h[r].turn ELSE run[x].turn
  OBVIOUS
<1>6. ASSUME NEW c \in Requests, Runs(c)' # {}
      PROVE  LastTurn(c)' # {}
  <2>1. CASE c = ConvOf(r)
    <3>1. \A x \in Runs(c)' : run'[x].turn <= run'[r].turn
      BY <1>2, <1>3, <1>4, <1>5, <2>1
    <3> QED BY <1>2, <2>1, <3>1 DEF LastTurn
  <2>2. CASE c # ConvOf(r)
    <3>1. PICK b \in LastTurn(c) : TRUE
      BY <1>2, <1>6, <2>2 DEF IInv, TurnInv
    <3>2. b \in Runs(c) /\ \A x \in Runs(c) : run[x].turn <= run[b].turn
      BY <3>1 DEF LastTurn
    <3>3. b \in Runs(c)' /\ \A x \in Runs(c)' : run'[x].turn <= run'[b].turn
      BY <1>2, <1>4, <1>5, <2>2, <3>2
    <3> QED BY <3>3 DEF LastTurn
  <2> QED BY <2>1, <2>2
<1>7. \A x \in Requests : At(x, "STARTING")' => x # r /\ At(x, "STARTING") /\ h'[x] = h[x]
  BY DEF At
<1>8. ASSUME NEW y \in Requests, At(y, "STARTING")', NEW x \in Runs(ConvOf(y))'
      PROVE  (run[x].turn < h[y].turn)'
  <2>1. ConvOf(y) # ConvOf(r) /\ ConvOf(y) \in Requests /\ ConvOf(y)' = ConvOf(y)
    BY <1>1, <1>7, <1>8, StartAlone DEF At
  <2>2. x \in Runs(ConvOf(y)) /\ x # r
    BY <1>2, <1>4, <1>8, <2>1
  <2> QED BY <1>4, <1>5, <1>7, <1>8, <2>1, <2>2 DEF IInv, TurnInv
<1>9. TurnInv!3'
  BY <1>7 DEF IInv, TurnInv
<1> QED BY <1>6, <1>8, <1>9 DEF TurnInv

\* The run is made under a key nobody has, and the other requests of the key
\* have no answer from it yet.
LEMMA StartKeys ==
    ASSUME IInv, NEW r \in Requests, StartCommit(r)
    PROVE  KeyInv' /\ ReplaySame' /\ CollisionIsReplay' /\ RepeatConflictsOnlyFollowUp'
<1>1. /\ r \notin Old /\ h[r].key \in Keys /\ h[r].step = "STARTING"
      /\ h[r].out = "NONE" /\ run[r].status = "NONE" /\ idem[h[r].key].run = None
      /\ h'[r].step \in {"RETRIEVE", "DONE"} /\ h'[r].out \in {"NONE", "ERROR"}
  BY StartFacts
<1>2. /\ \A x \in Requests \ {r} : h'[x] = h[x] /\ run'[x] = run[x]
      /\ h'[r].key = h[r].key /\ h'[r].text = h[r].text
      /\ h'[r].asked = h[r].asked /\ h'[r].conv = h[r].conv /\ run'[r].status = "RUNNING"
  BY StartFacts
<1>3. /\ \A k \in Keys \ {h[r].key} : idem'[k] = idem[k]
      /\ idem'[h[r].key].run = r /\ idem'[h[r].key].text = h[r].asked
      /\ idem'[h[r].key].conv = h[r].conv
  <2>1. /\ \A k \in Keys \ {h[r].key} : idem'[k] = idem[k]
        /\ idem'[h[r].key] = [run |-> r, text |-> h[r].asked, conv |-> h[r].conv]
    BY StartFacts
  <2> QED BY <2>1
<1>4. r # None /\ \A k \in Keys : idem[k].run \in Requests \cup {None}
  BY QuestionAssumption DEF IInv, TypeOK
<1>5. ASSUME NEW x \in Requests \ {r}, x \notin Old, ~At(x, "IDLE"), idem[h[x].key].run # None
      PROVE  h[x].key \in Keys /\ idem'[h[x].key] = idem[h[x].key]
  BY <1>1, <1>3, <1>5 DEF IInv, RequestInv
<1>6. ASSUME NEW k \in Keys, idem'[k].run # None
      PROVE  LET w == idem'[k].run IN
             /\ w \notin Old /\ run'[w].status # "NONE" /\ h'[w].key = k
             /\ h'[w].asked = idem'[k].text /\ h'[w].conv = idem'[k].conv
  <2>1. CASE k = h[r].key
    BY <1>1, <1>2, <1>3, <2>1
  <2>2. CASE k # h[r].key
    <3>1. idem'[k] = idem[k] /\ idem[k].run \in Requests
      BY <1>3, <1>4, <1>6, <2>2
    <3>2. idem[k].run # r
      BY <1>1, <3>1, <1>4 DEF IInv, KeyInv
    <3> QED BY <1>2, <3>1, <3>2, <1>6 DEF IInv, KeyInv
  <2> QED BY <2>1, <2>2
<1>7. ASSUME NEW x \in Requests
      PROVE  KeyInv!2!(x)'
  <2>1. CASE x = r
    BY <1>1, <2>1 DEF At
  <2>2. CASE x # r
    <3>1. h'[x] = h[x]
      BY <1>2, <2>2
    <3>2. ASSUME x \notin Old, ~At(x, "IDLE"), idem[h[x].key].run # None
          PROVE  idem'[h[x].key] = idem[h[x].key]
      BY <1>5, <2>2, <3>2
    <3>3. /\ x \in Old => At(x, "DONE") /\ h[x].out # "CONFLICT"
          /\ ~At(x, "DONE") => h[x].out = "NONE"
      BY DEF IInv, RequestInv
    <3>4. KeyInv!2!(x)
      BY DEF IInv, KeyInv
    <3> QED BY <3>1, <3>2, <3>3, <3>4 DEF At
  <2> QED BY <2>1, <2>2
<1>8. KeyInv'
  BY <1>6, <1>7 DEF KeyInv
<1>9. ASSUME NEW x \in Requests, x \notin Old
      PROVE  /\ run'[x].status # "NONE" => idem'[h'[x].key].run = x
             /\ h'[x].out = "RUN" => h'[x].got = idem'[h'[x].key].run
  <2>1. CASE x = r
    BY <1>1, <1>2, <1>3, <2>1
  <2>2. CASE x # r
    <3>1. h'[x] = h[x] /\ run'[x] = run[x] /\ x # None
      BY <1>2, <2>2, QuestionAssumption
    <3>2. run[x].status # "NONE" \/ h[x].out = "RUN" => idem[h[x].key].run # None
      BY <3>1, <1>9 DEF IInv, ReplaySame, KeyInv
    <3>3. run[x].status # "NONE" \/ h[x].out = "RUN" => ~At(x, "IDLE")
      BY DEF IInv, RequestInv, At, Before
    <3> QED BY <1>5, <1>9, <2>2, <3>1, <3>2, <3>3 DEF IInv, ReplaySame
  <2> QED BY <2>1, <2>2
<1>10. ReplaySame'
  BY <1>9 DEF ReplaySame
<1>11. ASSUME NEW x \in Requests, At(x, "RELOOKUP")'
       PROVE  (idem[h[x].key].run # None)'
  <2>1. x # r /\ h'[x] = h[x] /\ At(x, "RELOOKUP")
    BY <1>1, <1>2, <1>11 DEF At
  <2>2. idem[h[x].key].run # None /\ x \notin Old
    BY <2>1 DEF IInv, CollisionIsReplay, RequestInv, At
  <2> QED BY <1>5, <2>1, <2>2 DEF At
<1>12. ASSUME NEW x \in Requests, h'[x].out = "CONFLICT"
       PROVE  LET w == idem'[h'[x].key].run IN
              h'[x].text # h'[w].text \/ h'[x].conv # h'[w].conv \/ h'[x].text = "AT"
  <2>1. x # r /\ h'[x] = h[x]
    BY <1>1, <1>2, <1>12
  <2>2. x \notin Old /\ ~At(x, "IDLE") /\ idem[h[x].key].run # None
    BY <1>12, <2>1 DEF IInv, RequestInv, KeyInv, At
  <2>3. idem'[h[x].key] = idem[h[x].key] /\ idem[h[x].key].run \in Requests \ {r}
    BY <1>1, <1>4, <1>5, <2>1, <2>2 DEF IInv, KeyInv
  <2> QED BY <1>2, <1>12, <2>1, <2>3 DEF IInv, RepeatConflictsOnlyFollowUp
<1> QED BY <1>8, <1>10, <1>11, <1>12 DEF CollisionIsReplay, RepeatConflictsOnlyFollowUp

LEMMA StartCommitInd ==
    ASSUME IInv, NEW r \in Requests, StartCommit(r)
    PROVE  IInv'
<1>1. /\ r \notin Old /\ h[r].key \in Keys /\ h[r].step = "STARTING"
      /\ run[r].status = "NONE" /\ run'[r].status = "RUNNING"
      /\ \/ h'[r].step = "RETRIEVE" /\ h'[r].out = "NONE"
         \/ h'[r].step = "DONE" /\ h'[r].out = "ERROR" /\ h'[r].lost
  BY StartFacts
<1>2. /\ \A x \in Requests \ {r} : h'[x] = h[x] /\ run'[x] = run[x]
      /\ h'[r].key = h[r].key /\ h'[r].text = h[r].text
      /\ h'[r].asked = h[r].asked /\ h'[r].conv = h[r].conv
      /\ audit' = audit /\ member' = member /\ req' = req /\ pg' = pg
  BY StartFacts
<1>3. /\ \A c \in Requests \ {r} : conv'[c] = conv[c]
      /\ conv'[r] = IF h[r].conv = None THEN [conv[r] EXCEPT !.state = "ACTIVE"] ELSE conv[r]
      /\ conv[r].state = "NONE"
  BY StartFacts, NoRunsYet
<1>4. /\ conv \in [Requests -> [state : Retention, writers : SUBSET Requests]]
      /\ \A c \in Requests \ {r} : conv'[c].state = conv[c].state /\ conv'[c].writers = conv[c].writers
      /\ h[r].conv = None => conv'[r].state = "ACTIVE"
      /\ h[r].conv # None => conv'[r].state = "NONE"
  BY <1>3 DEF IInv, TypeOK
<1>5. \A x \in Requests : ConvOf(x)' = ConvOf(x) /\ ConvOf(x) \in Requests
  BY <1>2 DEF ConvOf, IInv, TypeOK
<1>6. TypeOK'
  <2>1. h \in [Requests -> Handler] /\ h[r] \in Handler /\ run \in [Requests -> RunRow]
    BY HandlerTyped, RunTyped
  <2>2. /\ [h[r] EXCEPT !.step = "RETRIEVE", !.turn = 0] \in Handler
        /\ [h[r] EXCEPT !.step = "DONE", !.out = "ERROR", !.lost = TRUE, !.turn = 0, !.found = {}]
              \in Handler
    BY <2>1 DEF Handler, Steps
  <2>3. h' \in [Requests -> Handler]
    BY <2>1, <2>2 DEF StartCommit, Lost
  <2>4. [status |-> "RUNNING", kept |-> "ACTIVE", turn |-> h[r].turn,
         cites |-> {}, live |-> {"QUESTION"}] \in RunRow
    BY <2>1 DEF RunRow, Handler, Retention, Artifacts
  <2>5. run' \in [Requests -> RunRow]
    BY <2>1, <2>4 DEF StartCommit
  <2>6. conv' \in [Requests -> [state : Retention, writers : SUBSET Requests]]
    BY <1>4 DEF StartCommit, Retention
  <2>7. idem' \in [Keys -> [run : Requests \cup {None}, text : Texts, conv : Requests \cup {None}]]
    BY <2>1 DEF IInv, TypeOK, StartCommit, Handler
  <2>8. faults' \in 0 .. MaxFaults /\ readable' = readable
    BY QuestionAssumption DEF IInv, TypeOK, StartCommit, Fault
  <2> QED BY <1>2, <2>3, <2>5, <2>6, <2>7, <2>8 DEF IInv, TypeOK, Handler, RunRow
<1>7. RequestInv'
  <2> SUFFICES ASSUME NEW x \in Requests PROVE RequestInv!(x)'
    BY DEF RequestInv
  <2>1. CASE x # r
    BY <1>2, <2>1 DEF IInv, RequestInv, At
  <2>2. CASE x = r
    BY <1>1, <1>2, <2>2 DEF IInv, RequestInv, At, Before, During
  <2> QED BY <2>1, <2>2
<1>8. OutcomeInv'
  BY <1>1, <1>2 DEF IInv, OutcomeInv, At
<1>9. ConvInv'
  <2>1. \A x \in Requests : h'[x].conv = h[x].conv /\ h[x].conv \in Requests \cup {None}
    BY <1>2 DEF IInv, TypeOK
  <2>2. \A c \in Requests : conv[c].state # "NONE" => conv'[c].state # "NONE"
    BY <1>3, <1>4
  <2>3. \A c \in Requests : conv'[c].state # "NONE" => run'[c].status # "NONE" /\ h[c].conv = None
    BY <1>1, <1>2, <1>4 DEF IInv, ConvInv
  <2> QED BY <2>1, <2>2, <2>3 DEF IInv, ConvInv
<1>10. PurgeInv'
  <2>1. \A c \in Requests : Runs(c) \subseteq Runs(c)'
    BY <1>1, <1>2, <1>5 DEF Runs
  <2>2. \A x \in Requests : Writing(x)' => Writing(x)
    BY <1>1, <1>2 DEF Writing, During
  <2>3. \A c \in Requests :
          /\ conv[c].state \in {"PURGING", "PURGED"} \/ conv'[c].state \in {"PURGING", "PURGED"}
             => conv'[c].state = conv[c].state /\ conv'[c].writers = conv[c].writers
    BY <1>3, <1>4
  <2> QED BY <1>2, <1>5, <2>1, <2>2, <2>3 DEF IInv, PurgeInv, PurgerAt
<1>11. AuditMatches'
  <2>1. audit[r].completed = 0 /\ audit[r].failed # 1
    BY <1>1 DEF IInv, OutcomeInv, AuditMatches
  <2> QED BY <1>1, <1>2, <2>1 DEF IInv, AuditMatches, Answered
<1>12. StrandedOnlyByLoss'
  BY <1>1, <1>2 DEF IInv, StrandedOnlyByLoss, At
<1>13. LeftByWriters'
  <2>1. conv[ConvOf(r)].state = "PURGED" => r \in conv[ConvOf(r)].writers
    BY <1>1 DEF IInv, PurgeInv, Writing
  <2> QED BY <1>2, <1>4, <1>5, <2>1 DEF IInv, LeftByWriters
<1> QED BY <1>6, <1>7, <1>8, <1>9, <1>10, <1>11, <1>12, <1>13, StartTurns, StartKeys DEF IInv

-----------------------------------------------------------------------------
(* The world and the purge.                                                *)

ConvRow == [state : Retention, writers : SUBSET Requests]
ReqRow  == [status : {"NONE", "PENDING", "RUNNING", "SUCCEEDED", "DEAD"},
            attempts : 0 .. MaxAttempts, lapsed : BOOLEAN]
Purger  == [step : PurgeSteps, conv : Requests \cup {None}, attempt : 0 .. MaxAttempts,
            runs : SUBSET Requests, erased : SUBSET (Requests \X Artifacts)]

LEMMA PurgeTyped ==
    IInv => /\ conv \in [Requests -> ConvRow] /\ req \in [Requests -> ReqRow]
            /\ pg \in [Purgers -> Purger]
  BY DEF IInv, TypeOK, ConvRow, ReqRow, Purger

LEMMA PurgeType ==
    ASSUME TypeOK, run' \in [Requests -> RunRow], conv' \in [Requests -> ConvRow],
           req' \in [Requests -> ReqRow], pg' \in [Purgers -> Purger],
           faults' \in 0 .. MaxFaults, UNCHANGED <<h, idem, audit, readable, member>>
    PROVE  TypeOK'
  BY DEF TypeOK, RunRow, ConvRow, ReqRow, Purger

\* A step that leaves requests, keys and conversations alone can only disturb
\* what is known of the purge; losing a member excuses more than it forbids.
LEMMA QuietInd ==
    ASSUME IInv, TypeOK', PurgeInv', UNCHANGED <<h, store>>, member' => member
    PROVE  IInv'
<1>1. UNCHANGED <<h, run, idem, conv, audit>>
  BY DEF store
<1>2. RequestInv' /\ KeyInv' /\ ConvInv'
  BY <1>1 DEF IInv, RequestInv, KeyInv, ConvInv, At
<1>3. OutcomeInv'
  BY <1>1 DEF IInv, OutcomeInv, At
<1>4. TurnInv'
  BY <1>1 DEF IInv, TurnInv, Runs, LastTurn, ConvOf, At
<1>5. ReplaySame' /\ CollisionIsReplay' /\ RepeatConflictsOnlyFollowUp'
  BY <1>1 DEF IInv, ReplaySame, CollisionIsReplay, RepeatConflictsOnlyFollowUp, At
<1>6. AuditMatches'
  BY <1>1 DEF IInv, AuditMatches
<1>7. StrandedOnlyByLoss'
  BY <1>1 DEF IInv, StrandedOnlyByLoss, At
<1>8. LeftByWriters'
  BY <1>1 DEF IInv, LeftByWriters, ConvOf
<1> QED BY <1>2, <1>3, <1>4, <1>5, <1>6, <1>7, <1>8 DEF IInv

\* What the purge does to the store: the artifacts of runs may go, and a
\* conversation that exists may close.
LEMMA PurgeStoreInd ==
    ASSUME IInv, TypeOK', PurgeInv', LeftByWriters', UNCHANGED <<h, idem, audit, member>>,
           \A r \in Requests : /\ run'[r].status = run[r].status /\ run'[r].turn = run[r].turn
                               /\ run'[r].live \subseteq run[r].live
                               /\ conv'[r].state = "NONE" <=> conv[r].state = "NONE"
    PROVE  IInv'
<1>1. RequestInv' /\ KeyInv' /\ ConvInv'
  <2>1. RequestInv'
    BY DEF IInv, RequestInv, At
  <2>2. \A k \in Keys : idem[k].run \in Requests \cup {None}
    BY DEF IInv, TypeOK
  <2>3. KeyInv'
    BY <2>2 DEF IInv, KeyInv, At
  <2>4. \A r \in Requests : h[r].conv \in Requests \cup {None}
    BY DEF IInv, TypeOK
  <2> QED BY <2>1, <2>3, <2>4 DEF IInv, ConvInv
<1>2. OutcomeInv'
  BY DEF IInv, OutcomeInv, At
<1>3. TurnInv'
  <2>1. \A r \in Requests : ConvOf(r)' = ConvOf(r) /\ ConvOf(r) \in Requests
    BY DEF ConvOf, IInv, TypeOK
  <2>2. \A c \in Requests : Runs(c)' = Runs(c) /\ Runs(c) \subseteq Requests
    BY <2>1 DEF Runs
  <2>3. \A c \in Requests : LastTurn(c)' = LastTurn(c)
    BY <2>2 DEF LastTurn
  <2>4. ASSUME NEW r \in Requests, At(r, "STARTING"), NEW x \in Runs(ConvOf(r))
        PROVE  run'[x].turn < h[r].turn
    BY <2>1, <2>2, <2>4 DEF IInv, TurnInv
  <2> QED BY <2>1, <2>2, <2>3, <2>4 DEF IInv, TurnInv, At
<1>4. ReplaySame' /\ CollisionIsReplay' /\ RepeatConflictsOnlyFollowUp'
  BY DEF IInv, ReplaySame, CollisionIsReplay, RepeatConflictsOnlyFollowUp, At
<1>5. AuditMatches' /\ StrandedOnlyByLoss'
  BY DEF IInv, AuditMatches, StrandedOnlyByLoss, At
<1> QED BY <1>1, <1>2, <1>3, <1>4, <1>5 DEF IInv

LEMMA WorldInd ==
    ASSUME IInv, (\E f \in Fragments : Revoke(f)) \/ RemoveMember
    PROVE  IInv'
<1>1. UNCHANGED <<h, store, purging, faults>> /\ (member' => member)
  BY DEF Revoke, RemoveMember
<1>2. readable' \subseteq Fragments /\ member' \in BOOLEAN
  BY DEF Revoke, RemoveMember, IInv, TypeOK
<1>3. TypeOK'
  BY <1>1, <1>2 DEF IInv, TypeOK, store, purging
<1>4. PurgeInv'
  BY <1>1 DEF IInv, PurgeInv, PurgerAt, Runs, ConvOf, Writing, store, purging
<1> QED BY <1>1, <1>3, <1>4, QuietInd

\* A step of the purge that moves q, or nobody, and not to an open cleanup.
LEMMA PurgerInd ==
    ASSUME IInv, UNCHANGED <<h, store, readable, member>>, faults' \in 0 .. MaxFaults,
           req' \in [Requests -> ReqRow], pg' \in [Purgers -> Purger],
           \A c \in Requests : Waits(req'[c]),
           \A q \in Purgers :
              \/ pg'[q] = pg[q]
              \/ /\ pg'[q].step # "IDLE" => pg'[q].conv \in Requests
                 /\ pg'[q].step # "ERASED"
                 /\ pg'[q].step = "CLEAN" => conv[pg'[q].conv].state \in {"PURGING", "PURGED"}
    PROVE  IInv'
<1>1. TypeOK'
  BY RunTyped, PurgeTyped, PurgeType DEF IInv, store
<1>2. UNCHANGED <<h, run, conv>>
  BY DEF store
<1>3. /\ \A r \in Requests : ConvOf(r)' = ConvOf(r) /\ (Writing(r)' <=> Writing(r))
      /\ \A c \in Requests : Runs(c)' = Runs(c)
  BY <1>2 DEF Runs, ConvOf, Writing
<1>4. PurgeInv'
  BY <1>2, <1>3 DEF IInv, PurgeInv, PurgerAt
<1> QED BY <1>1, <1>4, QuietInd

\* The budget: a request waits only while it has attempts left.
LEMMA Budget ==
    ASSUME IInv, NEW c \in Requests
    PROVE  /\ req[c].attempts \in 0 .. MaxAttempts
           /\ req[c].status = "PENDING" => req[c].attempts + 1 \in 0 .. MaxAttempts
           /\ AfterLoss(c) =>
                 /\ req' \in [Requests -> ReqRow]
                 /\ \A d \in Requests : Waits(req'[d])
<1>1. req \in [Requests -> ReqRow]
  BY PurgeTyped
<1>2. req[c].attempts \in 0 .. MaxAttempts
  BY <1>1 DEF ReqRow
<1>3. \A d \in Requests : Waits(req[d])
  BY DEF IInv, PurgeInv
<1>4. req[c].status = "PENDING" => req[c].attempts + 1 \in 0 .. MaxAttempts
  BY <1>2, <1>3, QuestionAssumption DEF Waits
<1> QED BY <1>1, <1>2, <1>3, <1>4 DEF AfterLoss, ReqRow, Waits

LEMMA EnqueueClaimInd ==
    ASSUME IInv, NEW c \in Requests,
           EnqueuePurge(c) \/ Lapse(c) \/ (\E q \in Purgers : Claim(q, c) \/ Reclaim(q, c))
    PROVE  IInv'
<1>1. /\ req \in [Requests -> ReqRow] /\ pg \in [Purgers -> Purger] /\ faults \in 0 .. MaxFaults
      /\ \A d \in Requests : Waits(req[d])
  BY PurgeTyped DEF IInv, TypeOK, PurgeInv
<1>2. CASE EnqueuePurge(c)
  <2>1. req' \in [Requests -> ReqRow]
    BY <1>1, <1>2 DEF EnqueuePurge, ReqRow
  <2>2. \A d \in Requests : Waits(req'[d])
    <3>1. req[c].attempts = 0
      BY <1>1, <1>2 DEF EnqueuePurge, Waits
    <3> QED BY <1>1, <1>2, <3>1, QuestionAssumption DEF EnqueuePurge, Waits, ReqRow
  <2> QED BY <1>1, <1>2, <2>1, <2>2, PurgerInd DEF EnqueuePurge
<1>3. CASE Lapse(c)
  <2>1. faults' \in 0 .. MaxFaults
    BY <1>1, <1>3, QuestionAssumption DEF Lapse, Fault
  <2>2. req' \in [Requests -> ReqRow]
    BY <1>1, <1>3 DEF Lapse, ReqRow
  <2>3. \A d \in Requests : Waits(req'[d])
    BY <1>1, <1>3 DEF Lapse, ReqRow, Waits
  <2> QED BY <1>1, <1>3, <2>1, <2>2, <2>3, PurgerInd DEF Lapse
<1>4. ASSUME NEW q \in Purgers, Claim(q, c)
      PROVE  IInv'
  <2>1. req' \in [Requests -> ReqRow]
    BY <1>1, <1>4, Budget DEF Claim, ReqRow
  <2>2. \A d \in Requests : Waits(req'[d])
    BY <1>1, <1>4 DEF Claim, ReqRow, Waits
  <2> DEFINE v == [IdlePurger EXCEPT !.step = "CLAIMED", !.conv = c,
                                     !.attempt = req[c].attempts + 1]
  <2>3. v \in Purger /\ v.step = "CLAIMED" /\ v.conv = c
    BY <1>4, Budget DEF Claim, IdlePurger, Purger, PurgeSteps
  <2>4. pg' = [pg EXCEPT ![q] = v]
    BY <1>4 DEF Claim
  <2> HIDE DEF v
  <2>5. pg' \in [Purgers -> Purger]
    BY <1>1, <2>3, <2>4
  <2>6. /\ \A p \in Purgers : p # q => pg'[p] = pg[p]
        /\ pg'[q].step = "CLAIMED" /\ pg'[q].conv = c
    BY <1>1, <2>3, <2>4
  <2> QED BY <1>1, <1>4, <2>1, <2>2, <2>5, <2>6, PurgerInd DEF Claim
<1>5. ASSUME NEW q \in Purgers, Reclaim(q, c)
      PROVE  IInv'
  BY <1>1, <1>5, Budget, PurgerInd DEF Reclaim
<1> QED BY <1>2, <1>3, <1>4, <1>5

\* A purger that moves without touching the store.
LEMMA PurgerToInd ==
    ASSUME IInv, NEW q \in Purgers, ~PurgerAt(q, "IDLE"),
           NEW s \in {"BEGIN", "CLEAN", "COMPLETE", "FAIL"}, PurgerTo(q, s),
           s = "CLEAN" => conv[pg[q].conv].state \in {"PURGING", "PURGED"},
           UNCHANGED <<h, store, readable, member, req>>, faults' \in 0 .. MaxFaults
    PROVE  IInv'
<1>1. /\ req \in [Requests -> ReqRow] /\ pg \in [Purgers -> Purger] /\ pg[q] \in Purger
      /\ \A d \in Requests : Waits(req[d])
      /\ pg[q].conv \in Requests
  BY PurgeTyped DEF IInv, PurgeInv
<1>2. [pg[q] EXCEPT !.step = s] \in Purger
  BY <1>1 DEF Purger, PurgeSteps
<1>3. pg' \in [Purgers -> Purger]
  BY <1>1, <1>2 DEF PurgerTo
<1>4. /\ \A p \in Purgers : p # q => pg'[p] = pg[p]
      /\ pg'[q].step = s /\ pg'[q].conv = pg[q].conv
  BY <1>1 DEF PurgerTo, Purger
<1> QED BY <1>1, <1>3, <1>4, PurgerInd

LEMMA ReadStateInd ==
    ASSUME IInv, NEW q \in Purgers, ReadState(q)
    PROVE  IInv'
<1>1. ~PurgerAt(q, "IDLE") /\ faults' \in 0 .. MaxFaults
  BY DEF ReadState, PurgerAt, IInv, TypeOK
<1>2. CASE conv[pg[q].conv].state = "ACTIVE"
  BY <1>1, <1>2, PurgerToInd DEF ReadState
<1>3. CASE conv[pg[q].conv].state = "PURGING"
  BY <1>1, <1>3, PurgerToInd DEF ReadState
<1>4. CASE conv[pg[q].conv].state \notin {"ACTIVE", "PURGING"}
  BY <1>1, <1>4, PurgerToInd DEF ReadState
<1> QED BY <1>2, <1>3, <1>4

\* The end of an attempt, whatever becomes of its request.
LEMMA ExitInd ==
    ASSUME IInv, NEW q \in Purgers, CompleteRequest(q) \/ FailRequest(q) \/ CrashPurger(q)
    PROVE  IInv'
<1>1. /\ req \in [Requests -> ReqRow] /\ pg \in [Purgers -> Purger]
      /\ \A d \in Requests : Waits(req[d])
      /\ pg[q].conv \in Requests
  BY PurgeTyped DEF IInv, PurgeInv, CompleteRequest, FailRequest, CrashPurger, PurgerAt
<1>2. /\ Exit(q) /\ UNCHANGED <<h, store, readable, member>> /\ faults' \in 0 .. MaxFaults
  BY QuestionAssumption DEF CompleteRequest, FailRequest, CrashPurger, Fault, IInv, TypeOK
<1>3. IdlePurger \in Purger
  BY QuestionAssumption DEF IdlePurger, Purger, PurgeSteps
<1>4. /\ pg' \in [Purgers -> Purger] /\ \A p \in Purgers : p # q => pg'[p] = pg[p]
      /\ pg'[q].step = "IDLE"
  BY <1>1, <1>2, <1>3 DEF Exit, IdlePurger
<1>5. /\ req' \in [Requests -> ReqRow]
      /\ \A d \in Requests : Waits(req'[d])
  <2>1. CASE req' = req
    BY <1>1, <2>1
  <2>2. CASE AfterLoss(pg[q].conv)
    BY <1>1, <2>2, Budget
  <2>3. CASE req' = [req EXCEPT ![pg[q].conv].status = "SUCCEEDED"]
    BY <1>1, <2>3 DEF ReqRow, Waits
  <2> QED BY <2>1, <2>2, <2>3 DEF CompleteRequest, FailRequest, CrashPurger
<1> QED BY <1>2, <1>4, <1>5, PurgerInd

LEMMA PurgeErrorInd ==
    ASSUME IInv, NEW q \in Purgers, PurgeError(q)
    PROVE  IInv'
<1>1. ~PurgerAt(q, "IDLE") /\ faults' \in 0 .. MaxFaults
  BY QuestionAssumption DEF PurgeError, PurgerAt, Fault, IInv, TypeOK
<1> QED BY <1>1, PurgerToInd DEF PurgeError

\* conversation_begin_purge closes an ACTIVE conversation: no cleanup of it is
\* open, and nothing of it is erased yet.
LEMMA BeginInd ==
    ASSUME IInv, NEW q \in Purgers, Begin(q)
    PROVE  IInv'
<1> DEFINE c == pg[q].conv
<1>1. /\ PurgerAt(q, "BEGIN") /\ c \in Requests /\ faults' \in 0 .. MaxFaults
      /\ UNCHANGED <<h, idem, audit, readable, member, req>>
  BY QuestionAssumption DEF Begin, Fault, IInv, TypeOK, PurgeInv, PurgerAt
<1>2. CASE conv[c].state # "ACTIVE"
  BY <1>1, <1>2, PurgerToInd DEF Begin, PurgerAt, store
<1>3. CASE conv[c].state = "ACTIVE"
  <2> HIDE DEF c
  <2>1. /\ conv' = [conv EXCEPT ![c].state = "PURGING"]
        /\ run' = [r \in Requests |->
                      IF r \in Runs(c) /\ run[r].kept = "ACTIVE"
                      THEN [run[r] EXCEPT !.kept = "PURGING"] ELSE run[r]]
        /\ PurgerTo(q, "CLEAN") \/ PurgerTo(q, "FAIL")
    BY <1>3 DEF Begin, c
  <2>2. /\ conv \in [Requests -> ConvRow] /\ run \in [Requests -> RunRow]
        /\ pg \in [Purgers -> Purger] /\ req \in [Requests -> ReqRow] /\ pg[q] \in Purger
    BY PurgeTyped, RunTyped
  <2>3. /\ conv' \in [Requests -> ConvRow]
        /\ conv'[c].state = "PURGING" /\ \A d \in Requests \ {c} : conv'[d] = conv[d]
    BY <1>1, <2>1, <2>2 DEF ConvRow, Retention
  <2>4. /\ run' \in [Requests -> RunRow]
        /\ \A r \in Requests : /\ run'[r].status = run[r].status /\ run'[r].turn = run[r].turn
                               /\ run'[r].live = run[r].live
    <3>1. \A r \in Requests : run[r] \in RunRow /\ [run[r] EXCEPT !.kept = "PURGING"] \in RunRow
      BY <2>2 DEF RunRow, Retention
    <3>2. \A r \in Requests : run'[r] = run[r] \/ run'[r] = [run[r] EXCEPT !.kept = "PURGING"]
      BY <2>1
    <3> QED BY <2>1, <3>1, <3>2 DEF RunRow
  <2>5. PICK s \in {"CLEAN", "FAIL"} : pg' = [pg EXCEPT ![q].step = s]
    BY <2>1 DEF PurgerTo
  <2>6. /\ \A p \in Purgers \ {q} : pg'[p] = pg[p]
        /\ pg'[q].step = s /\ pg'[q].conv = c
    BY <2>2, <2>5 DEF Purger, c
  <2>7. pg' \in [Purgers -> Purger]
    <3>1. [pg[q] EXCEPT !.step = s] \in Purger
      BY <2>2 DEF Purger, PurgeSteps
    <3> QED BY <2>2, <2>5, <3>1
  <2>8. TypeOK'
    BY <1>1, <2>2, <2>3, <2>4, <2>7, PurgeType DEF IInv
  <2>9. /\ \A r \in Requests : ConvOf(r)' = ConvOf(r) /\ (Writing(r)' <=> Writing(r))
        /\ \A r \in Requests : ConvOf(r) \in Requests
    BY <1>1 DEF ConvOf, Writing, IInv, TypeOK
  <2>10. \A d \in Requests : Runs(d)' = Runs(d)
    BY <2>4, <2>9 DEF Runs
  <2>11. PurgeInv'
    BY <1>1, <1>3, <2>3, <2>6, <2>9, <2>10 DEF IInv, PurgeInv, PurgerAt
  <2>12. LeftByWriters'
    BY <1>3, <2>3, <2>4, <2>9 DEF IInv, LeftByWriters
  <2>13. \A d \in Requests : conv'[d].state = "NONE" <=> conv[d].state = "NONE"
    BY <1>3, <2>3
  <2> QED BY <1>1, <2>4, <2>8, <2>11, <2>12, <2>13, PurgeStoreInd
<1> QED BY <1>2, <1>3

\* The cleanup locks the retention row, so that it is the only one open on
\* its conversation.
LEMMA CleanupOpenInd ==
    ASSUME IInv, NEW q \in Purgers, CleanupOpen(q)
    PROVE  IInv'
<1> DEFINE c == pg[q].conv
<1>1. /\ PurgerAt(q, "CLEAN") /\ c \in Requests /\ faults' \in 0 .. MaxFaults
      /\ UNCHANGED <<h, store, readable, member, req>> /\ ~RetentionLocked(c)
      /\ conv[c].state \in {"PURGING", "PURGED"}
  BY DEF CleanupOpen, IInv, TypeOK, PurgeInv, PurgerAt
<1>2. CASE conv[c].state = "PURGED"
  BY <1>1, <1>2, PurgerToInd DEF CleanupOpen, PurgerAt
<1>3. CASE conv[c].state = "PURGING"
  <2> HIDE DEF c
  <2>1. pg' = [pg EXCEPT ![q].step = "ERASED", ![q].erased = Owned(c), ![q].runs = Runs(c)]
    BY <1>3 DEF CleanupOpen, c
  <2>2. /\ conv \in [Requests -> ConvRow] /\ run \in [Requests -> RunRow]
        /\ pg \in [Purgers -> Purger] /\ req \in [Requests -> ReqRow] /\ pg[q] \in Purger
    BY PurgeTyped, RunTyped
  <2>3. /\ \A p \in Purgers \ {q} : pg'[p] = pg[p]
        /\ pg'[q].step = "ERASED" /\ pg'[q].conv = c /\ pg'[q].runs = Runs(c)
        /\ pg'[q].erased = Owned(c)
    BY <2>1, <2>2 DEF Purger, c
  <2>4. Runs(c) \subseteq Requests /\ Owned(c) \subseteq Runs(c) \X Artifacts
    BY DEF Runs, Owned
  <2>5. pg' \in [Purgers -> Purger]
    <3>1. [pg[q] EXCEPT !.step = "ERASED", !.erased = Owned(c), !.runs = Runs(c)] \in Purger
      <4>1. Owned(c) \in SUBSET (Requests \X Artifacts)
        BY <2>4
      <4> QED BY <2>2, <2>4, <4>1 DEF Purger, PurgeSteps
    <3> QED BY <2>1, <2>2, <3>1
  <2>6. UNCHANGED <<h, run, conv, idem, audit>>
    BY <1>1 DEF store
  <2>7. TypeOK'
    BY <1>1, <2>2, <2>5, <2>6, PurgeType DEF IInv
  <2>8. /\ \A r \in Requests : ConvOf(r)' = ConvOf(r) /\ (Writing(r)' <=> Writing(r))
        /\ \A d \in Requests : Runs(d)' = Runs(d)
    BY <2>6 DEF Runs, ConvOf, Writing
  <2>9. \A p \in Purgers \ {q} : PurgerAt(p, "ERASED") => pg[p].conv # c
    BY <1>1 DEF RetentionLocked
  <2>10. PurgeInv!1' /\ PurgeInv!4'
    BY <1>1, <2>6, <2>8 DEF IInv, PurgeInv
  <2>11. ASSUME NEW p \in Purgers
         PROVE  PurgeInv!2!(p)'
    <3>1. CASE p = q
      BY <1>1, <1>3, <2>3, <2>4, <2>6, <2>8, <3>1 DEF PurgerAt
    <3>2. CASE p # q
      <4>1. pg'[p] = pg[p]
        BY <2>3, <3>2
      <4> QED BY <2>6, <2>8, <4>1 DEF IInv, PurgeInv, PurgerAt
    <3> QED BY <3>1, <3>2
  <2>12. PurgeInv!3'
    BY <2>3, <2>9 DEF IInv, PurgeInv, PurgerAt
  <2>13. PurgeInv'
    BY <2>10, <2>11, <2>12 DEF PurgeInv
  <2> QED BY <1>1, <2>7, <2>13, QuietInd
<1> QED BY <1>1, <1>2, <1>3

\* The commit erases every artifact of the conversation, or ends the attempt:
\* what is owned in the fresh snapshot was seen when the cleanup looked.
LEMMA CleanupCommitInd ==
    ASSUME IInv, NEW q \in Purgers, CleanupCommit(q)
    PROVE  IInv'
<1> DEFINE c == pg[q].conv
<1>1. /\ PurgerAt(q, "ERASED") /\ c \in Requests /\ faults' \in 0 .. MaxFaults
      /\ UNCHANGED <<h, idem, audit, readable, member, req>>
  <2>1. PurgerAt(q, "ERASED") /\ UNCHANGED <<h, idem, audit, readable, member, req>>
    BY DEF CleanupCommit
  <2>2. c \in Requests
    BY <2>1 DEF IInv, PurgeInv, PurgerAt
  <2>3. faults' = faults \/ Fault
    BY DEF CleanupCommit
  <2>4. faults' \in 0 .. MaxFaults
    BY <2>3, QuestionAssumption DEF Fault, IInv, TypeOK
  <2> QED BY <2>1, <2>2, <2>4
<1>2. CASE ~(Owned(c) \subseteq pg[q].erased)
  BY <1>1, <1>2, PurgerToInd DEF CleanupCommit, PurgerAt, store
<1>3. CASE Owned(c) \subseteq pg[q].erased
  <2>1. /\ conv' = [conv EXCEPT ![c].state = "PURGED", ![c].writers = Writers(c)]
        /\ run' = [r \in Requests |->
                      IF r \in pg[q].runs
                      THEN [run[r] EXCEPT !.kept = "PURGED",
                                          !.live = {a \in @ : <<r, a>> \notin pg[q].erased}]
                      ELSE run[r]]
        /\ PurgerTo(q, "COMPLETE") \/ PurgerTo(q, "FAIL")
    BY <1>3 DEF CleanupCommit
  <2>2. /\ conv \in [Requests -> ConvRow] /\ run \in [Requests -> RunRow]
        /\ pg \in [Purgers -> Purger] /\ req \in [Requests -> ReqRow] /\ pg[q] \in Purger
    BY PurgeTyped, RunTyped
  <2>3. /\ conv[c].state = "PURGING" /\ pg[q].runs \subseteq Runs(c)
        /\ pg[q].erased \subseteq pg[q].runs \X Artifacts
        /\ \A p \in Purgers \ {q} : PurgerAt(p, "ERASED") => pg[p].conv # c
    BY <1>1 DEF IInv, PurgeInv
  <2> HIDE DEF c
  <2>4. /\ conv' \in [Requests -> ConvRow] /\ conv'[c].state = "PURGED"
        /\ conv'[c].writers = Writers(c) /\ \A d \in Requests \ {c} : conv'[d] = conv[d]
    <3>1. Writers(c) \subseteq Requests /\ conv[c] \in ConvRow
      BY <1>1, <2>2 DEF Writers
    <3>2. [conv[c] EXCEPT !.state = "PURGED", !.writers = Writers(c)] \in ConvRow
      BY <3>1 DEF ConvRow, Retention
    <3>3. conv' = [conv EXCEPT ![c] = [conv[c] EXCEPT !.state = "PURGED", !.writers = Writers(c)]]
      BY <1>1, <2>1, <2>2
    <3> QED BY <1>1, <2>2, <3>1, <3>2, <3>3 DEF ConvRow
  <2>5. /\ run' \in [Requests -> RunRow]
        /\ \A r \in Requests : /\ run'[r].status = run[r].status /\ run'[r].turn = run[r].turn
                               /\ run'[r].live \subseteq run[r].live
                               /\ r \in pg[q].runs =>
                                     run'[r].live = {a \in run[r].live : <<r, a>> \notin pg[q].erased}
    <3>1. ASSUME NEW r \in Requests, r \in pg[q].runs
          PROVE  /\ run'[r] \in RunRow
                 /\ run'[r].status = run[r].status /\ run'[r].turn = run[r].turn
                 /\ run'[r].live = {a \in run[r].live : <<r, a>> \notin pg[q].erased}
      <4>1. run'[r] = [run[r] EXCEPT !.kept = "PURGED",
                                     !.live = {a \in run[r].live : <<r, a>> \notin pg[q].erased}]
        BY <2>1, <3>1
      <4>2. run[r] \in RunRow
        BY <2>2
      <4> QED BY <4>1, <4>2 DEF RunRow, Retention
    <3>2. ASSUME NEW r \in Requests, r \notin pg[q].runs
          PROVE  run'[r] = run[r]
      BY <2>1, <3>2
    <3>3. \A r \in Requests : run'[r] \in RunRow
      BY <2>2, <3>1, <3>2
    <3> QED BY <2>1, <3>1, <3>2, <3>3
  <2>6. PICK s \in {"COMPLETE", "FAIL"} : pg' = [pg EXCEPT ![q].step = s]
    BY <2>1 DEF PurgerTo
  <2>7. /\ \A p \in Purgers \ {q} : pg'[p] = pg[p]
        /\ pg'[q].step = s /\ pg'[q].conv = c
    BY <2>2, <2>6 DEF Purger, c
  <2>8. pg' \in [Purgers -> Purger]
    <3>1. [pg[q] EXCEPT !.step = s] \in Purger
      BY <2>2 DEF Purger, PurgeSteps
    <3> QED BY <2>2, <2>6, <3>1
  <2>9. TypeOK'
    BY <1>1, <2>2, <2>4, <2>5, <2>8, PurgeType DEF IInv
  <2>10. /\ \A r \in Requests : ConvOf(r)' = ConvOf(r) /\ (Writing(r)' <=> Writing(r))
         /\ \A r \in Requests : ConvOf(r) \in Requests
    BY <1>1 DEF ConvOf, Writing, IInv, TypeOK
  <2>11. \A d \in Requests : Runs(d)' = Runs(d)
    BY <2>5, <2>10 DEF Runs
  <2>12. PurgeInv'
    BY <1>1, <2>3, <2>4, <2>7, <2>10, <2>11 DEF IInv, PurgeInv, PurgerAt, Writers
  <2>13. ASSUME NEW r \in Requests, ConvOf(r) = c
         PROVE  run'[r].live = {}
    <3>1. CASE run[r].status = "NONE"
      BY <2>5, <3>1 DEF IInv, OutcomeInv
    <3>2. CASE run[r].status # "NONE"
      <4>1. \A a \in run[r].live : a \in Artifacts /\ <<r, a>> \in Owned(c)
        BY <2>2, <2>13, <3>2 DEF Owned, Runs, RunRow
      <4>2. \A a \in run[r].live : <<r, a>> \in pg[q].erased /\ r \in pg[q].runs
        BY <1>3, <2>3, <4>1
      <4> QED BY <2>5, <4>2
    <3> QED BY <3>1, <3>2
  <2>14. LeftByWriters'
    BY <2>4, <2>5, <2>10, <2>13 DEF IInv, LeftByWriters
  <2>15. \A d \in Requests : conv'[d].state = "NONE" <=> conv[d].state = "NONE"
    BY <2>3, <2>4
  <2> QED BY <1>1, <2>5, <2>9, <2>12, <2>14, <2>15, PurgeStoreInd
<1> QED BY <1>2, <1>3

-----------------------------------------------------------------------------
(* The invariant, and what it gives.                                       *)

\* The conversations of Old each have one answered run.
LEMMA InitInv ==
    Init => IInv
<1> SUFFICES ASSUME Init PROVE IInv
  OBVIOUS
<1>1. TypeOK
  <2>1. h \in [Requests -> Handler]
    <3>1. IdleHandler \in Handler
      BY DEF IdleHandler, Handler, Steps, Texts
    <3>2. \A r \in Requests :
            [IdleHandler EXCEPT !.step = "DONE", !.out = "RUN", !.got = r] \in Handler
      BY <3>1 DEF Handler, Steps
    <3> QED BY <3>1, <3>2 DEF Init
  <2>2. run \in [Requests -> RunRow]
    BY DEF Init, RunRow, Retention, Artifacts, Answered
  <2>3. conv \in [Requests -> ConvRow] /\ req \in [Requests -> ReqRow] /\ pg \in [Purgers -> Purger]
    <3>1. conv \in [Requests -> ConvRow]
      <4>1. \A c \in Requests : [state |-> IF c \in Old THEN "ACTIVE" ELSE "NONE", writers |-> {}] \in ConvRow
        BY DEF ConvRow, Retention
      <4> QED BY <4>1 DEF Init
    <3>2. 0 \in 0 .. MaxAttempts
      BY QuestionAssumption
    <3>3. req \in [Requests -> ReqRow]
      BY <3>2 DEF Init, ReqRow
    <3>4. IdlePurger \in Purger
      BY <3>2 DEF IdlePurger, Purger, PurgeSteps
    <3>5. pg \in [Purgers -> Purger]
      BY <3>4 DEF Init
    <3> QED BY <3>1, <3>3, <3>5
  <2>4. /\ idem \in [Keys -> [run : Requests \cup {None}, text : Texts, conv : Requests \cup {None}]]
        /\ audit \in [Requests -> [completed : 0 .. 2, failed : 0 .. 2]]
        /\ readable \subseteq Fragments /\ faults \in 0 .. MaxFaults
    <3>1. idem \in [Keys -> [run : Requests \cup {None}, text : Texts, conv : Requests \cup {None}]]
      BY DEF Init, Texts
    <3>2. \A r \in Requests : [completed |-> IF r \in Old THEN 1 ELSE 0, failed |-> 0]
                                \in [completed : 0 .. 2, failed : 0 .. 2]
      OBVIOUS
    <3>3. audit \in [Requests -> [completed : 0 .. 2, failed : 0 .. 2]]
      BY <3>2 DEF Init
    <3>4. readable = Fragments /\ faults = 0
      BY DEF Init
    <3> QED BY <3>1, <3>3, <3>4, QuestionAssumption
  <2>5. member \in BOOLEAN
    BY DEF Init
  <2> QED BY <2>1, <2>2, <2>3, <2>4, <2>5 DEF TypeOK, Handler, RunRow, ConvRow, ReqRow, Purger
<1>2. \A r \in Requests :
        /\ h[r].conv = None /\ h[r].text = "Q" /\ h[r].asked = "Q"
        /\ r \in Old => /\ h[r].step = "DONE" /\ h[r].out = "RUN" /\ run[r].status = "COMPLETED"
                        /\ run[r].turn = 1 /\ audit[r].completed = 1 /\ conv[r].state = "ACTIVE"
        /\ r \notin Old => /\ h[r].step = "IDLE" /\ h[r].out = "NONE" /\ run[r].status = "NONE"
                           /\ run[r].live = {} /\ audit[r].completed = 0 /\ conv[r].state = "NONE"
        /\ audit[r].failed = 0
  BY DEF Init, IdleHandler
<1>3. /\ \A k \in Keys : idem[k].run = None
      /\ \A c \in Requests : req[c].status = "NONE" /\ req[c].attempts = 0
      /\ \A q \in Purgers : pg[q].step = "IDLE"
  BY DEF Init, IdlePurger
<1>4. RequestInv /\ KeyInv /\ OutcomeInv /\ ConvInv
  BY <1>2, <1>3 DEF RequestInv, KeyInv, OutcomeInv, ConvInv, At, Before, During
<1>5. TurnInv
  <2>1. \A c \in Requests : Runs(c) = IF c \in Old THEN {c} ELSE {}
    BY <1>2 DEF Runs, ConvOf
  <2>2. \A c \in Requests : Runs(c) # {} => c \in LastTurn(c)
    BY <1>2, <2>1 DEF LastTurn
  <2> QED BY <1>2, <2>2 DEF TurnInv, At
<1>6. PurgeInv
  BY <1>2, <1>3 DEF PurgeInv, Waits, PurgerAt, ConvOf
<1>7. ReplaySame /\ CollisionIsReplay /\ RepeatConflictsOnlyFollowUp
  BY <1>2 DEF ReplaySame, CollisionIsReplay, RepeatConflictsOnlyFollowUp, At
<1>8. AuditMatches /\ StrandedOnlyByLoss /\ LeftByWriters
  BY <1>2 DEF AuditMatches, StrandedOnlyByLoss, LeftByWriters, At, Answered, ConvOf
<1> QED BY <1>1, <1>4, <1>5, <1>6, <1>7, <1>8 DEF IInv

LEMMA NextInv ==
    IInv /\ [Next]_vars => IInv'
<1> SUFFICES ASSUME IInv, [Next]_vars PROVE IInv'
  OBVIOUS
<1>1. ASSUME NEW r \in Requests, NEW k \in Keys, NEW t \in Texts,
             NEW c \in Requests \cup {None}, Submit(r, k, t, c)
      PROVE  IInv'
  BY <1>1, SubmitInd
<1>2. ASSUME NEW r \in Requests, HandlerStep(r)
      PROVE  IInv'
  BY <1>2, MemoryInd, LookupInd, StartOpenInd, StartCommitInd, StartAbortInd, RetrieveInd,
     SnapshotInd, CompleteOpenInd, CompleteCommitInd, CompleteAbortInd, FailInd, GetInd,
     ReadErrorInd DEF HandlerStep
<1>3. ASSUME NEW r \in Requests, Crash(r) \/ EnqueuePurge(r) \/ Lapse(r)
      PROVE  IInv'
  BY <1>3, CrashInd, EnqueueClaimInd
<1>4. CASE (\E f \in Fragments : Revoke(f)) \/ RemoveMember
  BY <1>4, WorldInd
<1>5. ASSUME NEW q \in Purgers, PurgerStep(q) \/ CrashPurger(q)
      PROVE  IInv'
  BY <1>5, EnqueueClaimInd, ReadStateInd, BeginInd, CleanupOpenInd, CleanupCommitInd,
     ExitInd, PurgeErrorInd DEF PurgerStep
<1>6. CASE UNCHANGED vars
  <2>1. UNCHANGED <<h, run, idem, conv, readable, member, audit, req, pg, faults>>
    BY <1>6 DEF vars
  <2>2. TypeOK'
    BY <2>1 DEF IInv, TypeOK
  <2>3. PurgeInv'
    BY <2>1 DEF IInv, PurgeInv, PurgerAt, Runs, ConvOf, Writing
  <2> QED BY <2>1, <2>2, <2>3, QuietInd DEF store
<1> QED BY <1>1, <1>2, <1>3, <1>4, <1>5, <1>6 DEF Next

\* Every state a question and the purge of its conversation can reach.
THEOREM Invariance == Spec => []IInv
  BY InitInv, NextInv, PTL DEF Spec

\* The rows and the handlers stay what they are: the outcome of a run is never
\* recorded three times, and a purge request never claimed past its budget.
THEOREM TypeCorrect == Spec => []TypeOK
<1>1. IInv => TypeOK
  BY DEF IInv
<1> QED BY Invariance, <1>1, PTL

\* lookupIdempotency and the unique key: one key, one run, whoever races.
THEOREM OneKeyOneRun == Spec => []ReplaySame
<1>1. IInv => ReplaySame
  BY DEF IInv
<1> QED BY Invariance, <1>1, PTL

\* The unique violation Create reads as a replay is always on the key.
THEOREM ViolationIsReplay == Spec => []CollisionIsReplay
<1>1. IInv => CollisionIsReplay
  BY DEF IInv
<1> QED BY Invariance, <1>1, PTL

\* requestHash tells a repeated request from another one, but for follow-ups.
THEOREM RepeatIsNoConflict == Spec => []RepeatConflictsOnlyFollowUp
<1>1. IInv => RepeatConflictsOnlyFollowUp
  BY DEF IInv
<1> QED BY Invariance, <1>1, PTL

\* complete and fail record the outcome of a run once, and the one it has.
THEOREM JournalMatches == Spec => []AuditMatches
<1>1. IInv => AuditMatches
  BY DEF IInv
<1> QED BY Invariance, <1>1, PTL

\* Every error of execute ends in fail.
THEOREM FailureClosesRun == Spec => []StrandedOnlyByLoss
<1>1. IInv => StrandedOnlyByLoss
  BY DEF IInv
<1> QED BY Invariance, <1>1, PTL

\* CompleteConversationPurge leaves what a request past the last question about
\* retention writes, and nothing else.
THEOREM PurgeIsComplete == Spec => []LeftByWriters
<1>1. IInv => LeftByWriters
  BY DEF IInv
<1> QED BY Invariance, <1>1, PTL

=============================================================================
