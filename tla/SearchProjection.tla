--------------------------- MODULE SearchProjection ---------------------------
(***************************************************************************)
(* The search projection of one organisation: catalog changes append       *)
(* events to an outbox in their own transaction, workers apply the events  *)
(* in order to an external index (internal/search/applier.go), retention   *)
(* purge erases documents through the same outbox (internal/purge), and an *)
(* operator's change of the embedding profile rebuilds the corpus into a   *)
(* second physical index that is then cut over to                          *)
(* (workercomposition.applySearchProfileRevision, migration 000072).       *)
(*                                                                         *)
(* PostgreSQL transactions are single steps.  A call to the index is a     *)
(* step between transactions; it may time out on the worker and still be   *)
(* carried out later.                                                      *)
(***************************************************************************)
EXTENDS Naturals, Sequences, FiniteSets, FiniteSetsExt

CONSTANTS
    Objects,      \* source objects
    Scopes,       \* scope revisions that may hold an object
    Chunks,       \* chunk ids, in id order
    Workers,      \* worker processes
    Profiles,     \* embedding profiles a deployment may mount
    FirstProfile, \* the profile of revision 1
    Changes,      \* the catalog and operator changes of this instance
    MaxVersions,  \* bound: versions of one object
    MaxEvents,    \* bound: outbox events
    MaxRevisions, \* bound: profile revisions
    MaxLost,      \* bound: index writes that time out on the worker
    MaxCrashes,   \* bound: worker crashes
    PageSize,     \* reindexPageSize
    Slice         \* searchReindexSlice

ASSUME ProjectionAssumption ==
    /\ Chunks \subseteq Nat \ {0} /\ IsFiniteSet(Chunks)
    /\ FirstProfile \in Profiles
    /\ PageSize \in Nat \ {0} /\ Slice \in Nat \ {0}
    /\ MaxVersions \in Nat \ {0} /\ MaxRevisions \in Nat \ {0}
    /\ {MaxEvents, MaxLost, MaxCrashes} \subseteq Nat
    /\ Changes \subseteq
         {"NEW", "REEXTRACT", "ABSENCE", "CUTOVER", "PURGE", "PROFILE"}

Versions  == 1 .. MaxVersions
Revisions == 1 .. MaxRevisions

VARIABLES
    \* public.source_object, source_object_scope, source_version
    lifecycle,  \* [Objects -> lifecycle_state]
    member,     \* [Objects -> [Scopes -> membership_state]]
    current,    \* [Objects -> number of the current version, 0 for none]
    retention,  \* [Objects -> [Versions -> retention state]]
    ext,        \* [Objects -> [Versions -> chunks of the active extraction]]
    \* public.search_chunk
    chunk,      \* [Chunks -> <<object, version>>, or <<>> before its creation]
    missed,     \* history: chunks that a return, a page or a cursor passed over
    \* public.outbox_event
    outbox,     \* sequence of events
    published,  \* outbox_sequence_head.last_published_sequence
    \* public.organization_search_profile, by activation_revision
    revs,
    \* the external index: documents, by physical index of a revision
    index,
    late,       \* writes that timed out on the worker and may still land
    lost,       \* number of them so far
    outrun,     \* history: chunks erased while a write of them was under way
    crashes,
    wk          \* worker processes

listing == <<lifecycle, member, current, retention, ext, chunk>>
catalog == <<listing, missed>>
queue   == <<outbox, published>>
store   == <<index, late, lost, outrun>>
vars    == <<catalog, queue, revs, store, crashes, wk>>

Lifecycles  == {"NONE", "ACTIVE", "MISSING", "DELETED"}
Memberships == {"NONE", "ACTIVE", "MISSING", "REMOVED"}
Steps == {"IDLE", "LOAD", "PUT", "DELETE", "PUBLISH", "PURGED", "MISSING",
          "SUPERSEDED", "FAIL", "PAGE", "REBUILD", "ACTIVATE"}
Events    == [op : {"UPSERT", "DELETE"}, chunk : Chunks]
Documents == [rev : Revisions, chunk : Chunks, scopes : SUBSET Scopes]
NoDoc     == [rev |-> 0, chunk |-> 0, scopes |-> {}]

Fresh(p) == [step |-> "IDLE", mounted |-> p, seq |-> 0, doc |-> NoDoc,
             staged |-> 0, cursor |-> 0, built |-> 0, after |-> 0, page |-> {},
             docs |-> {}, indexed |-> 0, short |-> FALSE]

\* The pass ends and the cursor of its last whole slice is kept, with, as
\* history, the revision it was reached in.
Kept(w) == [Fresh(wk[w].mounted) EXCEPT !.cursor = wk[w].cursor, !.built = wk[w].built]

TypeOK ==
    /\ lifecycle \in [Objects -> Lifecycles]
    /\ member    \in [Objects -> [Scopes -> Memberships]]
    /\ current   \in [Objects -> 0 .. MaxVersions]
    /\ retention \in [Objects -> [Versions -> {"ACTIVE", "PURGING", "PURGED"}]]
    /\ ext       \in [Objects -> [Versions -> SUBSET Chunks]]
    /\ chunk     \in [Chunks -> (Objects \X Versions) \cup {<<>>}]
    /\ outbox    \in Seq(Events) /\ Len(outbox) <= MaxEvents
    /\ published \in 0 .. Len(outbox)
    /\ revs \in Seq([profile : Profiles, status : {"STAGING", "ACTIVE", "SUPERSEDED"}])
    /\ Len(revs) \in Revisions
    /\ index \subseteq Documents
    /\ late  \subseteq Documents
    /\ missed \subseteq Chunks /\ outrun \subseteq Chunks
    /\ lost \in 0 .. MaxLost /\ crashes \in 0 .. MaxCrashes
    /\ wk \in [Workers -> [step : Steps, mounted : Profiles, seq : 0 .. MaxEvents,
                           doc : Documents \cup {NoDoc}, staged : 0 .. MaxRevisions,
                           cursor : Chunks \cup {0}, built : 0 .. MaxRevisions,
                           after : Chunks \cup {0},
                           page : SUBSET Chunks, docs : SUBSET Documents,
                           indexed : 0 .. Slice, short : BOOLEAN]]

Init ==
    /\ lifecycle = [o \in Objects |-> "NONE"]
    /\ member    = [o \in Objects |-> [s \in Scopes |-> "NONE"]]
    /\ current   = [o \in Objects |-> 0]
    /\ retention = [o \in Objects |-> [n \in Versions |-> "ACTIVE"]]
    /\ ext       = [o \in Objects |-> [n \in Versions |-> {}]]
    /\ chunk     = [c \in Chunks |-> <<>>]
    /\ outbox = <<>> /\ published = 0
    /\ revs = <<[profile |-> FirstProfile, status |-> "ACTIVE"]>>
    /\ index = {} /\ late = {} /\ lost = 0 /\ crashes = 0
    /\ missed = {} /\ outrun = {}
    /\ wk = [w \in Workers |-> Fresh(FirstProfile)]

-----------------------------------------------------------------------------
(* The catalog.  Every change below is one transaction of its writer.      *)

ActiveScopes(o) == {s \in Scopes : member[o][s] = "ACTIVE"}

ChunksOf(o, n) == {c \in Chunks : chunk[c] = <<o, n>>}

\* The rows a document or a reference is read from.
Listed(c) ==
    /\ chunk[c] # <<>>
    /\ LET o == chunk[c][1]  n == chunk[c][2]
       IN  lifecycle[o] = "ACTIVE" /\ current[o] = n /\ c \in ext[o][n]

\* loadDocument's admission of a chunk, the profile aside.
Indexable(c) ==
    /\ Listed(c)
    /\ retention[chunk[c][1]][chunk[c][2]] = "ACTIVE"
    /\ ActiveScopes(chunk[c][1]) # {}

\* The members of a set of chunk ids, the smallest first.
InIdOrder(C) == [i \in 1 .. Cardinality(C) |->
                    CHOOSE c \in C : Cardinality({d \in C : d < c}) = i - 1]

\* One event for every chunk of C, in the writer's transaction; the sequence
\* head is locked, so their numbers are the order of the commits.
Enqueue(op, C) ==
    LET order == InIdOrder(C)
    IN  /\ Len(outbox) + Len(order) <= MaxEvents
        /\ outbox' = outbox \o [i \in DOMAIN order |-> [op |-> op, chunk |-> order[i]]]
        /\ UNCHANGED published

\* Chunk rows that do not exist yet, at least one.
Unused(C) == C # {} /\ \A c \in C : chunk[c] = <<>>

Created(C, o, n) == chunk' = [c \in Chunks |-> IF c \in C THEN <<o, n>> ELSE chunk[c]]

\* source_object_observation_publish: closures for good stay closed.
MayObserve(s, o) == lifecycle[o] # "DELETED" /\ member[o][s] # "REMOVED"

Present(s, o) ==
    /\ lifecycle' = [lifecycle EXCEPT ![o] = "ACTIVE"]
    /\ member'    = [member EXCEPT ![o][s] = "ACTIVE"]

\* ingestObject of new bytes: a version, its extraction and its chunks, which
\* supersede the current version and restore the object's presence.
IngestVersion(s, o, C) ==
    LET n == current[o] + 1
    IN  /\ "NEW" \in Changes
        /\ MayObserve(s, o)
        /\ Unused(C) /\ n \in Versions
        /\ Present(s, o)
        /\ current' = [current EXCEPT ![o] = n]
        /\ ext'     = [ext EXCEPT ![o][n] = C]
        /\ Created(C, o, n)
        /\ Enqueue("UPSERT", C)
        /\ UNCHANGED <<retention, missed, revs, store, crashes, wk>>

\* ingestObject of the same bytes under another extraction profile.
Reextract(s, o, C) ==
    LET n == current[o]
    IN  /\ "REEXTRACT" \in Changes
        /\ MayObserve(s, o)
        /\ Unused(C)
        /\ n # 0 /\ retention[o][n] = "ACTIVE"
        /\ Present(s, o)
        /\ ext' = [ext EXCEPT ![o][n] = C]
        /\ Created(C, o, n)
        /\ Enqueue("UPSERT", C)
        /\ UNCHANGED <<current, retention, missed, revs, store, crashes, wk>>

\* Fault: a returned membership emits no event.
ReobservedSilent(s, o) == {}

\* publishObjectPresence queues the chunks again when a MISSING membership
\* of this scope returned.
Reobserved(s, o) ==
    IF member[o][s] = "MISSING" THEN ext[o][current[o]] ELSE {}

\* The object returns through a scope that did not hold it when it went: the
\* membership is fresh, and publishObjectPresence emits nothing for it.
Unannounced(s, o) ==
    IF lifecycle[o] = "MISSING" /\ member[o][s] # "MISSING" THEN ext[o][current[o]] ELSE {}

\* ingestObject of bytes already extracted; only a return is checked against
\* retention and the active extraction.
Reobserve(s, o) ==
    LET n == current[o]
    IN  /\ n # 0 /\ retention[o][n] # "PURGED"
        /\ MayObserve(s, o)
        /\ lifecycle[o] # "ACTIVE" \/ member[o][s] # "ACTIVE"
        /\ "MISSING" \in {lifecycle[o], member[o][s]} => retention[o][n] = "ACTIVE"
        /\ Present(s, o)
        /\ Enqueue("UPSERT", Reobserved(s, o))
        /\ missed' = (missed \cup Unannounced(s, o)) \ Reobserved(s, o)
        /\ UNCHANGED <<current, retention, ext, chunk, revs, store, crashes, wk>>

\* Reconciliation of a scan that did not see the object.
Absent(s, o) ==
    /\ "ABSENCE" \in Changes
    /\ member[o][s] = "ACTIVE"
    /\ member' = [member EXCEPT ![o][s] = "MISSING"]
    /\ lifecycle' = [lifecycle EXCEPT ![o] =
                       IF ActiveScopes(o) = {s} THEN "MISSING" ELSE @]
    /\ UNCHANGED <<current, retention, ext, chunk, missed, queue, revs, store, crashes, wk>>

\* The cutover of a scope to a revision that does not hold the object.
CutOff(s, o) ==
    LET rest == {member[o][t] : t \in Scopes \ {s}}
    IN  /\ "CUTOVER" \in Changes
        /\ member[o][s] \in {"ACTIVE", "MISSING"}
        /\ member' = [member EXCEPT ![o][s] = "REMOVED"]
        /\ lifecycle' = [lifecycle EXCEPT ![o] =
                           IF "ACTIVE" \in rest THEN @
                           ELSE IF "MISSING" \in rest THEN "MISSING"
                           ELSE "DELETED"]
        /\ UNCHANGED <<current, retention, ext, chunk, missed, queue, revs, store, crashes, wk>>

-----------------------------------------------------------------------------
(* Retention purge (internal/purge, migrations 000015 and 000030).         *)

\* source_version_begin_purge: fail closed in one transaction.
BeginPurge(o, n) ==
    /\ "PURGE" \in Changes
    /\ n <= current[o] /\ retention[o][n] = "ACTIVE"
    /\ retention' = [retention EXCEPT ![o][n] = "PURGING"]
    /\ ext'       = [ext EXCEPT ![o][n] = {}]
    /\ UNCHANGED <<lifecycle, member, current, chunk, missed, queue, revs, store, crashes, wk>>

Deletes == {outbox[i].chunk : i \in {j \in DOMAIN outbox : outbox[j].op = "DELETE"}}

\* Purger.Cleanup: one DELETE per chunk, once, with the erasure of the text.
Cleanup(o, n) ==
    /\ retention[o][n] \in {"PURGING", "PURGED"}
    /\ ~(ChunksOf(o, n) \subseteq Deletes)
    /\ Enqueue("DELETE", ChunksOf(o, n) \ Deletes)
    /\ UNCHANGED <<catalog, revs, store, crashes, wk>>

\* source_version_complete_purge, once no decryptable artifact is left.
CompletePurge(o, n) ==
    /\ retention[o][n] = "PURGING"
    /\ ChunksOf(o, n) \subseteq Deletes
    /\ retention' = [retention EXCEPT ![o][n] = "PURGED"]
    /\ UNCHANGED <<lifecycle, member, current, ext, chunk, missed, queue, revs, store,
                   crashes, wk>>

-----------------------------------------------------------------------------
(* Profile revisions (search.Repository, migration 000072).                *)

Newest     == Len(revs)
Serving    == CHOOSE r \in DOMAIN revs : revs[r].status = "ACTIVE"
HasStaged  == revs[Newest].status = "STAGING"

\* stage_search_profile_revision: an identical request changes nothing, a
\* second one is refused while the first is staged.
StageRevision(p) ==
    /\ "PROFILE" \in Changes
    /\ ~HasStaged /\ revs[Newest].profile # p
    /\ Newest < MaxRevisions
    /\ revs' = Append(revs, [profile |-> p, status |-> "STAGING"])
    /\ UNCHANGED <<catalog, queue, store, crashes, wk>>

\* A worker is stopped between two index calls and started with the newest
\* profile mounted.
Redeploy(w, p) ==
    /\ wk[w].step # "PUT" /\ wk[w].docs = {} /\ wk[w].mounted # p
    /\ p = revs[Newest].profile
    /\ wk' = [wk EXCEPT ![w] = Fresh(p)]
    /\ UNCHANGED <<catalog, queue, revs, store, crashes>>

-----------------------------------------------------------------------------
(* Applier.ApplyOnce, step by step.                                        *)

At(w, step) == wk[w].step = step
Event(w)    == outbox[wk[w].seq]
Restart(w)  == wk' = [wk EXCEPT ![w] = Fresh(@.mounted)]
Goto(w, step) == wk' = [wk EXCEPT ![w].step = step]

\* readNext: the lowest event that is not published.
ReadNext(w) ==
    /\ At(w, "IDLE")
    /\ published < Len(outbox)
    /\ wk' = [wk EXCEPT ![w].seq = published + 1,
              ![w].step = IF outbox[published + 1].op = "DELETE" THEN "DELETE" ELSE "LOAD"]
    /\ UNCHANGED <<catalog, queue, revs, store, crashes>>

\* A write belongs to the newest revision, staged or active; a later revision
\* of another vector space than the mounted one is a conflict.
Conflict(w) == Newest > 1 /\ revs[Newest].profile # wk[w].mounted

\* Fault: a write goes to the revision queries are answered from.
TargetServing == Serving

Target == Newest

Document(c) == [rev |-> Target, chunk |-> c, scopes |-> ActiveScopes(chunk[c][1])]

\* loadDocument, one read transaction, and its refusals.
LoadDocument(w) ==
    /\ At(w, "LOAD")
    /\ LET c == Event(w).chunk
       IN  wk' = [wk EXCEPT
                   ![w].step = IF Listed(c) /\ Conflict(w) THEN "FAIL"
                               ELSE IF Indexable(c) THEN "PUT" ELSE "PURGED",
                   ![w].doc  = IF Indexable(c) /\ ~Conflict(w) THEN Document(c) ELSE @]
    /\ UNCHANGED <<catalog, queue, revs, store, crashes>>

\* The document replaces the one with its id in its physical index.
Stored(d) == {e \in index : e.rev # d.rev \/ e.chunk # d.chunk} \cup {d}

Index(w) ==
    /\ At(w, "PUT")
    /\ index' = Stored(wk[w].doc)
    /\ wk' = [wk EXCEPT ![w].step = "PUBLISH", ![w].doc = NoDoc]
    /\ UNCHANGED <<catalog, queue, revs, late, lost, outrun, crashes>>

\* The request times out: the drain fails, the worker restarts, and the
\* index may still carry the request out.
IndexTimeout(w) ==
    /\ At(w, "PUT")
    /\ lost < MaxLost
    /\ lost' = lost + 1
    /\ late' = late \cup {wk[w].doc}
    /\ Restart(w)
    /\ UNCHANGED <<catalog, queue, revs, index, outrun, crashes>>

Land(d) ==
    /\ d \in late
    /\ index' = Stored(d)
    /\ late'  = late \ {d}
    /\ UNCHANGED <<catalog, queue, revs, lost, outrun, crashes, wk>>

\* Fault: only the serving revision's copy is erased.
WithoutServing(c) == {e \in index : e.rev # Serving \/ e.chunk # c}

\* The index without any revision's copy of a chunk.
Without(c) == {e \in index : e.chunk # c}

\* A write of the chunk was loaded and is not carried out: it is in the hands
\* of a worker, or timed out on one.
UnderWay(c) ==
    \E d \in late \cup UNION {wk[w].docs \cup {wk[w].doc} : w \in Workers} : d.chunk = c

DeleteProfileCopies(w) ==
    /\ At(w, "DELETE")
    /\ index' = Without(Event(w).chunk)
    /\ outrun' = IF UnderWay(Event(w).chunk) THEN outrun \cup {Event(w).chunk} ELSE outrun
    /\ Goto(w, "PUBLISH")
    /\ UNCHANGED <<catalog, queue, revs, late, lost, crashes>>

\* Fault: the head moves one event too far.
PublishedPast(seq) == published' = IF seq <= published THEN published ELSE seq + 1

\* publish_search_chunk_outbox: true for a published event, else in order.
Published(seq) == published' = IF seq <= published THEN published ELSE seq

Publish(w) ==
    /\ At(w, "PUBLISH")
    /\ Published(wk[w].seq)
    /\ wk' = [wk EXCEPT ![w].step = "IDLE", ![w].seq = 0]
    /\ UNCHANGED <<catalog, outbox, revs, store, crashes>>

RetentionOf(c) == retention[chunk[c][1]][chunk[c][2]]

\* Fault: the UPSERT of a purged version has no exit.
VersionPurgedNever(w) ==
    /\ At(w, "PURGED")
    /\ Goto(w, "MISSING")
    /\ UNCHANGED <<catalog, queue, revs, store, crashes>>

\* versionPurged: the stale UPSERT of a purged version becomes a DELETE.
VersionPurged(w) ==
    /\ At(w, "PURGED")
    /\ Goto(w, IF RetentionOf(Event(w).chunk) = "ACTIVE" THEN "MISSING" ELSE "DELETE")
    /\ UNCHANGED <<catalog, queue, revs, store, crashes>>

\* An object no scope can read at the moment.
Unreadable(o) == lifecycle[o] = "MISSING" /\ ActiveScopes(o) = {}

\* publishMissing: skip the event under a lock on the object.
PublishMissing(w) ==
    /\ At(w, "MISSING")
    /\ IF Unreadable(chunk[Event(w).chunk][1]) /\ ~Conflict(w)
       THEN /\ Published(wk[w].seq)
            /\ wk' = [wk EXCEPT ![w].step = "IDLE", ![w].seq = 0]
       ELSE /\ Goto(w, "SUPERSEDED")
            /\ UNCHANGED published
    /\ UNCHANGED <<catalog, outbox, revs, store, crashes>>

\* A version that can never be current again.
Obsolete(c) ==
    chunk[c][2] < current[chunk[c][1]] /\ RetentionOf(c) = "ACTIVE"

\* publishSuperseded: erase and publish in one transaction.
PublishSuperseded(w) ==
    /\ At(w, "SUPERSEDED")
    /\ Obsolete(Event(w).chunk) /\ ~Conflict(w)
    /\ index' = Without(Event(w).chunk)
    /\ Published(wk[w].seq)
    /\ wk' = [wk EXCEPT ![w].step = "IDLE", ![w].seq = 0]
    /\ UNCHANGED <<catalog, outbox, revs, late, lost, outrun, crashes>>

\* None of the exits applies: ApplyOnce returns the error of loadDocument.
NotObsolete(w) ==
    /\ At(w, "SUPERSEDED")
    /\ ~(Obsolete(Event(w).chunk) /\ ~Conflict(w))
    /\ Goto(w, "FAIL")
    /\ UNCHANGED <<catalog, queue, revs, store, crashes>>

\* applySearch retires the job loop; the supervisor restarts the process.
Fail(w) ==
    /\ At(w, "FAIL")
    /\ Restart(w)
    /\ UNCHANGED <<catalog, queue, revs, store, crashes>>

\* A crash; a write that was on its way may still land, and an erasure by
\* publishSuperseded may have been done without its commit.
Crash(w) ==
    /\ crashes < MaxCrashes
    /\ wk[w] # Fresh(wk[w].mounted)
    /\ crashes' = crashes + 1
    /\ Restart(w)
    /\ \E gone \in SUBSET (wk[w].docs \cup (IF At(w, "PUT") THEN {wk[w].doc} ELSE {})) :
           /\ lost + Cardinality(gone) <= MaxLost
           /\ late' = late \cup gone
           /\ lost' = lost + Cardinality(gone)
    /\ index' \in {index} \cup
         (IF At(w, "SUPERSEDED") /\ Obsolete(Event(w).chunk) /\ ~Conflict(w)
          THEN {Without(Event(w).chunk)} ELSE {})
    /\ UNCHANGED <<catalog, queue, revs, outrun>>

-----------------------------------------------------------------------------
(* applySearchProfileRevision and Applier.Reindex.                         *)

\* reindexCursor does not say whose it is: the pass over a later revision of
\* the same profile starts behind these chunks.
SkippedBy(w) == IF wk[w].built = Newest THEN {} ELSE {c \in Chunks : c <= wk[w].cursor}

\* The staged revision is this worker's: it resumes at its own cursor.
StartReindex(w) ==
    /\ At(w, "IDLE")
    /\ HasStaged /\ revs[Newest].profile = wk[w].mounted
    /\ wk' = [wk EXCEPT ![w].step = "PAGE", ![w].staged = Newest,
                        ![w].after = wk[w].cursor, ![w].indexed = 0]
    /\ missed' = missed \cup SkippedBy(w)
    /\ UNCHANGED <<listing, queue, revs, store, crashes>>

\* The smallest n members of a set of chunk ids.
FirstOf(S, n) == {c \in S : Cardinality({d \in S : d < c}) < n}

\* ChunksForReindex: one page of the rows that are listed now.
References(after) == FirstOf({c \in Chunks : Listed(c) /\ c > after}, PageSize)

\* Fault: the cursor stops before the page instead of after it.
CursorBefore(page) == Min(page) - 1

CursorAfter(page) == Max(page)

\* A short page ends the corpus, also when the budget has cut it.
CutOffBy(refs, page) == IF Cardinality(refs) < PageSize THEN refs \ page ELSE {}

\* Reindex reads a page and keeps what its budget leaves room for.
ReadPage(w) ==
    LET refs == References(wk[w].after)
        page == FirstOf(refs, Slice - wk[w].indexed)
    IN  /\ At(w, "PAGE") /\ refs # {}
        /\ wk' = [wk EXCEPT ![w].step = "REBUILD", ![w].page = page,
                            ![w].after = CursorAfter(page),
                            ![w].short = Cardinality(refs) < PageSize]
        /\ missed' = missed \cup CutOffBy(refs, page)
        /\ UNCHANGED <<listing, queue, revs, store, crashes>>

\* One goroutine of the pool loads a chunk of the page again; one that may
\* not be indexed is left to the outbox, any other refusal ends the pass.
Reload(w, c) ==
    /\ At(w, "REBUILD") /\ c \in wk[w].page
    /\ wk' = [wk EXCEPT ![w] =
          IF Listed(c) /\ Conflict(w) THEN Kept(w)
          ELSE IF Indexable(c)
          THEN [@ EXCEPT !.page = wk[w].page \ {c},
                         !.docs = wk[w].docs \cup {Document(c)}]
          ELSE [@ EXCEPT !.page = wk[w].page \ {c}]]
    /\ UNCHANGED <<catalog, queue, revs, store, crashes>>

Rewrite(w, d) ==
    /\ At(w, "REBUILD") /\ d \in wk[w].docs
    /\ index' = Stored(d)
    /\ wk' = [wk EXCEPT ![w].docs = @ \ {d}, ![w].indexed = @ + 1]
    /\ UNCHANGED <<catalog, queue, revs, late, lost, outrun, crashes>>

\* A write of the pool fails: the pass ends, the cursor of the last whole
\* slice is kept, and the next poll tries again.
RewriteTimeout(w, d) ==
    /\ At(w, "REBUILD") /\ d \in wk[w].docs
    /\ lost < MaxLost
    /\ lost' = lost + 1
    /\ late' = late \cup {d}
    /\ wk' = [wk EXCEPT ![w] = Kept(w)]
    /\ UNCHANGED <<catalog, queue, revs, index, outrun, crashes>>

PageDone(w) == At(w, "REBUILD") /\ wk[w].page = {} /\ wk[w].docs = {}

\* More of the corpus: the next page, or the next slice after its cursor.
NextPage(w) ==
    /\ PageDone(w) /\ ~wk[w].short
    /\ wk' = [wk EXCEPT ![w].step = "PAGE",
          ![w].indexed = IF @ >= Slice THEN 0 ELSE @,
          ![w].cursor  = IF wk[w].indexed >= Slice THEN wk[w].after ELSE @,
          ![w].built   = IF wk[w].indexed >= Slice THEN wk[w].staged ELSE @]
    /\ UNCHANGED <<catalog, queue, revs, store, crashes>>

\* Reindex reports an exhausted corpus: an empty page, or one that was not
\* filled.  The runner clears its cursor and refreshes the index.
Exhausted(w) ==
    /\ \/ At(w, "PAGE") /\ References(wk[w].after) = {}
       \/ PageDone(w) /\ wk[w].short
    /\ wk' = [wk EXCEPT ![w] = [Fresh(@.mounted) EXCEPT
                  !.step = "ACTIVATE", !.staged = wk[w].staged]]
    /\ UNCHANGED <<catalog, queue, revs, store, crashes>>

\* ActivateRevision: the staged revision supersedes the active one; if it is
\* not staged any more the transaction fails.  The tick ends either way, also
\* when the refresh before it failed.
ActivateRevision(w) ==
    LET r == wk[w].staged
    IN  /\ At(w, "ACTIVATE")
        /\ revs' = IF revs[r].status # "STAGING" THEN revs
                   ELSE [q \in DOMAIN revs |->
                           IF q = r THEN [revs[q] EXCEPT !.status = "ACTIVE"]
                           ELSE [revs[q] EXCEPT !.status = "SUPERSEDED"]]
        /\ Restart(w)
        /\ UNCHANGED <<catalog, queue, store, crashes>>

-----------------------------------------------------------------------------

CatalogStep ==
    \/ \E s \in Scopes, o \in Objects :
          \/ \E C \in SUBSET Chunks : IngestVersion(s, o, C) \/ Reextract(s, o, C)
          \/ Reobserve(s, o) \/ Absent(s, o) \/ CutOff(s, o)
    \/ \E o \in Objects, n \in Versions :
          BeginPurge(o, n) \/ Cleanup(o, n) \/ CompletePurge(o, n)
    \/ \E p \in Profiles : StageRevision(p)

WorkerStep(w) ==
    \/ ReadNext(w) \/ LoadDocument(w) \/ Index(w) \/ DeleteProfileCopies(w)
    \/ Publish(w) \/ VersionPurged(w) \/ PublishMissing(w)
    \/ PublishSuperseded(w) \/ NotObsolete(w) \/ Fail(w)
    \/ StartReindex(w) \/ ReadPage(w) \/ NextPage(w) \/ Exhausted(w)
    \/ ActivateRevision(w)
    \/ \E c \in Chunks : Reload(w, c)
    \/ \E d \in wk[w].docs : Rewrite(w, d)

Next ==
    \/ CatalogStep
    \/ \E d \in late : Land(d)
    \/ \E w \in Workers :
          \/ WorkerStep(w) \/ IndexTimeout(w) \/ Crash(w)
          \/ \E d \in wk[w].docs : RewriteTimeout(w, d)
          \/ \E p \in Profiles : Redeploy(w, p)

Spec == Init /\ [][Next]_vars

\* Workers poll forever, the supervisor restarts them, and the operator who
\* asked for a profile mounts it.
Fairness ==
    /\ \A w \in Workers : WF_vars(WorkerStep(w))
    /\ \A w \in Workers : WF_vars(\E p \in Profiles : Redeploy(w, p))

LiveSpec == Spec /\ Fairness

-----------------------------------------------------------------------------
(* Properties.                                                             *)

Pending(c) == \E i \in (published + 1) .. Len(outbox) : outbox[i].chunk = c
Has(r, c)  == \E e \in index : e.rev = r /\ e.chunk = c

\* In the index queries are answered from, or, while a later revision is
\* being built, at least in that one.
Found(c) == Has(Serving, c) \/ (HasStaged /\ Has(Newest, c))

\* Once the events of an indexable chunk are published, the chunk can be
\* found, unless it was passed over for one of three reasons: its object came
\* back through a fresh membership, the budget cut it off a short page, or a
\* pass began behind the cursor of another revision. So events skipped because
\* of an absence (publishMissing), a crash between the write and the
\* publication, a change that races the re-index, and the cutover to a
\* rebuilt revision lose nothing else that is readable (applier.go:718-771,
\* runtime.go:515-586).
ProjectionComplete ==
    \A c \in Chunks : Indexable(c) /\ ~Pending(c) => Found(c) \/ c \in missed

\* The outbox alone: a chunk whose events are published was written to the
\* index of some revision, with the same exceptions.
OutboxComplete ==
    \A c \in Chunks : Indexable(c) /\ ~Pending(c) =>
        (\E r \in Revisions : Has(r, c)) \/ c \in missed

\* When the DELETE of a purged chunk is published, no revision's index holds
\* a copy of it, and none comes back, unless the erasure outran a write that
\* was loaded before the purge began and had timed out, or was in the hands
\* of another worker (purge.go:66-106). 000015:3-4 claims more: "never lets a
\* stale worker, job or index resurrect it".
PurgeErases ==
    \A i \in 1 .. published : outbox[i].op = "DELETE" =>
        outbox[i].chunk \in outrun \/ \A e \in index : e.chunk # outbox[i].chunk

\* The UPSERT at the head cannot be applied and has no exit: its chunk may not
\* be indexed although its version is neither purged, nor absent, nor
\* superseded. Its scope was cut over, or the version was extracted again.
Stuck ==
    /\ published < Len(outbox) /\ outbox[published + 1].op = "UPSERT"
    /\ LET c == outbox[published + 1].chunk
       IN  /\ ~Indexable(c) /\ RetentionOf(c) = "ACTIVE"
           /\ ~Unreadable(chunk[c][1]) /\ ~Obsolete(c)

\* Every event is eventually published, or the head is such an UPSERT, and
\* nothing behind it is applied: no other event blocks the outbox for good,
\* whatever the workers lose (LLD.md:224-225 would have it that "poison input
\* becomes an inspectable failure, not an infinite loop").
Drains == <>[](published = Len(outbox) \/ Stuck)

\* A staged revision is eventually activated, unless the outbox, which a poll
\* drains first, is stuck (runtime.go:505-514).
StagedActivates == <>[]~Stuck => (HasStaged ~> ~HasStaged)

-----------------------------------------------------------------------------
(* What comments say and the code does not do.                             *)

\* What is readable can be found. The comments of publishMissing ("Restoration
\* emits a fresh event") and of Reindex ("an empty cursor once the corpus is
\* exhausted") promise it; a return through a fresh membership emits none, and
\* a page that the budget cuts ends the corpus.
ReadableIsFound == \A c \in Chunks : Indexable(c) /\ ~Pending(c) => Found(c)
===============================================================================
