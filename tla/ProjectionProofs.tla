--------------------------- MODULE ProjectionProofs ---------------------------
(***************************************************************************)
(* What is readable can be found, unless it was passed over for one of the *)
(* three reasons that ProjectionComplete names: for any number of objects, *)
(* scopes, chunks, workers, profiles and revisions, any size of a page and *)
(* of a slice, and whatever crashes, times out or lands late.              *)
(*                                                                         *)
(* CoverInv says what a chunk without such a reason has: a document in the *)
(* live revisions, an event that will still write one, an object that is   *)
(* away and returns with an event, or nothing left to index.  CoverInv is  *)
(* not inductive by itself: that activating a revision keeps it takes      *)
(* WalkInv, what a pass over the corpus has covered so far, and that takes *)
(* the same of the cursor a later pass resumes at.                         *)
(***************************************************************************)
EXTENDS SearchProofs

-----------------------------------------------------------------------------
(* Coverage of a chunk by a set R of revisions.                            *)

\* Nothing will index this chunk again.
Closed(c) == \/ RetentionOf(c) # "ACTIVE"
             \/ VersionOf(c) < current[ObjectOf(c)]
             \/ c \notin ext[ObjectOf(c)][VersionOf(c)]
             \/ lifecycle[ObjectOf(c)] = "DELETED"

\* The object is away; its return is an event.
Hidden(c) == lifecycle[ObjectOf(c)] = "MISSING"

HasIn(R, c) == \E r \in R : Has(r, c)

\* A worker that holds event i will have written it to R when it publishes.
InTime(w, i, R) == wk[w].seq = i =>
    /\ At(w, "PUT") => wk[w].doc.rev \in R
    /\ At(w, "PUBLISH") => HasIn(R, outbox[i].chunk) \/ Closed(outbox[i].chunk)

PendingIn(R, c) == \E i \in (published + 1) .. Len(outbox) :
    outbox[i].chunk = c /\ \A w \in Workers : InTime(w, i, R)

CoveredIn(R, c) ==
    HasIn(R, c) \/ Closed(c) \/ Hidden(c) \/ PendingIn(R, c) \/ c \in missed

\* An object is active while some scope holds it.
MirrorInv ==
    /\ \A o \in Objects : lifecycle[o] = "ACTIVE" <=> ActiveScopes(o) # {}
    /\ \A c \in Chunks : Exists(c) => lifecycle[ObjectOf(c)] # "NONE"

\* The revisions that writes may be found in.
Live == IF HasStaged THEN {Newest - 1, Newest} ELSE {Newest}

CoverInv == \A c \in Chunks : Exists(c) => CoveredIn(Live, c)

\* A pass over the staged revision has covered what it went past.
Rebuilds(w) == HasStaged /\ wk[w].staged = Newest
Rebuilt(c)  == CoveredIn({Newest}, c)
Passed(w, c) == /\ c <= wk[w].after \/ wk[w].short
                /\ c \notin wk[w].page
                /\ \A d \in wk[w].docs : d.chunk # c

WalkOf(w) ==
    /\ Rebuilds(w) /\ wk[w].step \in {"PAGE", "REBUILD"} =>
          /\ \A d \in wk[w].docs : d.rev = Newest
          /\ \A c \in Chunks : Exists(c) /\ Passed(w, c) => Rebuilt(c)
    /\ Rebuilds(w) /\ wk[w].step = "ACTIVATE" =>
          \A c \in Chunks : Exists(c) => Rebuilt(c)

\* A cursor that was reached in the staged revision has covered as much.
ResumeOf(w) ==
    /\ wk[w].built \in 0 .. Newest
    /\ HasStaged /\ wk[w].built = Newest =>
          \A c \in Chunks : Exists(c) /\ c <= wk[w].cursor => Rebuilt(c)

WalkInv == \A w \in Workers : WalkOf(w) /\ ResumeOf(w)

PInv == IInv /\ MirrorInv /\ CoverInv /\ WalkInv

-----------------------------------------------------------------------------
(* Coverage once given stays given.                                        *)

LEMMA InRange ==
    ASSUME NEW a \in Nat, NEW b \in Nat, NEW i \in Nat, a < i, i <= b
    PROVE  i \in a + 1 .. b
  OBVIOUS

\* What is closed stays closed.
LEMMA ClosedKept ==
    ASSUME IInv, IInv', Grows, NEW c \in Chunks, Exists(c)
    PROVE  /\ Exists(c)' /\ ObjectOf(c)' = ObjectOf(c) /\ VersionOf(c)' = VersionOf(c)
           /\ Closed(c) => Closed(c)'
<1>1. /\ ObjectOf(c) \in Objects /\ VersionOf(c) \in Versions /\ chunk'[c] = chunk[c]
      /\ VersionOf(c) \in Nat /\ current[ObjectOf(c)] \in Nat
  BY ChunkFacts DEF IInv, Grows
<1>2. PICK o \in Objects, n \in Versions : o = ObjectOf(c) /\ n = VersionOf(c)
  BY <1>1
<1>3. /\ Exists(c)' /\ ObjectOf(c)' = o /\ VersionOf(c)' = n
  BY <1>1, <1>2 DEF ObjectOf, VersionOf, Exists
<1>4. RetentionOf(c) = retention[o][n] /\ RetentionOf(c)' = retention'[o][n]
  BY <1>2, <1>3 DEF RetentionOf, ObjectOf, VersionOf
<1>5. current[o] \in Nat /\ current'[o] \in Nat /\ n \in Nat
  BY <1>1, <1>2, ConstantFacts DEF IInv, TypeOK
<1>6. n < current[o] => n < current'[o]
  BY <1>5 DEF Grows
<1>7. c \notin ext[o][n] => c \notin ext'[o][n]
  BY DEF Grows
<1> QED  BY <1>2, <1>3, <1>4, <1>6, <1>7 DEF Grows, Closed

\* How a step changes the index.
LEMMA IndexMoves ==
    ASSUME IInv, Next
    PROVE  \/ index' = index
           \/ \E d \in Documents : index' = Stored(d)
           \/ \E e \in Chunks : /\ index' = Without(e)
                                /\ Exists(e) /\ Closed(e)
<1>1. CASE CatalogStep
  BY <1>1, CatalogHands
<1>2. CASE \E d \in late : Land(d)
  BY <1>2 DEF Land, IInv, TypeOK
<1>3. ASSUME NEW w \in Workers, Index(w) \/ \E d \in wk[w].docs : Rewrite(w, d)
      PROVE  \E d \in Documents : index' = Stored(d)
  BY <1>3, Here DEF Index, Rewrite, WorkOf, WorkerStates
<1>4. ASSUME NEW w \in Workers, Obsolete(Event(w).chunk) PROVE Closed(Event(w).chunk)
  BY <1>4 DEF Obsolete, Closed, VersionOf, ObjectOf
<1>5. ASSUME NEW w \in Workers, DeleteProfileCopies(w) \/ PublishSuperseded(w)
      PROVE  \E e \in Chunks : index' = Without(e) /\ Exists(e) /\ Closed(e)
  <2>1. wk[w].step \in EventSteps /\ index' = Without(Event(w).chunk)
    BY <1>5 DEF DeleteProfileCopies, PublishSuperseded, At, EventSteps
  <2>2. Event(w).chunk \in Chunks /\ Exists(Event(w).chunk)
    BY <2>1, Here, OwnEvent
  <2>3. Closed(Event(w).chunk)
    BY <1>4, <1>5, Here DEF DeleteProfileCopies, PublishSuperseded, WorkOf, Closed
  <2> QED  BY <2>1, <2>2, <2>3
<1>6. ASSUME NEW w \in Workers, Crash(w)
      PROVE  \/ index' = index
             \/ \E e \in Chunks : index' = Without(e) /\ Exists(e) /\ Closed(e)
  <2>1. SUFFICES ASSUME index' # index
                 PROVE  \E e \in Chunks : index' = Without(e) /\ Exists(e) /\ Closed(e)
    OBVIOUS
  <2>2. At(w, "SUPERSEDED") /\ Obsolete(Event(w).chunk) /\ index' = Without(Event(w).chunk)
    BY <1>6, <2>1 DEF Crash
  <2>3. Event(w).chunk \in Chunks /\ Exists(Event(w).chunk)
    BY <2>2, Here, OwnEvent DEF At, EventSteps
  <2> QED  BY <1>4, <2>2, <2>3
<1>7. ASSUME NEW w \in Workers,
             \/ ReadNext(w) \/ LoadDocument(w) \/ Publish(w) \/ VersionPurged(w) \/ PublishMissing(w)
             \/ NotObsolete(w) \/ Fail(w)
      PROVE  index' = index
  BY <1>7 DEF ReadNext, LoadDocument, Publish, VersionPurged, PublishMissing, NotObsolete, Fail, store
<1>8. ASSUME NEW w \in Workers,
             \/ StartReindex(w) \/ ReadPage(w) \/ NextPage(w) \/ Exhausted(w) \/ ActivateRevision(w)
             \/ \E c \in Chunks : Reload(w, c)
      PROVE  index' = index
  BY <1>8 DEF StartReindex, ReadPage, NextPage, Exhausted, ActivateRevision, Reload, store
<1>9. ASSUME NEW w \in Workers,
             \/ IndexTimeout(w) \/ \E d \in wk[w].docs : RewriteTimeout(w, d)
             \/ \E p \in Profiles : Redeploy(w, p)
      PROVE  index' = index
  BY <1>9 DEF IndexTimeout, RewriteTimeout, Redeploy, store
<1>10. ASSUME NEW w \in Workers, WorkerStep(w)
       PROVE  \/ index' = index
              \/ \E d \in Documents : index' = Stored(d)
              \/ \E e \in Chunks : index' = Without(e) /\ Exists(e) /\ Closed(e)
  <2>1. \/ Index(w) \/ (\E d \in wk[w].docs : Rewrite(w, d))
        \/ DeleteProfileCopies(w) \/ PublishSuperseded(w)
        \/ ReadNext(w) \/ LoadDocument(w) \/ Publish(w) \/ VersionPurged(w) \/ PublishMissing(w)
        \/ NotObsolete(w) \/ Fail(w)
        \/ StartReindex(w) \/ ReadPage(w) \/ NextPage(w) \/ Exhausted(w) \/ ActivateRevision(w)
        \/ \E c \in Chunks : Reload(w, c)
    BY <1>10, Zenon DEF WorkerStep
  <2> QED  BY <1>3, <1>5, <1>7, <1>8, <2>1
<1> QED  BY <1>1, <1>2, <1>6, <1>9, <1>10, Zenon DEF Next

\* A copy is only lost by a chunk that is closed.
LEMMA CopyKept ==
    ASSUME IInv, Next, NEW R, NEW c \in Chunks, Exists(c), HasIn(R, c) \/ Closed(c)
    PROVE  HasIn(R, c)' \/ Closed(c)'
<1>1. Grows /\ IInv'
  BY Step
<1>2. CASE Closed(c)
  BY <1>1, <1>2, ClosedKept
<1>3. CASE HasIn(R, c)
  <2>1. PICK r \in R, e \in index : e.rev = r /\ e.chunk = c
    BY <1>3 DEF HasIn, Has
  <2>2. CASE index' = index
    BY <2>1, <2>2 DEF HasIn, Has
  <2>3. ASSUME NEW d \in Documents, index' = Stored(d) PROVE HasIn(R, c)'
    <3>1. CASE e.rev # d.rev \/ e.chunk # d.chunk
      BY <2>1, <2>3, <3>1 DEF Stored, HasIn, Has
    <3>2. CASE d.rev = r /\ d.chunk = c
      BY <2>1, <2>3, <3>2 DEF Stored, HasIn, Has
    <3> QED  BY <2>1, <3>1, <3>2
  <2>4. ASSUME NEW f \in Chunks, index' = Without(f), Exists(f) /\ Closed(f)
        PROVE  HasIn(R, c)' \/ Closed(c)'
    <3>1. CASE f = c
      BY <1>1, <2>4, <3>1, ClosedKept
    <3>2. CASE f # c
      BY <2>1, <2>4, <3>2 DEF Without, HasIn, Has
    <3> QED  BY <3>1, <3>2
  <2> QED  BY <2>2, <2>3, <2>4, IndexMoves
<1> QED  BY <1>2, <1>3

\* A worker stays in time: it loads for the newest revision.
LEMMA InTimeKept ==
    ASSUME IInv, Next, NEW R, Newest \in R, NEW i \in 1 .. Len(outbox), NEW w \in Workers,
           InTime(w, i, R)
    PROVE  InTime(w, i, R)'
<1> DEFINE c == outbox[i].chunk
<1>1. Grows /\ TypeOK /\ CatalogInv
  BY Step DEF IInv
<1>2. outbox'[i] = outbox[i] /\ c \in Chunks /\ Exists(c)
  BY <1>1, EventFacts DEF Grows, CatalogInv
<1>3. wk \in [Workers -> WorkerStates] /\ wk[w] \in WorkerStates /\ WorkOf(w)
  BY Here
<1>4. HasIn(R, c) \/ Closed(c) => HasIn(R, c)' \/ Closed(c)'
  BY <1>2, CopyKept
<1>5. SUFFICES ASSUME wk'[w].seq = i
               PROVE  /\ wk'[w].step = "PUT" => wk'[w].doc.rev \in R
                      /\ wk'[w].step = "PUBLISH" => HasIn(R, c)' \/ Closed(c)'
  BY <1>2 DEF InTime, At
<1>6. CASE wk'[w] = wk[w]
  BY <1>4, <1>5, <1>6 DEF InTime, At
<1>7. CASE LoadDocument(w) /\ wk'[w].step = "PUT"
  <2>1. Indexable(Event(w).chunk) /\ ~Conflict(w)
    BY <1>3, <1>7 DEF LoadDocument, WorkerStates, Indexable
  <2>2. wk'[w].doc = Document(Event(w).chunk)
    BY <1>3, <1>7, <2>1 DEF LoadDocument, WorkerStates
  <2> QED  BY <1>7, <2>2 DEF Document, Target
<1>8. CASE Index(w) /\ wk'[w].step = "PUBLISH"
  <2>1. wk[w].seq = i /\ index' = Stored(wk[w].doc) /\ At(w, "PUT")
    BY <1>3, <1>5, <1>8 DEF Index, WorkerStates
  <2>2. wk[w].doc.rev \in R /\ wk[w].doc.chunk = c
    BY <1>3, <2>1 DEF InTime, WorkOf, Event
  <2>3. HasIn(R, c)'
    BY <1>2, <2>1, <2>2 DEF HasIn, Has, Stored
  <2> QED  BY <1>8, <2>3
<1>9. CASE DeleteProfileCopies(w) /\ wk'[w].step = "PUBLISH"
  <2>1. wk[w].seq = i /\ At(w, "DELETE")
    BY <1>3, <1>5, <1>9 DEF DeleteProfileCopies, Goto, WorkerStates
  <2>2. Closed(c)
    BY <1>3, <2>1 DEF WorkOf, Event, Closed
  <2> QED  BY <1>4, <1>9, <2>2
<1> QED  BY <1>6, <1>7, <1>8, <1>9, Arrivals

\* An event that still covers its chunk, or what its publication proved.
LEMMA PendingKept ==
    ASSUME IInv, Next, NEW R, Newest \in R, NEW c \in Chunks, Exists(c), PendingIn(R, c)
    PROVE  \/ PendingIn(R, c)' \/ HasIn(R, c)' \/ Closed(c)'
           \/ Hidden(c) /\ UNCHANGED lifecycle
<1>1. /\ IInv' /\ Grows /\ TypeOK /\ published \in Nat /\ Len(outbox) \in Nat
      /\ published' \in Nat /\ Len(outbox') \in Nat /\ Len(outbox) <= Len(outbox')
      /\ published <= published'
  <2>1. IInv' /\ Grows /\ TypeOK /\ TypeOK'
    BY Step DEF IInv
  <2>2. published \in Nat /\ Len(outbox) \in Nat
    BY <2>1 DEF TypeOK
  <2>3. published' \in Nat /\ Len(outbox') \in Nat
    BY <2>1 DEF TypeOK
  <2> QED  BY <2>1, <2>2, <2>3 DEF Grows
<1>2. PICK i \in published + 1 .. Len(outbox) :
          outbox[i].chunk = c /\ \A w \in Workers : InTime(w, i, R)
  BY DEF PendingIn
<1>3. i \in 1 .. Len(outbox) /\ outbox'[i] = outbox[i] /\ i \in 1 .. Len(outbox')
  BY <1>1 DEF Grows
<1>4. CASE published' < i
  <2>1. i \in published' + 1 .. Len(outbox')
    <3>1. i \in Nat /\ i <= Len(outbox') /\ published' \in Nat /\ Len(outbox') \in Nat
      BY <1>1, <1>3
    <3> QED  BY <1>4, <3>1, InRange
  <2>2. \A w \in Workers : InTime(w, i, R)'
    BY <1>2, <1>3, InTimeKept
  <2> QED  BY <1>2, <1>3, <2>1, <2>2 DEF PendingIn
<1>5. CASE ~(published' < i)
  <2>1. published' # published
    BY <1>1, <1>5
  <2>2. PICK w \in Workers :
              /\ published' = published + 1 /\ wk[w].seq = published + 1
              /\ \/ Publish(w)
                 \/ PublishMissing(w) /\ Unreadable(chunk[Event(w).chunk][1])
                 \/ PublishSuperseded(w)
    BY <2>1, HeadMoves
  <2>3. wk[w].seq = i /\ Event(w).chunk = c
    BY <1>1, <1>2, <1>5, <2>2 DEF Event
  <2>4. CASE Publish(w)
    <3>1. HasIn(R, c) \/ Closed(c)
      BY <1>2, <2>3, <2>4 DEF InTime, Publish
    <3> QED  BY <3>1, CopyKept
  <2>5. CASE PublishMissing(w) /\ Unreadable(chunk[Event(w).chunk][1])
    <3>1. Hidden(c) /\ UNCHANGED lifecycle
      BY <2>3, <2>5 DEF Unreadable, Hidden, ObjectOf, PublishMissing, catalog, listing
    <3> QED  BY <3>1
  <2>6. CASE PublishSuperseded(w)
    <3>1. Closed(c)
      BY <2>3, <2>6 DEF PublishSuperseded, Obsolete, Closed, VersionOf, ObjectOf
    <3> QED  BY <3>1, CopyKept
  <2> QED  BY <2>2, <2>4, <2>5, <2>6
<1> QED  BY <1>1, <1>4, <1>5

\* The catalog's steps and what they do to an object's state.
LEMMA ObjectMoves ==
    ASSUME Next, ~UNCHANGED <<lifecycle, member, chunk>>
    PROVE  \E s \in Scopes, o \in Objects :
              \/ \E C \in SUBSET Chunks : IngestVersion(s, o, C) \/ Reextract(s, o, C)
              \/ Reobserve(s, o) \/ Absent(s, o) \/ CutOff(s, o)
<1>1. ASSUME NEW o \in Objects, NEW n \in Versions,
             BeginPurge(o, n) \/ Cleanup(o, n) \/ CompletePurge(o, n)
      PROVE  UNCHANGED <<lifecycle, member, chunk>>
  BY <1>1 DEF BeginPurge, Cleanup, CompletePurge, catalog, listing
<1>2. ASSUME NEW p \in Profiles, StageRevision(p) PROVE UNCHANGED <<lifecycle, member, chunk>>
  BY <1>2 DEF StageRevision, catalog, listing
<1>3. ASSUME NEW d \in late, Land(d) PROVE UNCHANGED <<lifecycle, member, chunk>>
  BY <1>3 DEF Land, catalog, listing
<1>4. ASSUME NEW w \in Workers,
             \/ ReadNext(w) \/ LoadDocument(w) \/ Index(w) \/ DeleteProfileCopies(w) \/ Publish(w)
             \/ VersionPurged(w) \/ PublishMissing(w) \/ PublishSuperseded(w)
      PROVE  UNCHANGED <<lifecycle, member, chunk>>
  BY <1>4 DEF ReadNext, LoadDocument, Index, DeleteProfileCopies, Publish, VersionPurged,
              PublishMissing, PublishSuperseded, catalog, listing
<1>5. ASSUME NEW w \in Workers,
             \/ NotObsolete(w) \/ Fail(w) \/ StartReindex(w) \/ ReadPage(w) \/ NextPage(w)
             \/ Exhausted(w) \/ ActivateRevision(w) \/ \E c \in Chunks : Reload(w, c)
      PROVE  UNCHANGED <<lifecycle, member, chunk>>
  BY <1>5 DEF NotObsolete, Fail, StartReindex, ReadPage, NextPage, Exhausted,
              ActivateRevision, Reload, catalog, listing
<1>6. ASSUME NEW w \in Workers,
             \/ IndexTimeout(w) \/ Crash(w)
             \/ \E d \in wk[w].docs : Rewrite(w, d) \/ RewriteTimeout(w, d)
             \/ \E p \in Profiles : Redeploy(w, p)
      PROVE  UNCHANGED <<lifecycle, member, chunk>>
  BY <1>6 DEF IndexTimeout, Crash, Rewrite, RewriteTimeout, Redeploy, catalog, listing
<1>7. ASSUME NEW w \in Workers, WorkerStep(w) PROVE UNCHANGED <<lifecycle, member, chunk>>
  <2>1. \/ ReadNext(w) \/ LoadDocument(w) \/ Index(w) \/ DeleteProfileCopies(w) \/ Publish(w)
        \/ VersionPurged(w) \/ PublishMissing(w) \/ PublishSuperseded(w)
        \/ NotObsolete(w) \/ Fail(w) \/ StartReindex(w) \/ ReadPage(w) \/ NextPage(w)
        \/ Exhausted(w) \/ ActivateRevision(w) \/ (\E c \in Chunks : Reload(w, c))
        \/ \E d \in wk[w].docs : Rewrite(w, d)
    BY <1>7, Zenon DEF WorkerStep
  <2> QED  BY <1>4, <1>5, <1>6, <2>1
<1>8. CatalogStep
  BY <1>3, <1>6, <1>7, Zenon DEF Next
<1> QED  BY <1>1, <1>2, <1>8, Zenon DEF CatalogStep

\* The chunks of a return have an event that no worker holds yet.
LEMMA Announced ==
    ASSUME IInv, NEW R, NEW s \in Scopes, NEW o \in Objects, Reobserve(s, o),
           NEW c \in Reobserved(s, o)
    PROVE  PendingIn(R, c)'
<1>1. TypeOK /\ Enqueue("UPSERT", Reobserved(s, o)) /\ UNCHANGED wk
  BY DEF IInv, Reobserve
<1>2. Reobserved(s, o) \in SUBSET Chunks
  <2>1. current[o] \in Versions
    BY <1>1, ConstantFacts DEF Reobserve, TypeOK, Versions
  <2> QED  BY <1>1, <2>1 DEF Reobserved, TypeOK
<1>3. /\ published' = published /\ published \in Nat /\ published <= Len(outbox)
      /\ Len(outbox) \in Nat /\ Len(outbox') \in Nat
  BY <1>1, <1>2, EnqueueFacts DEF TypeOK
<1>4. PICK i \in Len(outbox) + 1 .. Len(outbox') : outbox'[i].chunk = c
  BY <1>1, <1>2, EnqueueFacts
<1>5. ASSUME NEW w \in Workers PROVE InTime(w, i, R)'
  <2>1. WorkOf(w)
    BY Here
  <2>2. wk[w].step \in EventSteps => wk[w].seq # i
    BY <1>3, <2>1 DEF WorkOf
  <2> QED  BY <1>1, <2>2 DEF InTime, At, EventSteps
<1>6. i \in published' + 1 .. Len(outbox')
  BY <1>3
<1> QED  BY <1>4, <1>5, <1>6 DEF PendingIn

\* What was passed over is so until it is announced again.
LEMMA MissedKept ==
    ASSUME IInv, Next, NEW R, NEW c \in missed
    PROVE  c \in missed' \/ PendingIn(R, c)'
<1>1. ASSUME NEW s \in Scopes, NEW o \in Objects, Reobserve(s, o)
      PROVE  c \in missed' \/ PendingIn(R, c)'
  <2>1. CASE c \in Reobserved(s, o)
    BY <1>1, <2>1, Announced
  <2>2. CASE c \notin Reobserved(s, o)
    BY <1>1, <2>2 DEF Reobserve
  <2> QED  BY <2>1, <2>2
<1>2. ASSUME NEW s \in Scopes, NEW o \in Objects, NEW C \in SUBSET Chunks,
             IngestVersion(s, o, C) \/ Reextract(s, o, C) \/ Absent(s, o) \/ CutOff(s, o)
      PROVE  missed' = missed
  BY <1>2 DEF IngestVersion, Reextract, Absent, CutOff
<1>3. ASSUME NEW o \in Objects, NEW n \in Versions,
             BeginPurge(o, n) \/ Cleanup(o, n) \/ CompletePurge(o, n)
      PROVE  missed' = missed
  BY <1>3 DEF BeginPurge, Cleanup, CompletePurge, catalog
<1>4. ASSUME NEW p \in Profiles, StageRevision(p) PROVE missed' = missed
  BY <1>4 DEF StageRevision, catalog
<1>5. ASSUME NEW d \in late, Land(d) PROVE missed' = missed
  BY <1>5 DEF Land, catalog
<1>6. ASSUME NEW w \in Workers,
             \/ ReadNext(w) \/ LoadDocument(w) \/ Index(w) \/ DeleteProfileCopies(w) \/ Publish(w)
             \/ VersionPurged(w) \/ PublishMissing(w) \/ PublishSuperseded(w)
      PROVE  missed' = missed
  BY <1>6 DEF ReadNext, LoadDocument, Index, DeleteProfileCopies, Publish, VersionPurged,
              PublishMissing, PublishSuperseded, catalog
<1>7. ASSUME NEW w \in Workers,
             \/ NotObsolete(w) \/ Fail(w) \/ NextPage(w)
             \/ Exhausted(w) \/ ActivateRevision(w) \/ \E e \in Chunks : Reload(w, e)
      PROVE  missed' = missed
  BY <1>7 DEF NotObsolete, Fail, NextPage, Exhausted, ActivateRevision, Reload, catalog
<1>8. ASSUME NEW w \in Workers,
             \/ IndexTimeout(w) \/ Crash(w)
             \/ \E d \in wk[w].docs : Rewrite(w, d) \/ RewriteTimeout(w, d)
             \/ \E p \in Profiles : Redeploy(w, p)
      PROVE  missed' = missed
  BY <1>8 DEF IndexTimeout, Crash, Rewrite, RewriteTimeout, Redeploy, catalog
<1>9. ASSUME NEW w \in Workers, StartReindex(w) \/ ReadPage(w) PROVE c \in missed'
  BY <1>9 DEF StartReindex, ReadPage
<1>10. ASSUME NEW w \in Workers, WorkerStep(w) PROVE c \in missed'
  <2>1. \/ ReadNext(w) \/ LoadDocument(w) \/ Index(w) \/ DeleteProfileCopies(w) \/ Publish(w)
        \/ VersionPurged(w) \/ PublishMissing(w) \/ PublishSuperseded(w)
        \/ NotObsolete(w) \/ Fail(w) \/ StartReindex(w) \/ ReadPage(w) \/ NextPage(w)
        \/ Exhausted(w) \/ ActivateRevision(w) \/ (\E e \in Chunks : Reload(w, e))
        \/ \E d \in wk[w].docs : Rewrite(w, d)
    BY <1>10, Zenon DEF WorkerStep
  <2> QED  BY <1>6, <1>7, <1>8, <1>9, <2>1
<1>11. CASE CatalogStep
  BY <1>1, <1>2, <1>3, <1>4, <1>11, Zenon DEF CatalogStep
<1> QED  BY <1>5, <1>8, <1>10, <1>11, Zenon DEF Next

\* The return of an object is an event of every chunk it still lists, or
\* passes them over.
LEMMA HiddenKept ==
    ASSUME PInv, Next, NEW R, NEW c \in Chunks, Exists(c), Hidden(c)
    PROVE  Hidden(c)' \/ Closed(c)' \/ PendingIn(R, c)' \/ c \in missed'
<1>1. IInv /\ IInv' /\ Grows /\ TypeOK /\ MirrorInv /\ CatalogInv
  BY Step DEF PInv, IInv
<1>2. /\ ObjectOf(c) \in Objects /\ VersionOf(c) \in Versions /\ VersionOf(c) \in Nat
      /\ current[ObjectOf(c)] \in Nat /\ VersionOf(c) <= current[ObjectOf(c)]
      /\ chunk[c] = <<ObjectOf(c), VersionOf(c)>>
  BY <1>1, ChunkFacts DEF CatalogInv
<1>3. PICK p \in Objects, m \in Versions : p = ObjectOf(c) /\ m = VersionOf(c)
  BY <1>2
<1>4. /\ Exists(c)' /\ ObjectOf(c)' = p /\ VersionOf(c)' = m /\ m \in Nat
      /\ current[p] \in Nat /\ m <= current[p]
      /\ Closed(c) => Closed(c)'
  BY <1>1, <1>2, <1>3, ClosedKept
<1>5. lifecycle[p] = "MISSING" /\ \A s \in Scopes : member[p][s] # "ACTIVE"
  <2>1. lifecycle[p] = "MISSING" /\ ActiveScopes(p) = {}
    BY <1>1, <1>3 DEF Hidden, MirrorInv
  <2> QED  BY <2>1 DEF ActiveScopes
<1>6. CASE lifecycle'[p] = lifecycle[p]
  BY <1>4, <1>5, <1>6 DEF Hidden
<1>7. ASSUME lifecycle'[p] # lifecycle[p]
      PROVE  Closed(c)' \/ PendingIn(R, c)' \/ c \in missed'
  <2>1. PICK s \in Scopes, o \in Objects :
              \/ \E C \in SUBSET Chunks : IngestVersion(s, o, C) \/ Reextract(s, o, C)
              \/ Reobserve(s, o) \/ Absent(s, o) \/ CutOff(s, o)
    BY <1>7, ObjectMoves, Zenon
  <2>2. o = p
    BY <1>1, <1>7, <2>1 DEF IngestVersion, Reextract, Reobserve, Absent, CutOff, Present, TypeOK
  <2>3. ASSUME NEW C \in SUBSET Chunks, IngestVersion(s, o, C) PROVE Closed(c)'
    <3>1. current'[p] = current[p] + 1
      BY <1>1, <2>2, <2>3 DEF IngestVersion, TypeOK
    <3>2. m < current'[p]
      BY <1>4, <3>1
    <3> QED  BY <1>4, <3>2 DEF Closed
  <2>4. ASSUME NEW C \in SUBSET Chunks, Reextract(s, o, C) PROVE Closed(c)'
    <3>1. c \notin C /\ current'[p] = current[p]
      BY <2>2, <2>4 DEF Reextract, Unused, Exists
    <3>2. CASE m = current[p]
      <4>1. ext'[p][m] = C
        BY <1>1, <2>2, <2>4, <3>2 DEF Reextract, TypeOK
      <4> QED  BY <1>4, <3>1, <4>1 DEF Closed
    <3>3. CASE m < current[p]
      BY <1>4, <3>1, <3>3 DEF Closed
    <3> QED  BY <1>4, <3>2, <3>3
  <2>5. ASSUME Reobserve(s, o), ~Closed(c) PROVE PendingIn(R, c)' \/ c \in missed'
    <3>1. m = current[p] /\ c \in ext[p][m]
      BY <1>3, <1>4, <2>5 DEF Closed
    <3>2. CASE member[p][s] = "MISSING"
      <4>1. c \in Reobserved(s, o)
        BY <2>2, <3>1, <3>2 DEF Reobserved
      <4> QED  BY <1>1, <2>5, <4>1, Announced
    <3>3. CASE member[p][s] # "MISSING"
      <4>1. c \in Unannounced(s, o) /\ Reobserved(s, o) = {}
        BY <1>5, <2>2, <3>1, <3>3 DEF Unannounced, Reobserved
      <4> QED  BY <2>5, <4>1 DEF Reobserve
    <3> QED  BY <3>2, <3>3
  <2>6. ~Absent(s, o)
    BY <1>5, <2>2 DEF Absent
  <2>7. ASSUME CutOff(s, o) PROVE Closed(c)'
    <3>1. "ACTIVE" \notin {member[o][t] : t \in Scopes \ {s}}
      BY <1>5, <2>2
    <3>2. lifecycle'[p] = "DELETED"
      BY <1>1, <1>5, <1>7, <2>2, <2>7, <3>1 DEF CutOff, TypeOK
    <3> QED  BY <1>4, <3>2 DEF Closed
  <2>8. Closed(c) => Closed(c)'
    BY <1>4
  <2> QED  BY <2>1, <2>3, <2>4, <2>5, <2>6, <2>7, <2>8
<1> QED  BY <1>6, <1>7

\* What is covered by revisions that include the newest stays so.
LEMMA CoveredKept ==
    ASSUME PInv, Next, NEW R, Newest \in R, NEW c \in Chunks, Exists(c), CoveredIn(R, c)
    PROVE  CoveredIn(R, c)'
<1>1. IInv /\ IInv' /\ Grows
  BY Step DEF PInv
<1>2. CASE HasIn(R, c) \/ Closed(c)
  BY <1>1, <1>2, CopyKept DEF CoveredIn
<1>3. CASE Hidden(c)
  BY <1>3, HiddenKept DEF CoveredIn
<1>4. CASE PendingIn(R, c)
  <2>1. \/ PendingIn(R, c)' \/ HasIn(R, c)' \/ Closed(c)'
        \/ Hidden(c) /\ UNCHANGED lifecycle
    BY <1>1, <1>4, PendingKept
  <2>2. Hidden(c) => CoveredIn(R, c)'
    BY <1>3
  <2> QED  BY <2>1, <2>2 DEF CoveredIn
<1>5. CASE c \in missed
  BY <1>1, <1>5, MissedKept DEF CoveredIn
<1> QED  BY <1>2, <1>3, <1>4, <1>5 DEF CoveredIn

\* A chunk row comes with its event.
LEMMA NewChunk ==
    ASSUME PInv, Next, NEW R, NEW c \in Chunks, ~Exists(c), Exists(c)'
    PROVE  PendingIn(R, c)'
<1>1. IInv /\ TypeOK
  BY DEF PInv, IInv
<1>2. chunk' # chunk
  BY DEF Exists
<1>3. ASSUME NEW s \in Scopes, NEW o \in Objects, NEW C \in SUBSET Chunks,
             IngestVersion(s, o, C) \/ Reextract(s, o, C)
      PROVE  PendingIn(R, c)'
  <2>1. Enqueue("UPSERT", C) /\ UNCHANGED wk /\ c \in C
    BY <1>3 DEF IngestVersion, Reextract, Created, Exists
  <2>2. /\ published' = published /\ published \in Nat /\ published <= Len(outbox)
        /\ Len(outbox) \in Nat /\ Len(outbox') \in Nat
    BY <1>1, <2>1, EnqueueFacts DEF TypeOK
  <2>3. PICK i \in Len(outbox) + 1 .. Len(outbox') : outbox'[i].chunk = c
    BY <1>1, <2>1, EnqueueFacts
  <2>4. ASSUME NEW w \in Workers PROVE InTime(w, i, R)'
    <3>1. WorkOf(w)
      BY <1>1, Here
    <3>2. wk[w].step \in EventSteps => wk[w].seq # i
      BY <2>2, <3>1 DEF WorkOf
    <3> QED  BY <2>1, <3>2 DEF InTime, At, EventSteps
  <2>5. i \in published' + 1 .. Len(outbox')
    BY <2>2
  <2> QED  BY <2>3, <2>4, <2>5 DEF PendingIn
<1>4. ASSUME NEW s \in Scopes, NEW o \in Objects, Reobserve(s, o) \/ Absent(s, o) \/ CutOff(s, o)
      PROVE  chunk' = chunk
  BY <1>4 DEF Reobserve, Absent, CutOff
<1> QED  BY <1>2, <1>3, <1>4, ObjectMoves, Zenon

-----------------------------------------------------------------------------
(* An object is active while some scope holds it.                          *)

LEMMA MirrorKept ==
    ASSUME PInv, Next
    PROVE  MirrorInv'
<1>1. IInv /\ IInv' /\ Grows /\ TypeOK /\ MirrorInv /\ TypeOK'
  BY Step DEF PInv, IInv
<1>2. CASE UNCHANGED <<lifecycle, member, chunk>>
  BY <1>1, <1>2 DEF MirrorInv, Exists, ObjectOf, ActiveScopes
<1>3. ASSUME NEW o \in Objects, lifecycle'[o] # "NONE",
             \A p \in Objects : p # o => lifecycle'[p] = lifecycle[p] /\ member'[p] = member[p],
             lifecycle'[o] = "ACTIVE" <=> \E t \in Scopes : member'[o][t] = "ACTIVE",
             \A c \in Chunks : ~Exists(c) /\ Exists(c)' => ObjectOf(c)' = o
      PROVE  MirrorInv'
  <2>1. ASSUME NEW c \in Chunks, Exists(c)' PROVE lifecycle'[ObjectOf(c)'] # "NONE"
    <3>1. CASE ~Exists(c)
      BY <1>3, <2>1, <3>1
    <3>2. CASE Exists(c)
      <4>1. ObjectOf(c)' = ObjectOf(c)
        BY <1>1, <3>2, ClosedKept
      <4>2. lifecycle[ObjectOf(c)] # "NONE" /\ ObjectOf(c) \in Objects
        BY <1>1, <3>2, ChunkFacts DEF MirrorInv
      <4> QED  BY <1>3, <4>1, <4>2
    <3> QED  BY <3>1, <3>2
  <2>2. ASSUME NEW p \in Objects
        PROVE  lifecycle'[p] = "ACTIVE" <=> \E t \in Scopes : member'[p][t] = "ACTIVE"
    <3>1. lifecycle[p] = "ACTIVE" <=> \E t \in Scopes : member[p][t] = "ACTIVE"
      BY <1>1 DEF MirrorInv, ActiveScopes
    <3> QED  BY <1>3, <3>1
  <2> QED  BY <2>1, <2>2 DEF MirrorInv, ActiveScopes
<1>4. ASSUME NEW s \in Scopes, NEW o \in Objects, Present(s, o)
      PROVE  /\ lifecycle'[o] = "ACTIVE" /\ member'[o][s] = "ACTIVE"
             /\ \A p \in Objects : p # o => lifecycle'[p] = lifecycle[p] /\ member'[p] = member[p]
  BY <1>1, <1>4 DEF Present, TypeOK
<1>5. ASSUME NEW s \in Scopes, NEW o \in Objects, NEW C \in SUBSET Chunks,
             IngestVersion(s, o, C) \/ Reextract(s, o, C)
      PROVE  MirrorInv'
  <2>1. Present(s, o)
    BY <1>5 DEF IngestVersion, Reextract
  <2>2. \A c \in Chunks : ~Exists(c) /\ Exists(c)' => ObjectOf(c)' = o
    BY <1>5 DEF IngestVersion, Reextract, Created, Exists, ObjectOf
  <2> QED  BY <1>3, <1>4, <2>1, <2>2
<1>6. ASSUME NEW s \in Scopes, NEW o \in Objects, Reobserve(s, o)
      PROVE  MirrorInv'
  <2>1. Present(s, o) /\ chunk' = chunk
    BY <1>6 DEF Reobserve
  <2> QED  BY <1>3, <1>4, <2>1 DEF Exists
<1>7. ASSUME NEW s \in Scopes, NEW o \in Objects, Absent(s, o)
      PROVE  MirrorInv'
  <2> DEFINE l == IF ActiveScopes(o) = {s} THEN "MISSING" ELSE lifecycle[o]
  <2>1. /\ lifecycle' = [lifecycle EXCEPT ![o] = l]
        /\ member' = [member EXCEPT ![o][s] = "MISSING"]
        /\ chunk' = chunk /\ member[o][s] = "ACTIVE"
    BY <1>1, <1>7 DEF Absent, TypeOK
  <2>2. s \in ActiveScopes(o) /\ lifecycle[o] = "ACTIVE"
    BY <1>1, <2>1 DEF ActiveScopes, MirrorInv
  <2>3. /\ lifecycle'[o] = l /\ member'[o][s] = "MISSING"
        /\ \A t \in Scopes : t # s => member'[o][t] = member[o][t]
        /\ \A p \in Objects : p # o => lifecycle'[p] = lifecycle[p] /\ member'[p] = member[p]
    <3> HIDE DEF l
    <3> QED  BY <1>1, <2>1 DEF TypeOK
  <2>4. (\E t \in Scopes : member'[o][t] = "ACTIVE") <=> ActiveScopes(o) # {s}
    BY <2>2, <2>3 DEF ActiveScopes
  <2>5. l # "NONE" /\ (l = "ACTIVE" <=> ActiveScopes(o) # {s})
    BY <2>2
  <2> HIDE DEF l
  <2> QED  BY <1>3, <2>1, <2>3, <2>4, <2>5 DEF Exists
<1>8. ASSUME NEW s \in Scopes, NEW o \in Objects, CutOff(s, o)
      PROVE  MirrorInv'
  <2> DEFINE rest == {member[o][t] : t \in Scopes \ {s}}
             l == IF "ACTIVE" \in rest THEN lifecycle[o]
                  ELSE IF "MISSING" \in rest THEN "MISSING" ELSE "DELETED"
  <2>1. /\ lifecycle' = [lifecycle EXCEPT ![o] = l]
        /\ member' = [member EXCEPT ![o][s] = "REMOVED"]
        /\ chunk' = chunk
    BY <1>1, <1>8 DEF CutOff, TypeOK
  <2>2. "ACTIVE" \in rest => lifecycle[o] = "ACTIVE"
    BY <1>1 DEF ActiveScopes, MirrorInv
  <2>3. /\ lifecycle'[o] = l /\ member'[o][s] = "REMOVED"
        /\ \A t \in Scopes : t # s => member'[o][t] = member[o][t]
        /\ \A p \in Objects : p # o => lifecycle'[p] = lifecycle[p] /\ member'[p] = member[p]
    <3> HIDE DEF l
    <3> QED  BY <1>1, <2>1 DEF TypeOK
  <2>4. (\E t \in Scopes : member'[o][t] = "ACTIVE") <=> "ACTIVE" \in rest
    BY <2>3
  <2>5. l # "NONE" /\ (l = "ACTIVE" <=> "ACTIVE" \in rest)
    BY <2>2
  <2> HIDE DEF l, rest
  <2> QED  BY <1>3, <2>1, <2>3, <2>4, <2>5 DEF Exists
<1> QED  BY <1>2, <1>5, <1>6, <1>7, <1>8, ObjectMoves, Zenon

-----------------------------------------------------------------------------
(* The passes over the corpus.                                             *)

\* A chunk that a page leaves out, or a reload refuses, is covered.
LEMMA UnlistedCovered ==
    ASSUME PInv, NEW R, NEW c \in Chunks, Exists(c), ~Indexable(c)
    PROVE  CoveredIn(R, c)
<1>1. TypeOK /\ CatalogInv /\ MirrorInv
  BY DEF PInv, IInv
<1>2. /\ ObjectOf(c) \in Objects /\ VersionOf(c) \in Nat /\ current[ObjectOf(c)] \in Nat
      /\ VersionOf(c) <= current[ObjectOf(c)]
  BY <1>1, ChunkFacts DEF CatalogInv
<1>3. SUFFICES ASSUME ~Closed(c), ~Hidden(c) PROVE FALSE
  BY DEF CoveredIn
<1>4. /\ current[ObjectOf(c)] = VersionOf(c) /\ RetentionOf(c) = "ACTIVE"
      /\ c \in ext[ObjectOf(c)][VersionOf(c)]
  BY <1>2, <1>3 DEF Closed
<1>5. lifecycle[ObjectOf(c)] = "ACTIVE"
  <2>1. lifecycle[ObjectOf(c)] \in {"NONE", "ACTIVE", "MISSING", "DELETED"}
    BY <1>1, <1>2 DEF TypeOK, Lifecycles
  <2>2. lifecycle[ObjectOf(c)] # "NONE"
    BY <1>1 DEF MirrorInv
  <2> QED  BY <1>3, <2>1, <2>2 DEF Closed, Hidden
<1>6. ActiveScopes(ObjectOf(c)) # {}
  BY <1>1, <1>2, <1>5 DEF MirrorInv
<1> QED  BY <1>4, <1>5, <1>6 DEF Indexable, Listed, RetentionOf, ObjectOf, VersionOf, Exists

\* What the pass has covered stays covered, and a new chunk has its event.
LEMMA RebuiltKept ==
    ASSUME PInv, Next, Newest' = Newest, NEW c \in Chunks, Exists(c)',
           Exists(c) => Rebuilt(c)
    PROVE  Rebuilt(c)'
<1>1. PICK r : r = Newest
  OBVIOUS
<1>2. CASE ~Exists(c)
  <2>1. PendingIn({r}, c)'
    BY <1>2, NewChunk
  <2> QED  BY <1>1, <2>1 DEF Rebuilt, CoveredIn
<1>3. CASE Exists(c)
  <2>1. CoveredIn({r}, c)
    BY <1>1, <1>3 DEF Rebuilt
  <2>2. CoveredIn({r}, c)'
    BY <1>1, <1>3, <2>1, CoveredKept
  <2> QED  BY <1>1, <2>2 DEF Rebuilt
<1> QED  BY <1>2, <1>3

\* Who changes the revisions.
LEMMA RevisionMoves ==
    ASSUME IInv, Next, revs' # revs
    PROVE  \/ \E p \in Profiles : StageRevision(p)
           \/ \E w \in Workers : /\ ActivateRevision(w) /\ wk[w].staged = Newest /\ HasStaged
                                 /\ Newest' = Newest /\ ~HasStaged'
<1>1. ASSUME NEW s \in Scopes, NEW o \in Objects, NEW C \in SUBSET Chunks,
             \/ IngestVersion(s, o, C) \/ Reextract(s, o, C) \/ Reobserve(s, o)
             \/ Absent(s, o) \/ CutOff(s, o)
      PROVE  revs' = revs
  BY <1>1 DEF IngestVersion, Reextract, Reobserve, Absent, CutOff
<1>2. ASSUME NEW o \in Objects, NEW n \in Versions,
             BeginPurge(o, n) \/ Cleanup(o, n) \/ CompletePurge(o, n)
      PROVE  revs' = revs
  BY <1>2 DEF BeginPurge, Cleanup, CompletePurge
<1>3. ASSUME NEW d \in late, Land(d) PROVE revs' = revs
  BY <1>3 DEF Land
<1>4. ASSUME NEW w \in Workers,
             \/ ReadNext(w) \/ LoadDocument(w) \/ Index(w) \/ DeleteProfileCopies(w) \/ Publish(w)
             \/ VersionPurged(w) \/ PublishMissing(w) \/ PublishSuperseded(w)
      PROVE  revs' = revs
  BY <1>4 DEF ReadNext, LoadDocument, Index, DeleteProfileCopies, Publish, VersionPurged,
              PublishMissing, PublishSuperseded
<1>5. ASSUME NEW w \in Workers,
             \/ NotObsolete(w) \/ Fail(w) \/ StartReindex(w) \/ ReadPage(w) \/ NextPage(w)
             \/ Exhausted(w) \/ \E c \in Chunks : Reload(w, c)
      PROVE  revs' = revs
  BY <1>5 DEF NotObsolete, Fail, StartReindex, ReadPage, NextPage, Exhausted, Reload
<1>6. ASSUME NEW w \in Workers,
             \/ IndexTimeout(w) \/ Crash(w)
             \/ \E d \in wk[w].docs : Rewrite(w, d) \/ RewriteTimeout(w, d)
             \/ \E p \in Profiles : Redeploy(w, p)
      PROVE  revs' = revs
  BY <1>6 DEF IndexTimeout, Crash, Rewrite, RewriteTimeout, Redeploy
<1>7. ASSUME NEW w \in Workers, ActivateRevision(w)
      PROVE  wk[w].staged = Newest /\ HasStaged /\ Newest' = Newest /\ ~HasStaged'
  <2> DEFINE r == wk[w].staged
             cut == [q \in DOMAIN revs |-> IF q = r THEN [revs[q] EXCEPT !.status = "ACTIVE"]
                                           ELSE [revs[q] EXCEPT !.status = "SUPERSEDED"]]
  <2>1. revs[r].status = "STAGING" /\ revs' = cut
    BY <1>7 DEF ActivateRevision
  <2>2. r \in 1 .. Newest
    BY <1>7, Here DEF ActivateRevision, WorkOf, At
  <2>3. r = Newest /\ HasStaged
    BY <2>1, <2>2, OnlyNewestStaged
  <2> DEFINE R == [profile : Profiles, status : {"STAGING", "ACTIVE", "SUPERSEDED"}]
  <2>4. revs \in Seq(R)
    BY DEF IInv, TypeOK
  <2> HIDE DEF R
  <2>5. DOMAIN revs = 1 .. Len(revs) /\ Len(revs) \in Nat /\ revs[r] \in R
    BY <2>2, <2>4 DEF Newest
  <2>6. cut[r].status = "ACTIVE"
    BY <2>2, <2>5 DEF Newest, R
  <2>7. Len(cut) = Len(revs)
    BY <2>5
  <2> HIDE DEF cut
  <2> QED  BY <2>1, <2>3, <2>6, <2>7 DEF Newest, HasStaged
<1>8. ASSUME NEW w \in Workers, WorkerStep(w) PROVE ActivateRevision(w)
  <2>1. \/ ReadNext(w) \/ LoadDocument(w) \/ Index(w) \/ DeleteProfileCopies(w) \/ Publish(w)
        \/ VersionPurged(w) \/ PublishMissing(w) \/ PublishSuperseded(w)
        \/ NotObsolete(w) \/ Fail(w) \/ StartReindex(w) \/ ReadPage(w) \/ NextPage(w)
        \/ Exhausted(w) \/ ActivateRevision(w) \/ (\E c \in Chunks : Reload(w, c))
        \/ \E d \in wk[w].docs : Rewrite(w, d)
    BY <1>8, Zenon DEF WorkerStep
  <2> QED  BY <1>4, <1>5, <1>6, <2>1
<1>9. CASE CatalogStep
  BY <1>1, <1>2, <1>9 DEF CatalogStep
<1>10. CASE \E w \in Workers : ActivateRevision(w)
  BY <1>7, <1>10
<1> QED  BY <1>3, <1>6, <1>8, <1>9, <1>10, Zenon DEF Next

\* While a revision stays the staged one, no revision changes.
LEMMA StagedStays ==
    ASSUME IInv, Next, NEW w \in Workers, wk[w].step \in {"PAGE", "REBUILD", "ACTIVATE"},
           wk'[w].staged = wk[w].staged, Rebuilds(w)'
    PROVE  Rebuilds(w) /\ Newest' = Newest
<1>1. wk[w].staged \in 1 .. Newest /\ Newest \in Nat
  BY Here DEF WorkOf
<1>2. CASE revs' = revs
  BY <1>2 DEF Rebuilds, HasStaged, Newest
<1>3. CASE \E p \in Profiles : StageRevision(p)
  <2>1. Newest' = Newest + 1
    <3>1. PICK p \in Profiles : StageRevision(p)
      BY <1>3
    <3>2. revs \in Seq([profile : Profiles, status : {"STAGING", "ACTIVE", "SUPERSEDED"}])
      BY DEF IInv, TypeOK
    <3> QED  BY <3>1, <3>2 DEF StageRevision, Newest
  <2> QED  BY <1>1, <2>1 DEF Rebuilds
<1>4. CASE ~HasStaged'
  BY <1>4 DEF Rebuilds
<1> QED  BY <1>2, <1>3, <1>4, RevisionMoves

\* A cursor is kept, given up or moved to the end of a whole slice.
LEMMA CursorMoves ==
    ASSUME IInv, Next, NEW w \in Workers
    PROVE  \/ wk'[w].cursor = wk[w].cursor /\ wk'[w].built = wk[w].built
           \/ wk'[w].built = 0
           \/ NextPage(w)
<1> DEFINE Same == wk'[w].cursor = wk[w].cursor /\ wk'[w].built = wk[w].built
           Gone == wk'[w].built = 0
<1>0. wk \in [Workers -> WorkerStates] /\ wk[w] \in WorkerStates
  BY Here
<1>1. CASE CatalogStep \/ \E d \in late : Land(d)
  BY <1>0, <1>1, CatalogHands DEF Land
<1>2. ASSUME NEW v \in Workers, v # w,
             \/ WorkerStep(v) \/ IndexTimeout(v) \/ Crash(v)
             \/ \E d \in wk[v].docs : RewriteTimeout(v, d)
             \/ \E p \in Profiles : Redeploy(v, p)
      PROVE  Same
  BY <1>0, <1>2, WorkerHands
<1>3. ReadNext(w) \/ Publish(w) \/ VersionPurged(w) => Same
  BY <1>0 DEF ReadNext, Publish, VersionPurged, Goto, WorkerStates
<1>4. PublishMissing(w) \/ PublishSuperseded(w) \/ NotObsolete(w) => Same
  BY <1>0 DEF PublishMissing, PublishSuperseded, NotObsolete, Goto, WorkerStates
<1>5. Restart(w) => Gone
  BY <1>0 DEF Restart, Fresh
<1>6. Fail(w) \/ ActivateRevision(w) \/ IndexTimeout(w) \/ Crash(w) => Gone
  BY <1>5 DEF Fail, ActivateRevision, IndexTimeout, Crash
<1>7. LoadDocument(w) => Same
  BY <1>0 DEF LoadDocument, WorkerStates
<1>8. Index(w) \/ DeleteProfileCopies(w) => Same
  BY <1>0 DEF Index, DeleteProfileCopies, Goto, WorkerStates
<1>9. StartReindex(w) \/ ReadPage(w) => Same
  BY <1>0 DEF StartReindex, ReadPage, WorkerStates
<1>10. Exhausted(w) => Gone
  BY <1>0 DEF Exhausted, Fresh
<1>11. Kept(w).cursor = wk[w].cursor /\ Kept(w).built = wk[w].built
  BY <1>0 DEF Kept, Fresh
<1>12. ASSUME NEW c \in Chunks, Reload(w, c) PROVE Same
  <2>1. CASE Listed(c) /\ Conflict(w)
    BY <1>0, <1>11, <1>12, <2>1 DEF Reload
  <2>2. CASE ~(Listed(c) /\ Conflict(w))
    BY <1>0, <1>12, <2>2 DEF Reload, WorkerStates
  <2> QED  BY <2>1, <2>2
<1>13. ASSUME NEW d \in wk[w].docs, Rewrite(w, d) PROVE Same
  BY <1>0, <1>13 DEF Rewrite, WorkerStates
<1>14. ASSUME NEW d \in wk[w].docs, RewriteTimeout(w, d) PROVE Same
  BY <1>0, <1>11, <1>14 DEF RewriteTimeout
<1>15. ASSUME NEW p \in Profiles, Redeploy(w, p) PROVE Gone
  BY <1>0, <1>15 DEF Redeploy, Fresh
<1>16. ASSUME WorkerStep(w) PROVE Same \/ Gone \/ NextPage(w)
  <2>1. \/ ReadNext(w) \/ LoadDocument(w) \/ Index(w) \/ DeleteProfileCopies(w) \/ Publish(w)
        \/ VersionPurged(w) \/ PublishMissing(w) \/ PublishSuperseded(w)
        \/ NotObsolete(w) \/ Fail(w) \/ StartReindex(w) \/ ReadPage(w) \/ NextPage(w)
        \/ Exhausted(w) \/ ActivateRevision(w) \/ (\E c \in Chunks : Reload(w, c))
        \/ \E d \in wk[w].docs : Rewrite(w, d)
    BY <1>16, Zenon DEF WorkerStep
  <2> HIDE DEF Same, Gone
  <2> QED  BY <1>3, <1>4, <1>6, <1>7, <1>8, <1>9, <1>10, <1>12, <1>13, <2>1
<1>17. CASE \/ IndexTimeout(w) \/ Crash(w)
            \/ \E d \in wk[w].docs : RewriteTimeout(w, d)
            \/ \E p \in Profiles : Redeploy(w, p)
  BY <1>6, <1>14, <1>15, <1>17
<1> QED  BY <1>1, <1>2, <1>16, <1>17, Zenon DEF Next

\* What lies before the cursor of a staged revision stays covered.
LEMMA ResumeKept ==
    ASSUME PInv, Next, NEW w \in Workers
    PROVE  ResumeOf(w)'
<1>1. /\ IInv /\ WalkOf(w) /\ ResumeOf(w) /\ WorkOf(w)
      /\ wk \in [Workers -> WorkerStates] /\ wk[w] \in WorkerStates
  BY Here DEF PInv, WalkInv
<1>2. /\ Newest \in Nat /\ Newest' \in Nat /\ Newest # 0 /\ Newest <= Newest' /\ Newest' # 0
      /\ revs \in Seq([profile : Profiles, status : {"STAGING", "ACTIVE", "SUPERSEDED"}])
      /\ wk[w].built \in 0 .. Newest
  <2>1. /\ TypeOK /\ TypeOK' /\ Grows
    BY <1>1, Step DEF IInv
  <2>2. Len(revs) \in Revisions /\ Len(revs') \in Revisions
    BY <2>1, ConstantFacts DEF TypeOK, Revisions
  <2>3. Newest <= Newest'
    <3>1. CASE revs' = revs
      BY <2>2, <3>1, ConstantFacts DEF Newest, Revisions
    <3>2. ASSUME NEW p \in Profiles, StageRevision(p) PROVE Newest' = Newest + 1
      BY <2>1, <3>2 DEF StageRevision, Newest, TypeOK
    <3> QED  BY <1>1, <2>2, <3>1, <3>2, RevisionMoves, ConstantFacts DEF Newest, Revisions
  <2> QED  BY <1>1, <2>1, <2>2, <2>3, ConstantFacts DEF Newest, Revisions, TypeOK, ResumeOf
<1>3. CASE wk'[w].built = 0
  BY <1>2, <1>3 DEF ResumeOf
<1>4. CASE wk'[w].cursor = wk[w].cursor /\ wk'[w].built = wk[w].built
  <2>1. wk'[w].built \in 0 .. Newest'
    BY <1>2, <1>4
  <2>2. ASSUME HasStaged', wk'[w].built = Newest', NEW c \in Chunks, Exists(c)', c <= wk'[w].cursor
        PROVE  Rebuilt(c)'
    <3>1. Newest' = Newest
      BY <1>2, <1>4, <2>2
    <3>2. HasStaged
      <4>1. CASE revs' = revs
        BY <2>2, <4>1 DEF HasStaged, Newest
      <4>2. ASSUME NEW p \in Profiles, StageRevision(p) PROVE Newest' = Newest + 1
        BY <1>2, <4>2 DEF StageRevision, Newest
      <4> QED  BY <1>1, <1>2, <2>2, <3>1, <4>1, <4>2, RevisionMoves
    <3>3. Exists(c) => Rebuilt(c)
      BY <1>1, <1>4, <2>2, <3>1, <3>2 DEF ResumeOf
    <3> QED  BY <2>2, <3>1, <3>3, RebuiltKept
  <2> QED  BY <2>1, <2>2 DEF ResumeOf
<1>5. CASE /\ NextPage(w)
           /\ ~(wk'[w].cursor = wk[w].cursor /\ wk'[w].built = wk[w].built)
  <2>1. /\ wk[w].page = {} /\ wk[w].docs = {} /\ wk[w].step = "REBUILD" /\ revs' = revs
    BY <1>5 DEF NextPage, PageDone, At
  <2>2. wk'[w].cursor = wk[w].after /\ wk'[w].built = wk[w].staged
    BY <1>1, <1>5 DEF NextPage, WorkerStates
  <2>3. Newest' = Newest /\ HasStaged' = HasStaged /\ wk[w].staged \in 0 .. Newest
    BY <1>1, <1>2, <2>1 DEF HasStaged, Newest, WorkOf
  <2>4. ASSUME HasStaged', wk'[w].built = Newest', NEW c \in Chunks, Exists(c)', c <= wk'[w].cursor
        PROVE  Rebuilt(c)'
    <3>1. Rebuilds(w) /\ Passed(w, c)
      BY <2>1, <2>2, <2>3, <2>4 DEF Rebuilds, Passed
    <3>2. Exists(c) => Rebuilt(c)
      BY <1>1, <2>1, <3>1 DEF WalkOf
    <3> QED  BY <2>3, <2>4, <3>2, RebuiltKept
  <2> QED  BY <2>2, <2>3, <2>4 DEF ResumeOf
<1> QED  BY <1>1, <1>3, <1>4, <1>5, CursorMoves

\* A pass goes on with what it has covered.
LEMMA WalkStill ==
    ASSUME PInv, Next, NEW w \in Workers, wk'[w] = wk[w]
    PROVE  WalkOf(w)'
<1>1. IInv /\ WalkOf(w)
  BY DEF PInv, WalkInv
<1>2. ASSUME wk[w].step \in {"PAGE", "REBUILD", "ACTIVATE"}, Rebuilds(w)'
      PROVE  Rebuilds(w) /\ Newest' = Newest
  BY <1>1, <1>2, StagedStays
<1>3. ASSUME Newest' = Newest, NEW c \in Chunks, Exists(c)', Exists(c) => Rebuilt(c)
      PROVE  Rebuilt(c)'
  BY <1>3, RebuiltKept
<1>4. ASSUME wk[w].step \in {"PAGE", "REBUILD"}, Rebuilds(w)'
      PROVE  /\ \A d \in wk'[w].docs : d.rev = Newest'
             /\ \A c \in Chunks : Exists(c)' /\ Passed(w, c)' => Rebuilt(c)'
  <2>1. Rebuilds(w) /\ Newest' = Newest
    BY <1>2, <1>4
  <2>2. /\ \A d \in wk[w].docs : d.rev = Newest
        /\ \A c \in Chunks : Exists(c) /\ Passed(w, c) => Rebuilt(c)
    BY <1>1, <1>4, <2>1 DEF WalkOf
  <2>3. \A c \in Chunks : Passed(w, c)' => Passed(w, c)
    BY DEF Passed
  <2> QED  BY <1>3, <2>1, <2>2, <2>3
<1>5. ASSUME wk[w].step = "ACTIVATE", Rebuilds(w)'
      PROVE  \A c \in Chunks : Exists(c)' => Rebuilt(c)'
  <2>1. Rebuilds(w) /\ Newest' = Newest
    BY <1>2, <1>5
  <2>2. \A c \in Chunks : Exists(c) => Rebuilt(c)
    BY <1>1, <1>5, <2>1 DEF WalkOf
  <2> QED  BY <1>3, <2>1, <2>2
<1> QED  BY <1>4, <1>5 DEF WalkOf

\* A pass starts behind what its cursor covers, or leaves out what it does not.
LEMMA WalkStarts ==
    ASSUME PInv, Next, NEW w \in Workers, StartReindex(w)
    PROVE  WalkOf(w)'
<1>1. /\ IInv /\ WalkOf(w) /\ ResumeOf(w) /\ WorkOf(w)
      /\ wk \in [Workers -> WorkerStates] /\ wk[w] \in WorkerStates
  BY Here DEF PInv, WalkInv
<1>2. /\ wk'[w].step = "PAGE" /\ wk'[w].after = wk[w].cursor
      /\ wk'[w].page = wk[w].page /\ wk'[w].docs = wk[w].docs /\ wk'[w].short = wk[w].short
      /\ HasStaged /\ revs' = revs
  BY <1>1 DEF StartReindex, WorkerStates
<1>3. wk[w].page = {} /\ wk[w].docs = {} /\ ~wk[w].short
  BY <1>1 DEF StartReindex, At, WorkOf
<1>4. ASSUME NEW c \in Chunks, Exists(c)', Passed(w, c)' PROVE Rebuilt(c)'
  <2>1. c <= wk[w].cursor
    BY <1>2, <1>3, <1>4 DEF Passed
  <2>2. CASE wk[w].built = Newest
    <3>1. Exists(c) => Rebuilt(c)
      BY <1>1, <1>2, <2>1, <2>2 DEF ResumeOf
    <3>2. Newest' = Newest
      BY <1>2 DEF Newest
    <3> QED  BY <1>4, <3>1, <3>2, RebuiltKept
  <2>3. CASE wk[w].built # Newest
    <3>1. c \in missed'
      BY <2>1, <2>3 DEF StartReindex, SkippedBy
    <3> QED  BY <3>1 DEF Rebuilt, CoveredIn
  <2> QED  BY <2>2, <2>3
<1>5. \A d \in wk'[w].docs : d.rev = Newest'
  BY <1>2, <1>3
<1> QED  BY <1>2, <1>4, <1>5 DEF WalkOf

\* The next page begins where the last one ended.
LEMMA WalkTurns ==
    ASSUME PInv, Next, NEW w \in Workers, NextPage(w)
    PROVE  WalkOf(w)'
<1>1. /\ IInv /\ WalkOf(w) /\ WorkOf(w) /\ wk \in [Workers -> WorkerStates] /\ wk[w] \in WorkerStates
  BY Here DEF PInv, WalkInv
<1>2. /\ wk[w].page = {} /\ wk[w].docs = {} /\ ~wk[w].short /\ wk[w].step = "REBUILD"
      /\ revs' = revs
  BY DEF NextPage, PageDone, At
<1>3. /\ wk'[w].step = "PAGE" /\ wk'[w].after = wk[w].after
      /\ wk'[w].page = {} /\ wk'[w].docs = {} /\ wk'[w].short = wk[w].short
      /\ wk'[w].staged = wk[w].staged
  BY <1>1, <1>2 DEF NextPage, WorkerStates
<1>4. ASSUME Rebuilds(w)', NEW c \in Chunks, Exists(c)', Passed(w, c)' PROVE Rebuilt(c)'
  <2>1. Rebuilds(w) /\ Newest' = Newest
    BY <1>2, <1>3, <1>4 DEF Rebuilds, HasStaged, Newest
  <2>2. Passed(w, c)
    BY <1>2, <1>3, <1>4 DEF Passed
  <2>3. Exists(c) => Rebuilt(c)
    BY <1>1, <1>2, <2>1, <2>2 DEF WalkOf
  <2> QED  BY <1>4, <2>1, <2>3, RebuiltKept
<1>5. \A d \in wk'[w].docs : d.rev = Newest'
  BY <1>3
<1> QED  BY <1>3, <1>4, <1>5 DEF WalkOf

\* What a page leaves out is not listed, or is cut off; its own chunks are
\* still to come.
LEMMA WalkReads ==
    ASSUME PInv, Next, NEW w \in Workers, ReadPage(w)
    PROVE  WalkOf(w)'
<1> DEFINE k == wk[w].after
           n == Slice - wk[w].indexed
           refs == References(k)
           page == FirstOf(refs, n)
           m == CursorAfter(page)
<1>1. /\ IInv /\ WalkOf(w) /\ WorkOf(w) /\ wk \in [Workers -> WorkerStates] /\ wk[w] \in WorkerStates
  BY Here DEF PInv, WalkInv
<1>2. /\ wk[w].step = "PAGE" /\ refs # {} /\ revs' = revs
      /\ missed' = missed \cup CutOffBy(refs, page)
  BY DEF ReadPage, At
<1>3. /\ wk[w].page = {} /\ wk[w].docs = {} /\ wk[w].indexed < Slice
  BY <1>1, <1>2 DEF WorkOf, At
<1>4. /\ wk'[w].step = "REBUILD" /\ wk'[w].after = m
      /\ wk'[w].page = page /\ wk'[w].docs = {} /\ wk'[w].short = (Cardinality(refs) < PageSize)
      /\ wk'[w].staged = wk[w].staged
  BY <1>1, <1>3 DEF ReadPage, WorkerStates
<1>5. /\ k \in Chunks \cup {0} /\ wk[w].indexed \in Nat /\ Slice \in Nat /\ n \in Nat /\ n # 0
  BY <1>1, <1>3, ConstantFacts DEF WorkerStates
<1>6. /\ \A c \in Chunks : Listed(c) /\ c > k /\ c <= m => c \in page
      /\ Cardinality(refs) < PageSize
            => \A c \in Chunks : Listed(c) /\ c > k => c \in refs
  BY <1>2, <1>5, PageFacts
<1> HIDE DEF page, m, refs
<1>7. ASSUME Rebuilds(w)', NEW c \in Chunks, Exists(c)', Passed(w, c)' PROVE Rebuilt(c)'
  <2>1. Rebuilds(w) /\ Newest' = Newest
    BY <1>2, <1>4, <1>7 DEF Rebuilds, HasStaged, Newest
  <2>2. c \notin page /\ (c <= m \/ Cardinality(refs) < PageSize)
    BY <1>4, <1>7 DEF Passed
  <2>3. CASE c <= k
    <3>1. Passed(w, c)
      BY <1>3, <2>3 DEF Passed
    <3>2. Exists(c) => Rebuilt(c)
      BY <1>1, <1>2, <2>1, <3>1 DEF WalkOf
    <3> QED  BY <1>7, <2>1, <3>2, RebuiltKept
  <2>4. CASE c > k /\ Listed(c)
    <3>1. c \in missed'
      BY <1>2, <1>6, <2>2, <2>4 DEF CutOffBy
    <3> QED  BY <3>1 DEF Rebuilt, CoveredIn
  <2>5. CASE ~Listed(c)
    <3>1. PICK r : r = Newest
      OBVIOUS
    <3>2. Exists(c) => CoveredIn({r}, c)
      BY <2>5, UnlistedCovered DEF Indexable
    <3>3. Exists(c) => Rebuilt(c)
      BY <3>1, <3>2 DEF Rebuilt
    <3> QED  BY <1>7, <2>1, <3>3, RebuiltKept
  <2>6. c \in Nat /\ k \in Nat
    <3>1. \A e \in Chunks \cup {0} : e \in Nat
      BY ConstantFacts
    <3> QED  BY <1>5, <3>1
  <2> QED  BY <2>3, <2>4, <2>5, <2>6
<1>8. \A d \in wk'[w].docs : d.rev = Newest'
  BY <1>4
<1> QED  BY <1>4, <1>7, <1>8 DEF WalkOf

\* What a reload does not take over is covered without it.
LEMMA WalkReloads ==
    ASSUME PInv, Next, NEW w \in Workers, NEW c \in Chunks, Reload(w, c),
           wk'[w].step = "REBUILD"
    PROVE  WalkOf(w)'
<1> DEFINE page == wk[w].page \ {c}
           docs == IF Indexable(c) THEN wk[w].docs \cup {Document(c)} ELSE wk[w].docs
<1>1. /\ IInv /\ WalkOf(w) /\ WorkOf(w) /\ wk \in [Workers -> WorkerStates] /\ wk[w] \in WorkerStates
  BY Here DEF PInv, WalkInv
<1>2. wk[w].step = "REBUILD" /\ c \in wk[w].page /\ revs' = revs
  BY DEF Reload, At
<1>3. wk' = [wk EXCEPT ![w] = [wk[w] EXCEPT !.page = page, !.docs = docs]]
  <2>1. CASE Listed(c) /\ Conflict(w)
    <3>1. wk'[w].step = "IDLE"
      BY <1>1, <2>1 DEF Reload, Kept, Fresh
    <3> QED  BY <3>1
  <2>2. CASE ~(Listed(c) /\ Conflict(w))
    BY <1>1, <2>2 DEF Reload, WorkerStates
  <2> QED  BY <2>1, <2>2
<1>4. /\ wk'[w].after = wk[w].after
      /\ wk'[w].page = page /\ wk'[w].docs = docs /\ wk'[w].short = wk[w].short
      /\ wk'[w].staged = wk[w].staged
  <2> HIDE DEF page, docs
  <2> QED  BY <1>1, <1>3 DEF WorkerStates
<1>5. Rebuilds(w)' => Rebuilds(w) /\ Newest' = Newest
  BY <1>2, <1>4 DEF Rebuilds, HasStaged, Newest
<1>6. ASSUME Rebuilds(w)', NEW d \in docs PROVE d.rev = Newest'
  <2>1. \A e \in wk[w].docs : e.rev = Newest
    BY <1>1, <1>2, <1>5, <1>6 DEF WalkOf
  <2>2. Document(c).rev = Newest
    BY <1>1, DocumentType
  <2>3. d \in wk[w].docs \/ d = Document(c)
    OBVIOUS
  <2> HIDE DEF docs
  <2> QED  BY <1>5, <1>6, <2>1, <2>2, <2>3
<1>7. ASSUME Rebuilds(w)', NEW e \in Chunks, Exists(e)', Passed(w, e)' PROVE Rebuilt(e)'
  <2>1. (e <= wk[w].after \/ wk[w].short) /\ e \notin page /\ \A d \in docs : d.chunk # e
    <3> HIDE DEF page, docs
    <3> QED  BY <1>4, <1>7 DEF Passed
  <2>2. CASE e # c
    <3>1. Passed(w, e)
      BY <2>1, <2>2 DEF Passed
    <3>2. Exists(e) => Rebuilt(e)
      BY <1>1, <1>2, <1>5, <1>7, <3>1 DEF WalkOf
    <3> QED  BY <1>5, <1>7, <3>2, RebuiltKept
  <2>3. CASE e = c
    <3>1. ~Indexable(c)
      <4>1. Document(c).chunk = c
        BY <1>1, DocumentType
      <4> QED  BY <2>1, <2>3, <4>1
    <3>2. PICK r : r = Newest
      OBVIOUS
    <3>3. Exists(c) => CoveredIn({r}, c)
      BY <3>1, UnlistedCovered
    <3>4. Exists(c) => Rebuilt(c)
      BY <3>2, <3>3 DEF Rebuilt
    <3> QED  BY <1>5, <1>7, <2>3, <3>4, RebuiltKept
  <2> QED  BY <2>2, <2>3
<1> HIDE DEF page, docs
<1> QED  BY <1>4, <1>6, <1>7 DEF WalkOf

\* A rewritten chunk is in the staged revision's index.
LEMMA WalkRewrites ==
    ASSUME PInv, Next, NEW w \in Workers, NEW d \in wk[w].docs, Rewrite(w, d)
    PROVE  WalkOf(w)'
<1> DEFINE docs == wk[w].docs \ {d}
<1>1. /\ IInv /\ WalkOf(w) /\ WorkOf(w) /\ wk \in [Workers -> WorkerStates] /\ wk[w] \in WorkerStates
  BY Here DEF PInv, WalkInv
<1>2. wk[w].step = "REBUILD" /\ revs' = revs /\ index' = Stored(d)
  BY DEF Rewrite, At
<1>3. /\ wk'[w].step = "REBUILD" /\ wk'[w].after = wk[w].after
      /\ wk'[w].page = wk[w].page /\ wk'[w].docs = docs /\ wk'[w].short = wk[w].short
      /\ wk'[w].staged = wk[w].staged
  BY <1>1, <1>2 DEF Rewrite, WorkerStates
<1>4. Rebuilds(w)' => Rebuilds(w) /\ Newest' = Newest
  BY <1>2, <1>3 DEF Rebuilds, HasStaged, Newest
<1>5. Rebuilds(w)' => \A e \in wk[w].docs : e.rev = Newest'
  BY <1>1, <1>2, <1>4 DEF WalkOf
<1>6. ASSUME Rebuilds(w)', NEW c \in Chunks, Exists(c)', Passed(w, c)' PROVE Rebuilt(c)'
  <2>1. (c <= wk[w].after \/ wk[w].short) /\ c \notin wk[w].page /\ \A e \in docs : e.chunk # c
    <3> HIDE DEF docs
    <3> QED  BY <1>3, <1>6 DEF Passed
  <2>2. CASE c # d.chunk
    <3>1. Passed(w, c)
      BY <2>1, <2>2 DEF Passed
    <3>2. Exists(c) => Rebuilt(c)
      BY <1>1, <1>2, <1>4, <1>6, <3>1 DEF WalkOf
    <3> QED  BY <1>4, <1>6, <3>2, RebuiltKept
  <2>3. CASE c = d.chunk
    <3>1. d \in index' /\ d.rev = Newest'
      BY <1>2, <1>5, <1>6 DEF Stored
    <3> QED  BY <2>3, <3>1 DEF Rebuilt, CoveredIn, HasIn, Has
  <2> QED  BY <2>2, <2>3
<1>7. Rebuilds(w)' => \A e \in wk'[w].docs : e.rev = Newest'
  BY <1>3, <1>5
<1> QED  BY <1>3, <1>6, <1>7 DEF WalkOf

\* The corpus is exhausted: every chunk was passed or is not listed.
LEMMA WalkExhausts ==
    ASSUME PInv, Next, NEW w \in Workers, Exhausted(w)
    PROVE  WalkOf(w)'
<1>1. /\ IInv /\ WalkOf(w) /\ WorkOf(w) /\ wk \in [Workers -> WorkerStates] /\ wk[w] \in WorkerStates
  BY Here DEF PInv, WalkInv
<1>2. revs' = revs /\ wk[w].step \in {"PAGE", "REBUILD"}
  BY DEF Exhausted, PageDone, At
<1>3. wk'[w].step = "ACTIVATE" /\ wk'[w].staged = wk[w].staged
  BY <1>1 DEF Exhausted, Fresh
<1>4. wk[w].page = {} /\ wk[w].docs = {}
  BY <1>1 DEF Exhausted, PageDone, WorkOf, At
<1>5. ASSUME Rebuilds(w)', NEW c \in Chunks, Exists(c)' PROVE Rebuilt(c)'
  <2>1. Rebuilds(w) /\ Newest' = Newest
    BY <1>2, <1>3, <1>5 DEF Rebuilds, HasStaged, Newest
  <2>2. CASE c <= wk[w].after \/ wk[w].short
    <3>1. Passed(w, c)
      BY <1>4, <2>2 DEF Passed
    <3>2. Exists(c) => Rebuilt(c)
      BY <1>1, <1>2, <2>1, <3>1 DEF WalkOf
    <3> QED  BY <1>5, <2>1, <3>2, RebuiltKept
  <2>3. CASE c > wk[w].after /\ ~wk[w].short
    <3>1. References(wk[w].after) = {}
      BY <2>3 DEF Exhausted
    <3>2. ~Listed(c)
      <4> DEFINE L == {d \in Chunks : Listed(d) /\ d > wk[w].after}
      <4>1. L \in SUBSET Nat /\ IsFiniteSet(L) /\ PageSize \in Nat /\ PageSize # 0
        BY ChunkSets, ConstantFacts
      <4> HIDE DEF L
      <4>2. FirstOf(L, PageSize) = {} => L = {}
        BY <4>1, FirstOfFacts
      <4> USE DEF L
      <4> QED  BY <2>3, <3>1, <4>2 DEF References
    <3>3. PICK r : r = Newest
      OBVIOUS
    <3>4. Exists(c) => CoveredIn({r}, c)
      BY <3>2, UnlistedCovered DEF Indexable
    <3>5. Exists(c) => Rebuilt(c)
      BY <3>3, <3>4 DEF Rebuilt
    <3> QED  BY <1>5, <2>1, <3>5, RebuiltKept
  <2>4. c \in Nat /\ wk[w].after \in Nat
    <3>1. \A e \in Chunks \cup {0} : e \in Nat
      BY ConstantFacts
    <3> QED  BY <1>1, <3>1 DEF WorkerStates
  <2> QED  BY <2>2, <2>3, <2>4
<1> QED  BY <1>3, <1>5 DEF WalkOf

LEMMA WalkKept ==
    ASSUME PInv, Next
    PROVE  WalkInv'
<1> SUFFICES ASSUME NEW w \in Workers PROVE WalkOf(w)'
  BY ResumeKept DEF WalkInv
<1>1. IInv
  BY DEF PInv
<1>2. CASE wk'[w] = wk[w]
  BY <1>2, WalkStill
<1>3. CASE wk'[w] # wk[w] /\ wk'[w].step = "PAGE"
  BY <1>1, <1>3, Arrivals, WalkStarts, WalkTurns
<1>4. CASE wk'[w] # wk[w] /\ wk'[w].step = "REBUILD"
  BY <1>1, <1>4, Arrivals, WalkReads, WalkReloads, WalkRewrites
<1>5. CASE wk'[w] # wk[w] /\ wk'[w].step = "ACTIVATE"
  BY <1>1, <1>5, Arrivals, WalkExhausts
<1>6. CASE wk'[w].step \notin {"PAGE", "REBUILD", "ACTIVATE"}
  BY <1>6 DEF WalkOf
<1> QED  BY <1>2, <1>3, <1>4, <1>5, <1>6

-----------------------------------------------------------------------------
(* Every chunk stays covered by the revisions that are live.               *)

\* More revisions cover no less.
LEMMA CoveredMore ==
    ASSUME NEW S, NEW R \in SUBSET S, NEW c, CoveredIn(R, c)
    PROVE  CoveredIn(S, c)
<1>1. CASE PendingIn(R, c)
  <2>1. PICK i \in published + 1 .. Len(outbox) :
              outbox[i].chunk = c /\ \A w \in Workers : InTime(w, i, R)
    BY <1>1 DEF PendingIn
  <2>2. ASSUME NEW w \in Workers PROVE InTime(w, i, S)
    BY <2>1 DEF InTime, HasIn
  <2> QED  BY <2>1, <2>2 DEF CoveredIn, PendingIn
<1>2. CASE HasIn(R, c) \/ Closed(c) \/ Hidden(c) \/ c \in missed
  BY <1>2 DEF CoveredIn, HasIn
<1> QED  BY <1>1, <1>2 DEF CoveredIn

LEMMA CoverKept ==
    ASSUME PInv, Next
    PROVE  CoverInv'
<1> SUFFICES ASSUME NEW c \in Chunks, Exists(c)' PROVE CoveredIn(Live, c)'
  BY DEF CoverInv
<1>1. /\ IInv /\ WalkInv /\ Newest \in Nat /\ revs \in Seq([profile : Profiles,
                                              status : {"STAGING", "ACTIVE", "SUPERSEDED"}])
      /\ Exists(c) => CoveredIn(Live, c)
  BY DEF PInv, IInv, TypeOK, CoverInv, Newest
<1>2. CASE revs' = revs
  <2>1. PICK R : R = Live
    OBVIOUS
  <2>2. Newest \in R /\ Live' = R
    BY <1>2, <2>1 DEF Live, HasStaged, Newest
  <2>3. CASE Exists(c)
    <3>1. CoveredIn(R, c)
      BY <1>1, <2>1, <2>3
    <3>2. CoveredIn(R, c)'
      BY <2>2, <2>3, <3>1, CoveredKept
    <3> QED  BY <2>2, <3>2
  <2>4. CASE ~Exists(c)
    <3>1. CoveredIn(R, c)'
      BY <2>4, NewChunk DEF CoveredIn
    <3> QED  BY <2>2, <3>1
  <2> QED  BY <2>3, <2>4
<1>3. ASSUME NEW p \in Profiles, StageRevision(p) PROVE CoveredIn(Live, c)'
  <2>1. PICK r \in Nat : r = Newest
    BY <1>1
  <2>2. PICK R : R = {r, r + 1}
    OBVIOUS
  <2>3. Live = {r}
    BY <1>3, <2>1 DEF StageRevision, Live
  <2>4. Live' = R
    <3>1. revs' = Append(revs, [profile |-> p, status |-> "STAGING"])
      BY <1>3 DEF StageRevision
    <3>2. Len(revs') = r + 1 /\ revs'[r + 1].status = "STAGING"
      BY <1>1, <2>1, <3>1 DEF Newest
    <3> QED  BY <2>2, <3>2 DEF Live, HasStaged, Newest
  <2>5. Exists(c)
    BY <1>3 DEF StageRevision, catalog, listing, Exists
  <2>6. CoveredIn(R, c)
    BY <1>1, <2>2, <2>3, <2>5, CoveredMore
  <2>7. CoveredIn(R, c)'
    BY <2>1, <2>2, <2>5, <2>6, CoveredKept
  <2> QED  BY <2>4, <2>7
<1>4. ASSUME NEW w \in Workers, ActivateRevision(w), wk[w].staged = Newest, HasStaged,
             Newest' = Newest, ~HasStaged'
      PROVE  CoveredIn(Live, c)'
  <2>1. PICK R : R = {Newest}
    OBVIOUS
  <2>2. Live' = R
    BY <1>4, <2>1 DEF Live
  <2>3. Exists(c)
    BY <1>4 DEF ActivateRevision, catalog, listing, Exists
  <2>4. CoveredIn(R, c)
    BY <1>1, <1>4, <2>1, <2>3 DEF WalkInv, WalkOf, Rebuilds, Rebuilt, ActivateRevision, At
  <2>5. CoveredIn(R, c)'
    BY <2>1, <2>3, <2>4, CoveredKept
  <2> QED  BY <2>2, <2>5
<1> QED  BY <1>1, <1>2, <1>3, <1>4, RevisionMoves

-----------------------------------------------------------------------------
(* The theorem.                                                            *)

LEMMA PBase == Init => PInv
<1> SUFFICES ASSUME Init PROVE PInv
  OBVIOUS
<1>1. IInv
  BY Base
<1>2. \A c \in Chunks : ~Exists(c)
  BY DEF Init, Exists
<1>3. MirrorInv
  BY <1>2 DEF Init, MirrorInv, ActiveScopes
<1>4. CoverInv
  BY <1>2 DEF CoverInv
<1>5. WalkInv
  <2>1. Newest = 1 /\ ~HasStaged
    BY DEF Init, Newest, HasStaged
  <2>2. \A w \in Workers : wk[w].step = "IDLE" /\ wk[w].built = 0
    BY DEF Init, Fresh
  <2> QED  BY <2>1, <2>2 DEF WalkInv, WalkOf, ResumeOf
<1> QED  BY <1>1, <1>3, <1>4, <1>5 DEF PInv

LEMMA PStutter == PInv /\ UNCHANGED vars => PInv'
<1> SUFFICES ASSUME PInv, UNCHANGED vars PROVE PInv'
  OBVIOUS
<1>1. IInv'
  BY Stutter DEF PInv
<1>2. /\ UNCHANGED <<lifecycle, member, current, retention, ext, chunk, outbox, published>>
      /\ UNCHANGED <<revs, missed, index, late, lost, outrun, crashes, wk>>
  BY DEF vars, catalog, listing, queue, store
<1>3. MirrorInv'
  BY <1>2 DEF PInv, MirrorInv, Exists, ObjectOf, ActiveScopes
<1>4. /\ Newest' = Newest /\ Live' = Live /\ HasStaged' = HasStaged
      /\ \A c \in Chunks : Exists(c)' = Exists(c)
  BY <1>2 DEF Live, HasStaged, Newest, Exists
<1>5. ASSUME NEW R, NEW c \in Chunks, CoveredIn(R, c) PROVE CoveredIn(R, c)'
  <2>1. (HasIn(R, c) \/ Closed(c) \/ Hidden(c)) => (HasIn(R, c)' \/ Closed(c)' \/ Hidden(c)')
    BY <1>2 DEF HasIn, Has, Closed, Hidden, RetentionOf, VersionOf, ObjectOf
  <2>2. ASSUME NEW w, NEW i, InTime(w, i, R) PROVE InTime(w, i, R)'
    BY <1>2, <2>2 DEF InTime, At, HasIn, Has, Closed, RetentionOf, VersionOf, ObjectOf
  <2>3. PendingIn(R, c) => PendingIn(R, c)'
    BY <1>2, <2>2 DEF PendingIn
  <2> QED  BY <1>2, <1>5, <2>1, <2>3 DEF CoveredIn
<1>6. CoverInv'
  <2>1. PICK R : R = Live
    OBVIOUS
  <2>2. \A c \in Chunks : Exists(c)' => CoveredIn(R, c)'
    BY <1>4, <1>5, <2>1 DEF PInv, CoverInv
  <2> QED  BY <1>4, <2>1, <2>2 DEF CoverInv
<1>7. ASSUME NEW c \in Chunks, Rebuilt(c) PROVE Rebuilt(c)'
  <2>1. PICK R : R = {Newest}
    OBVIOUS
  <2>2. CoveredIn(R, c)'
    BY <1>5, <1>7, <2>1 DEF Rebuilt
  <2> QED  BY <1>4, <2>1, <2>2 DEF Rebuilt
<1>8. WalkInv'
  <2> SUFFICES ASSUME NEW w \in Workers PROVE WalkOf(w)' /\ ResumeOf(w)'
    BY DEF WalkInv
  <2>1. WalkOf(w) /\ ResumeOf(w) /\ wk'[w] = wk[w]
    BY <1>2 DEF PInv, WalkInv
  <2>2. Rebuilds(w)' = Rebuilds(w) /\ \A c \in Chunks : Passed(w, c)' = Passed(w, c)
    BY <1>4, <2>1 DEF Rebuilds, Passed
  <2>3. Rebuilds(w)' /\ wk'[w].step \in {"PAGE", "REBUILD"} =>
          /\ \A d \in wk'[w].docs : d.rev = Newest'
          /\ \A c \in Chunks : Exists(c)' /\ Passed(w, c)' => Rebuilt(c)'
    BY <1>4, <1>7, <2>1, <2>2 DEF WalkOf
  <2>4. Rebuilds(w)' /\ wk'[w].step = "ACTIVATE" => \A c \in Chunks : Exists(c)' => Rebuilt(c)'
    BY <1>4, <1>7, <2>1, <2>2 DEF WalkOf
  <2>5. ResumeOf(w)'
    BY <1>4, <1>7, <2>1 DEF ResumeOf
  <2> QED  BY <2>1, <2>3, <2>4, <2>5 DEF WalkOf
<1> QED  BY <1>1, <1>3, <1>6, <1>8 DEF PInv

\* Which revision answers queries.
LEMMA ServingFacts ==
    ASSUME IInv
    PROVE  /\ ~HasStaged => Serving = Newest
           /\ HasStaged => Serving = Newest - 1
<1>1. /\ RevisionInv /\ Newest \in Nat /\ Newest >= 1 /\ DOMAIN revs = 1 .. Newest
  <2>1. revs \in Seq([profile : Profiles, status : {"STAGING", "ACTIVE", "SUPERSEDED"}])
    BY DEF IInv, TypeOK
  <2>2. DOMAIN revs = 1 .. Newest
    BY <2>1 DEF Newest
  <2>3. RevisionInv
    BY DEF IInv
  <2>4. Len(revs) \in Revisions
    BY DEF IInv, TypeOK
  <2> QED  BY <2>2, <2>3, <2>4, ConstantFacts DEF Newest, Revisions
<1>2. ASSUME NEW s \in 1 .. Newest, revs[s].status = "ACTIVE",
             \A q \in 1 .. Newest : revs[q].status = "ACTIVE" => q = s
      PROVE  Serving = s
  BY <1>1, <1>2 DEF Serving
<1>3. CASE ~HasStaged
  <2>1. revs[Newest].status = "ACTIVE" /\ (Newest > 1 => revs[Newest - 1].status = "SUPERSEDED")
    BY <1>1, <1>3 DEF RevisionInv
  <2>2. ASSUME NEW q \in 1 .. Newest, revs[q].status = "ACTIVE" PROVE q = Newest
    <3>1. ~(q + 1 < Newest)
      BY <1>1, <2>2 DEF RevisionInv
    <3>2. q = Newest \/ q = Newest - 1
      BY <1>1, <3>1
    <3>3. q = Newest - 1 => Newest > 1
      BY <1>1
    <3> QED  BY <2>1, <2>2, <3>2, <3>3
  <2> QED  BY <1>1, <1>2, <1>3, <2>1, <2>2
<1>4. CASE HasStaged
  <2>1. Newest > 1 /\ revs[Newest - 1].status = "ACTIVE" /\ revs[Newest].status = "STAGING"
    BY <1>1, <1>4 DEF RevisionInv, HasStaged
  <2>2. ASSUME NEW q \in 1 .. Newest, revs[q].status = "ACTIVE" PROVE q = Newest - 1
    <3>1. ~(q + 1 < Newest)
      BY <1>1, <2>2 DEF RevisionInv
    <3>2. q = Newest \/ q = Newest - 1
      BY <1>1, <3>1
    <3> QED  BY <2>1, <2>2, <3>2
  <2>3. Newest - 1 \in 1 .. Newest
    BY <1>1, <2>1
  <2> QED  BY <1>2, <1>4, <2>1, <2>2, <2>3
<1> QED  BY <1>3, <1>4

\* A covered chunk that may be indexed and has no event left can be found.
LEMMA CoveredIsFound ==
    ASSUME PInv
    PROVE  ProjectionComplete
<1> SUFFICES ASSUME NEW c \in Chunks, Indexable(c), ~Pending(c)
             PROVE  Found(c) \/ c \in missed
  BY DEF ProjectionComplete
<1>1. IInv /\ CatalogInv /\ TypeOK
  BY DEF PInv, IInv
<1>2. Exists(c) /\ ~Hidden(c)
  BY DEF Indexable, Listed, Exists, Hidden, ObjectOf
<1>3. ~Closed(c)
  <2>1. current[ObjectOf(c)] \in Nat
    BY <1>1, <1>2, ChunkFacts
  <2>2. current[ObjectOf(c)] = VersionOf(c)
    BY DEF Indexable, Listed, ObjectOf, VersionOf
  <2>3. ~(VersionOf(c) < current[ObjectOf(c)])
    BY <2>1, <2>2
  <2> QED  BY <2>3 DEF Indexable, Listed, Closed, ObjectOf, VersionOf, RetentionOf
<1>4. HasIn(Live, c) \/ c \in missed
  <2>1. ~PendingIn(Live, c)
    BY DEF PendingIn, Pending
  <2>2. CoveredIn(Live, c)
    BY <1>2 DEF PInv, CoverInv
  <2> QED  BY <1>2, <1>3, <2>1, <2>2 DEF CoveredIn
<1>5. CASE HasStaged /\ c \notin missed
  <2>1. Has(Newest - 1, c) \/ Has(Newest, c)
    BY <1>4, <1>5 DEF HasIn, Live
  <2> QED  BY <1>1, <1>5, <2>1, ServingFacts DEF Found
<1>6. CASE ~HasStaged /\ c \notin missed
  <2>1. Has(Newest, c)
    BY <1>4, <1>6 DEF HasIn, Live
  <2> QED  BY <1>1, <1>6, <2>1, ServingFacts DEF Found
<1> QED  BY <1>5, <1>6

\* What can be found is in some revision's index.
LEMMA FoundSomewhere ==
    ASSUME IInv, NEW c \in Chunks, Found(c)
    PROVE  \E r \in Revisions : Has(r, c)
<1>1. PICK e \in index : e.chunk = c
  BY DEF Found, Has
<1>2. e.rev \in Revisions
  BY DEF IInv, TypeOK, Documents
<1> QED  BY <1>1, <1>2 DEF Has

LEMMA PInvariance == Spec => []PInv
<1>1. Init => PInv
  BY PBase
<1>2. PInv /\ [Next]_vars => PInv'
  <2>1. ASSUME PInv, Next PROVE PInv'
    <3>1. IInv'
      BY <2>1, Step DEF PInv
    <3> QED  BY <2>1, <3>1, MirrorKept, CoverKept, WalkKept DEF PInv
  <2> QED  BY <2>1, PStutter
<1> QED  BY <1>1, <1>2, PTL DEF Spec

\* An indexable chunk whose events are published can be found, unless a
\* fresh membership, a page that the budget cut, or the cursor of another
\* revision passed it over: an event skipped because of an absence
\* (publishMissing), a crash between a write and its publication, a late
\* write and the cutover to a rebuilt revision lose nothing else
\* (applier.go:718-771, runtime.go:515-586).
THEOREM FoundOrMissed == Spec => []ProjectionComplete
<1>1. PInv => ProjectionComplete
  BY CoveredIsFound
<1> QED  BY <1>1, PInvariance, PTL

\* The outbox alone: such a chunk was written to some revision's index.
THEOREM WrittenOrMissed == Spec => []OutboxComplete
<1>1. PInv => OutboxComplete
  <2>1. PInv => ProjectionComplete /\ IInv
    BY CoveredIsFound DEF PInv
  <2> QED  BY <2>1, FoundSomewhere DEF ProjectionComplete, OutboxComplete
<1> QED  BY <1>1, PInvariance, PTL
===============================================================================
