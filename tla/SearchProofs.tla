----------------------------- MODULE SearchProofs -----------------------------
(***************************************************************************)
(* Theorems of SearchProjection, for any number of objects, scopes,        *)
(* chunks, workers and profiles, and at every bound.                       *)
(*                                                                         *)
(* The erasure of a purged version rests on one fact of the tables, that a *)
(* DELETE is written only for a version that is no longer ACTIVE, and on   *)
(* where copies come from: loadDocument, which refuses such a version.     *)
(***************************************************************************)
EXTENDS SearchProjection, FiniteSetTheorems, TLAPS

-----------------------------------------------------------------------------
(* The invariant every deployment keeps.                                   *)

Exists(c)   == chunk[c] # <<>>
ObjectOf(c) == chunk[c][1]
VersionOf(c) == chunk[c][2]

\* What the tables say of each other: a chunk belongs to a version that was
\* there, an extraction lists its own chunks, an event names a chunk that
\* exists, a DELETE one whose version is being purged, and an object that is
\* closed for good has no membership to return through.
CatalogInv ==
    /\ \A c \in Chunks : Exists(c) => VersionOf(c) <= current[ObjectOf(c)]
    /\ \A o \in Objects, n \in Versions : \A c \in ext[o][n] : chunk[c] = <<o, n>>
    /\ \A i \in 1 .. Len(outbox) :
          /\ Exists(outbox[i].chunk)
          /\ outbox[i].op = "DELETE" => RetentionOf(outbox[i].chunk) # "ACTIVE"
    /\ \A o \in Objects : lifecycle[o] = "DELETED" =>
          \A s \in Scopes : member[o][s] \in {"NONE", "REMOVED"}

\* The newest revision is staged beside the one before it, or serves alone.
RevisionInv ==
    /\ \A q \in 1 .. Newest : q + 1 < Newest => revs[q].status = "SUPERSEDED"
    /\ HasStaged => Newest > 1 /\ revs[Newest - 1].status = "ACTIVE"
    /\ ~HasStaged => /\ revs[Newest].status = "ACTIVE"
                     /\ Newest > 1 => revs[Newest - 1].status = "SUPERSEDED"

EventSteps  == {"LOAD", "PUT", "DELETE", "PUBLISH", "PURGED", "MISSING", "SUPERSEDED"}
UpsertSteps == {"LOAD", "PUT", "PURGED", "MISSING", "SUPERSEDED"}

\* What a worker holds, from where it stands.
WorkOf(w) ==
    /\ wk[w].step \in EventSteps => wk[w].seq \in 1 .. Len(outbox)
    /\ wk[w].seq <= published + 1
    /\ wk[w].step \in UpsertSteps => Event(w).op = "UPSERT"
    /\ At(w, "DELETE") => RetentionOf(Event(w).chunk) # "ACTIVE"
    /\ At(w, "PUT") => wk[w].doc \in Documents /\ wk[w].doc.chunk = Event(w).chunk
    /\ ~At(w, "PUT") => wk[w].doc = NoDoc
    /\ ~At(w, "REBUILD") => wk[w].page = {} /\ wk[w].docs = {} /\ ~wk[w].short
    /\ wk[w].step \in {"PAGE", "REBUILD", "ACTIVATE"} => wk[w].staged \in 1 .. Newest
    /\ At(w, "PAGE") => wk[w].indexed < Slice
    /\ IsFiniteSet(wk[w].docs)
    /\ Cardinality(wk[w].page) + Cardinality(wk[w].docs) + wk[w].indexed <= Slice

WorkInv == \A w \in Workers : WorkOf(w)

IInv == TypeOK /\ CatalogInv /\ RevisionInv /\ WorkInv

WorkerStates == [step : Steps, mounted : Profiles, seq : 0 .. MaxEvents,
                 doc : Documents \cup {NoDoc}, staged : 0 .. MaxRevisions,
                 cursor : Chunks \cup {0}, built : 0 .. MaxRevisions,
                 after : Chunks \cup {0}, page : SUBSET Chunks, docs : SUBSET Documents,
                 indexed : 0 .. Slice, short : BOOLEAN]

\* What no step takes back.
Grows ==
    /\ Len(outbox) <= Len(outbox')
    /\ \A i \in 1 .. Len(outbox) : outbox'[i] = outbox[i]
    /\ published <= published'
    /\ Len(revs) <= Len(revs')
    /\ \A c \in Chunks : Exists(c) => chunk'[c] = chunk[c]
    /\ \A o \in Objects, n \in Versions :
          /\ retention[o][n] # "ACTIVE" => retention'[o][n] # "ACTIVE"
          /\ \A c \in Chunks : Exists(c) /\ c \notin ext[o][n] => c \notin ext'[o][n]
    /\ \A o \in Objects : /\ current[o] <= current'[o]
                          /\ lifecycle[o] = "DELETED" => lifecycle'[o] = "DELETED"

-----------------------------------------------------------------------------
(* Sets of chunk ids in their order.                                       *)

\* How many members of a set are smaller.
Rank(S, c) == Cardinality({d \in S : d < c})

\* A rank is less than the size of the set.
LEMMA RankType ==
    ASSUME NEW S \in SUBSET Nat, IsFiniteSet(S), NEW c \in S
    PROVE  /\ Cardinality(S) \in Nat
           /\ Rank(S, c) \in 0 .. Cardinality(S) - 1
<1> DEFINE B == {d \in S : d < c}
<1>1. B \in SUBSET (S \ {c})
  OBVIOUS
<1>2. IsFiniteSet(S \ {c}) /\ Cardinality(S \ {c}) = Cardinality(S) - 1
  BY FS_RemoveElement
<1>3. IsFiniteSet(B) /\ Cardinality(B) <= Cardinality(S \ {c})
  BY <1>1, <1>2, FS_Subset
<1>4. Cardinality(S) \in Nat /\ Cardinality(B) \in Nat
  BY <1>3, FS_CardinalityType
<1> QED  BY <1>2, <1>3, <1>4 DEF Rank

\* Ranks grow with the ids.
LEMMA RankOrder ==
    ASSUME NEW S \in SUBSET Nat, IsFiniteSet(S), NEW c \in S, NEW e \in S, c < e
    PROVE  Rank(S, c) < Rank(S, e)
<1> DEFINE B == {d \in S : d < c}
           E == {d \in S : d < e}
<1>1. B \in SUBSET S /\ E \in SUBSET S
  OBVIOUS
<1>2. IsFiniteSet(B) /\ IsFiniteSet(E)
  BY <1>1, FS_Subset
<1>3. B \cup {c} \in SUBSET E /\ c \notin B
  <2>1. c \in Nat /\ e \in Nat
    OBVIOUS
  <2>2. ASSUME NEW d \in S, d < c PROVE d < e
    <3>1. d \in Nat
      OBVIOUS
    <3> QED  BY <2>1, <2>2, <3>1
  <2>3. ~(c < c)
    BY <2>1
  <2> QED  BY <2>2, <2>3
<1>4. Cardinality(B \cup {c}) = Cardinality(B) + 1
  BY <1>2, <1>3, FS_AddElement
<1>5. Cardinality(B \cup {c}) <= Cardinality(E)
  BY <1>2, <1>3, FS_Subset
<1>6. Cardinality(B) \in Nat /\ Cardinality(E) \in Nat
  BY <1>2, FS_CardinalityType
<1> HIDE DEF B, E
<1>7. Cardinality(B) < Cardinality(E)
  BY <1>4, <1>5, <1>6
<1> QED  BY <1>7 DEF Rank, B, E

LEMMA RankInjective ==
    ASSUME NEW S \in SUBSET Nat, IsFiniteSet(S), NEW c \in S, NEW e \in S,
           Rank(S, c) = Rank(S, e)
    PROVE  c = e
<1>1. c \in Nat /\ e \in Nat /\ Rank(S, c) \in Nat /\ Rank(S, e) \in Nat
  BY RankType
<1>2. CASE c < e
  BY <1>1, <1>2, RankOrder
<1>3. CASE e < c
  <2>1. Rank(S, e) < Rank(S, c)
    BY <1>3, RankOrder
  <2> QED  BY <2>1, <1>1
<1> QED  BY <1>1, <1>2, <1>3

\* Every rank is taken.
LEMMA RankOnto ==
    ASSUME NEW S \in SUBSET Nat, IsFiniteSet(S), NEW k \in 0 .. Cardinality(S) - 1
    PROVE  \E c \in S : Rank(S, c) = k
<1> DEFINE T == 0 .. Cardinality(S) - 1
           f == [c \in S |-> Rank(S, c)]
<1>1. Cardinality(S) \in Nat
  BY FS_CardinalityType
<1>2. IsFiniteSet(T) /\ Cardinality(T) = Cardinality(S)
  BY <1>1, FS_Interval
<1>3. f \in [S -> T]
  BY RankType
<1>4. f \in Injection(S, T)
  BY <1>3, RankInjective DEF Injection, IsInjective
<1>5. f \in Surjection(S, T)
  BY <1>2, <1>4, FS_Injection
<1> QED  BY <1>5 DEF Surjection

\* A non-empty set of ids has a greatest member.
LEMMA MaxFacts ==
    ASSUME NEW S \in SUBSET Nat, IsFiniteSet(S), S # {}
    PROVE  Max(S) \in S /\ \A c \in S : c <= Max(S)
<1>1. Cardinality(S) \in Nat /\ Cardinality(S) # 0
  BY FS_CardinalityType, FS_EmptySet
<1>2. PICK m \in S : Rank(S, m) = Cardinality(S) - 1
  BY <1>1, RankOnto
<1>3. ASSUME NEW c \in S PROVE m >= c
  <2>1. Rank(S, c) \in 0 .. Cardinality(S) - 1 /\ c \in Nat /\ m \in Nat
    BY RankType
  <2>2. CASE m < c
    <3>1. Rank(S, m) < Rank(S, c)
      BY <2>2, RankOrder
    <3> QED  BY <3>1, <2>1, <1>1, <1>2
  <2> QED  BY <2>1, <2>2
<1>4. \E x \in S : \A y \in S : x >= y
  BY <1>3
<1>5. Max(S) \in S /\ \A y \in S : Max(S) >= y
  BY <1>4 DEF Max
<1> QED  BY <1>5

\* InIdOrder lists every member once.
LEMMA InIdOrderFacts ==
    ASSUME NEW S \in SUBSET Nat, IsFiniteSet(S)
    PROVE  /\ Cardinality(S) \in Nat
           /\ InIdOrder(S) \in [1 .. Cardinality(S) -> S]
           /\ \A c \in S : \E i \in 1 .. Cardinality(S) : InIdOrder(S)[i] = c
<1>1. Cardinality(S) \in Nat
  BY FS_CardinalityType
<1>2. InIdOrder(S) = [i \in 1 .. Cardinality(S) |-> CHOOSE c \in S : Rank(S, c) = i - 1]
  BY DEF InIdOrder, Rank
<1>3. ASSUME NEW i \in 1 .. Cardinality(S)
      PROVE  InIdOrder(S)[i] \in S /\ Rank(S, InIdOrder(S)[i]) = i - 1
  <2>1. \E c \in S : Rank(S, c) = i - 1
    BY <1>1, RankOnto
  <2>2. InIdOrder(S)[i] = CHOOSE c \in S : Rank(S, c) = i - 1
    BY <1>2
  <2> QED  BY <2>1, <2>2
<1>4. InIdOrder(S) \in [1 .. Cardinality(S) -> S]
  BY <1>2, <1>3
<1>5. ASSUME NEW c \in S
      PROVE  \E i \in 1 .. Cardinality(S) : InIdOrder(S)[i] = c
  <2>1. Rank(S, c) \in 0 .. Cardinality(S) - 1
    BY RankType
  <2>2. Rank(S, c) + 1 \in 1 .. Cardinality(S) /\ (Rank(S, c) + 1) - 1 = Rank(S, c)
    BY <1>1, <2>1
  <2>3. /\ InIdOrder(S)[Rank(S, c) + 1] \in S
        /\ Rank(S, InIdOrder(S)[Rank(S, c) + 1]) = Rank(S, c)
    BY <1>3, <2>2
  <2>4. PICK e \in S : e = InIdOrder(S)[Rank(S, c) + 1] /\ Rank(S, e) = Rank(S, c)
    BY <2>3
  <2>5. e = c
    BY <2>4, RankInjective
  <2> QED  BY <2>2, <2>4, <2>5
<1> QED  BY <1>1, <1>4, <1>5

\* FirstOf takes at most n, from below, and everything when it takes fewer.
LEMMA FirstOfFacts ==
    ASSUME NEW S \in SUBSET Nat, IsFiniteSet(S), NEW n \in Nat
    PROVE  /\ FirstOf(S, n) \in SUBSET S /\ IsFiniteSet(FirstOf(S, n))
           /\ Cardinality(FirstOf(S, n)) \in 0 .. n
           /\ \A c \in FirstOf(S, n), d \in S : d < c => d \in FirstOf(S, n)
           /\ Cardinality(S) <= n => FirstOf(S, n) = S
           /\ Cardinality(FirstOf(S, n)) < n => FirstOf(S, n) = S
           /\ n # 0 /\ S # {} => FirstOf(S, n) # {}
<1> DEFINE F == FirstOf(S, n)
           f == [c \in F |-> Rank(S, c)]
<1>1. F = {c \in S : Rank(S, c) < n}
  BY DEF FirstOf, Rank
<1>2. F \in SUBSET S /\ IsFiniteSet(F) /\ Cardinality(F) \in Nat /\ Cardinality(S) \in Nat
  BY <1>1, FS_Subset, FS_CardinalityType
<1>3. IsFiniteSet(0 .. n - 1) /\ Cardinality(0 .. n - 1) = n
  BY FS_Interval
<1>4. \A c \in S : Rank(S, c) \in Nat /\ Rank(S, c) < Cardinality(S)
  BY RankType, <1>2
<1> HIDE DEF F
<1>5. f \in Injection(F, 0 .. n - 1)
  <2>1. ASSUME NEW c \in F PROVE Rank(S, c) \in 0 .. n - 1
    <3>1. c \in S /\ Rank(S, c) < n
      BY <1>1
    <3> QED  BY <1>4, <3>1
  <2>2. IsInjective(f)
    BY <1>2, RankInjective DEF IsInjective
  <2>3. f \in [F -> 0 .. n - 1]
    BY <2>1
  <2> QED  BY <2>2, <2>3 DEF Injection
<1>6. Cardinality(F) <= n
  BY <1>3, <1>5, FS_Injection
<1>7. \A c \in F, d \in S : d < c => d \in F
  BY <1>1, <1>2, <1>4, RankOrder
<1>8. ASSUME Cardinality(S) <= n PROVE F = S
  <2>1. ASSUME NEW c \in S PROVE Rank(S, c) < n
    BY <1>2, <1>4, <1>8
  <2> QED  BY <1>1, <2>1
<1>9. ASSUME Cardinality(F) < n PROVE F = S
  <2>1. SUFFICES ASSUME NEW e \in S, e \notin F PROVE FALSE
    BY <1>2
  <2>2. Rank(S, e) >= n
    BY <1>1, <1>4, <2>1
  <2>3. \A k \in 0 .. n - 1 : k \in 0 .. Cardinality(S) - 1
    BY <2>1, <2>2, <1>2, <1>4
  <2>4. ASSUME NEW k \in 0 .. n - 1 PROVE \E c \in F : f[c] = k
    <3>1. PICK c \in S : Rank(S, c) = k
      BY <2>3, RankOnto
    <3> QED  BY <3>1, <1>1
  <2>5. f \in Surjection(F, 0 .. n - 1)
    BY <1>5, <2>4 DEF Surjection, Injection
  <2>6. Cardinality(F) = n
    BY <1>3, <1>5, <2>5, FS_Injection
  <2> QED  BY <1>9, <2>6
<1>10. ASSUME n # 0, S # {} PROVE F # {}
  <2>1. Cardinality(S) # 0
    BY <1>10, FS_EmptySet
  <2>2. PICK c \in S : Rank(S, c) = 0
    BY <2>1, <1>2, RankOnto
  <2> QED  BY <1>1, <1>10, <2>2
<1> QED  BY <1>2, <1>6, <1>7, <1>8, <1>9, <1>10 DEF F

-----------------------------------------------------------------------------
(* The catalog.                                                            *)

LEMMA ConstantFacts ==
    /\ Chunks \in SUBSET Nat /\ 0 \notin Chunks /\ IsFiniteSet(Chunks)
    /\ FirstProfile \in Profiles
    /\ PageSize \in Nat /\ PageSize > 0 /\ Slice \in Nat /\ Slice > 0
    /\ MaxVersions \in Nat /\ MaxVersions > 0 /\ MaxRevisions \in Nat /\ MaxRevisions > 0
    /\ MaxEvents \in Nat /\ MaxLost \in Nat /\ MaxCrashes \in Nat
  BY ProjectionAssumption

\* Every set of chunk ids is finite.
LEMMA ChunkSets ==
    ASSUME NEW C \in SUBSET Chunks
    PROVE  C \in SUBSET Nat /\ IsFiniteSet(C) /\ Cardinality(C) \in Nat
  BY ConstantFacts, FS_Subset, FS_CardinalityType

\* Enqueue appends one event of the operation for every chunk, and no other.
LEMMA EnqueueFacts ==
    ASSUME TypeOK, NEW op \in {"UPSERT", "DELETE"}, NEW C \in SUBSET Chunks,
           Enqueue(op, C)
    PROVE  /\ outbox' \in Seq(Events) /\ Len(outbox') <= MaxEvents
           /\ Len(outbox) \in Nat /\ Len(outbox') \in Nat
           /\ Len(outbox) <= Len(outbox')
           /\ \A i \in 1 .. Len(outbox) : outbox'[i] = outbox[i]
           /\ \A i \in Len(outbox) + 1 .. Len(outbox') :
                 outbox'[i].op = op /\ outbox'[i].chunk \in C
           /\ \A c \in C : \E i \in Len(outbox) + 1 .. Len(outbox') : outbox'[i].chunk = c
           /\ published' = published
<1> DEFINE k == Cardinality(C)
           new == [i \in DOMAIN InIdOrder(C) |-> [op |-> op, chunk |-> InIdOrder(C)[i]]]
<1>1. /\ k \in Nat /\ InIdOrder(C) \in [1 .. k -> C]
      /\ \A c \in C : \E i \in 1 .. k : InIdOrder(C)[i] = c
  BY ChunkSets, InIdOrderFacts
<1>2. outbox \in Seq(Events)
  BY DEF TypeOK
<1>3. DOMAIN InIdOrder(C) = 1 .. k
  BY <1>1
<1>4. new \in [1 .. k -> Events]
  BY <1>1, <1>3 DEF Events
<1>6. /\ Len(outbox) + Len(InIdOrder(C)) <= MaxEvents
      /\ outbox' = outbox \o new
      /\ published' = published
  BY DEF Enqueue
<1>7. Len(InIdOrder(C)) = k
  <2>1. InIdOrder(C) \in Seq(C)
    BY <1>1
  <2> QED  BY <1>1, <1>3, <2>1
<1>8. \A i \in 1 .. k : new[i].op = op /\ new[i].chunk = InIdOrder(C)[i] /\ new[i].chunk \in C
  BY <1>1, <1>3
<1> HIDE DEF new, k
<1>5. new \in Seq(Events) /\ Len(new) = k
  BY <1>1, <1>4
<1>9. outbox' \in Seq(Events) /\ Len(outbox') = Len(outbox) + k /\ Len(outbox) \in Nat
  BY <1>2, <1>5, <1>6
<1>10. \A i \in 1 .. Len(outbox) : outbox'[i] = outbox[i]
  BY <1>2, <1>5, <1>6
<1>11. \A i \in Len(outbox) + 1 .. Len(outbox') :
          i - Len(outbox) \in 1 .. k /\ outbox'[i] = new[i - Len(outbox)]
  BY <1>1, <1>2, <1>5, <1>6, <1>9
<1>12. \A i \in 1 .. k : /\ Len(outbox) + i \in Len(outbox) + 1 .. Len(outbox')
                        /\ outbox'[Len(outbox) + i] = new[i]
  BY <1>1, <1>2, <1>5, <1>6, <1>9
<1>13. ASSUME NEW c \in C
       PROVE  \E i \in Len(outbox) + 1 .. Len(outbox') : outbox'[i].chunk = c
  <2>1. PICK i \in 1 .. k : InIdOrder(C)[i] = c
    BY <1>1
  <2> QED  BY <2>1, <1>8, <1>12
<1>14. Len(outbox') <= MaxEvents /\ Len(outbox') \in Nat /\ Len(outbox) <= Len(outbox')
  BY <1>1, <1>6, <1>7, <1>9, ConstantFacts
<1>15. \A i \in Len(outbox) + 1 .. Len(outbox') :
          outbox'[i].op = op /\ outbox'[i].chunk \in C
  BY <1>8, <1>11
<1> QED  BY <1>6, <1>9, <1>10, <1>13, <1>14, <1>15

LEMMA RevisionKept == RevisionInv /\ UNCHANGED revs => RevisionInv'
  BY DEF RevisionInv, Newest, HasStaged

LEMMA EventFacts ==
    ASSUME TypeOK, NEW i \in 1 .. Len(outbox)
    PROVE  outbox[i] \in Events /\ outbox[i].chunk \in Chunks
<1>1. outbox \in Seq(Events)
  BY DEF TypeOK
<1>2. outbox[i] \in Events
  BY <1>1
<1> QED  BY <1>2 DEF Events

LEMMA ChunkFacts ==
    ASSUME TypeOK, NEW c \in Chunks, Exists(c)
    PROVE  /\ ObjectOf(c) \in Objects /\ VersionOf(c) \in Versions
           /\ VersionOf(c) \in Nat /\ current[ObjectOf(c)] \in Nat
           /\ chunk[c] = <<ObjectOf(c), VersionOf(c)>>
  BY ConstantFacts DEF TypeOK, Exists, ObjectOf, VersionOf, Versions

\* CatalogInv survives a step that takes nothing back if what it adds is right.
LEMMA CatalogKept ==
    ASSUME TypeOK, TypeOK', CatalogInv, Grows,
           \A c \in Chunks : ~Exists(c) /\ Exists(c)' => VersionOf(c)' <= current'[ObjectOf(c)'],
           \A p \in Objects, m \in Versions : \/ ext'[p][m] \subseteq ext[p][m]
                                              \/ \A c \in ext'[p][m] : chunk'[c] = <<p, m>>,
           \A i \in 1 .. Len(outbox') : i > Len(outbox) =>
               /\ Exists(outbox[i].chunk)'
               /\ outbox'[i].op = "DELETE" => RetentionOf(outbox[i].chunk)' # "ACTIVE",
           \A p \in Objects : lifecycle'[p] = "DELETED" =>
               \A t \in Scopes : member'[p][t] \in {"NONE", "REMOVED"}
    PROVE  CatalogInv'
<1>1. ASSUME NEW c \in Chunks, Exists(c)'
      PROVE  VersionOf(c)' <= current'[ObjectOf(c)']
  <2>1. CASE ~Exists(c)
    BY <1>1, <2>1
  <2>2. CASE Exists(c)
    <3>1. chunk'[c] = chunk[c]
      BY <2>2 DEF Grows
    <3>2. VersionOf(c) <= current[ObjectOf(c)]
      BY <2>2 DEF CatalogInv
    <3>3. current[ObjectOf(c)] <= current'[ObjectOf(c)]
          /\ ObjectOf(c) \in Objects /\ VersionOf(c) \in Nat
          /\ current[ObjectOf(c)] \in Nat
      BY <2>2, ChunkFacts DEF Grows
    <3>4. current'[ObjectOf(c)] \in Nat
      BY <3>3, ConstantFacts DEF TypeOK
    <3> QED  BY <3>1, <3>2, <3>3, <3>4 DEF ObjectOf, VersionOf
  <2> QED  BY <2>1, <2>2
<1>2. ASSUME NEW p \in Objects, NEW m \in Versions, NEW c \in ext'[p][m]
      PROVE  chunk'[c] = <<p, m>>
  <2>1. CASE ext'[p][m] \subseteq ext[p][m]
    <3>1. c \in ext[p][m]
      BY <2>1
    <3>2. c \in Chunks
      BY <3>1 DEF TypeOK
    <3>3. chunk[c] = <<p, m>>
      BY <3>1 DEF CatalogInv
    <3>4. Exists(c)
      BY <3>3 DEF Exists
    <3> QED  BY <3>2, <3>3, <3>4 DEF Grows
  <2> QED  BY <2>1
<1>3. ASSUME NEW i \in 1 .. Len(outbox')
      PROVE  /\ Exists(outbox[i].chunk)'
             /\ outbox'[i].op = "DELETE" => RetentionOf(outbox[i].chunk)' # "ACTIVE"
  <2>1. Len(outbox) \in Nat /\ Len(outbox') \in Nat
    BY DEF TypeOK
  <2>2. CASE i \in 1 .. Len(outbox)
    <3> DEFINE c == outbox[i].chunk
    <3>1. outbox'[i] = outbox[i] /\ c \in Chunks
      BY <2>2, EventFacts DEF Grows
    <3>2. Exists(c) /\ (outbox[i].op = "DELETE" => RetentionOf(c) # "ACTIVE")
      BY <2>2 DEF CatalogInv
    <3>3. chunk'[c] = chunk[c]
      BY <3>1, <3>2 DEF Grows
    <3>4. ObjectOf(c) \in Objects /\ VersionOf(c) \in Versions
      BY <3>1, <3>2, ChunkFacts
    <3>5. RetentionOf(c) # "ACTIVE" => RetentionOf(c)' # "ACTIVE"
      BY <3>1, <3>3, <3>4 DEF Grows, RetentionOf, ObjectOf, VersionOf
    <3> QED  BY <3>1, <3>2, <3>3, <3>5 DEF Exists, RetentionOf
  <2> QED  BY <2>1, <2>2
<1> QED  BY <1>1, <1>2, <1>3 DEF CatalogInv

LEMMA IngestInd ==
    ASSUME IInv, NEW s \in Scopes, NEW o \in Objects, NEW C \in SUBSET Chunks,
           IngestVersion(s, o, C)
    PROVE  TypeOK' /\ CatalogInv' /\ RevisionInv' /\ Grows /\ UNCHANGED wk
<1> DEFINE n == current[o] + 1
<1>1. /\ MayObserve(s, o) /\ C # {} /\ \A c \in C : chunk[c] = <<>>
      /\ n \in Versions /\ Present(s, o)
      /\ current' = [current EXCEPT ![o] = n] /\ ext' = [ext EXCEPT ![o][n] = C]
      /\ chunk' = [c \in Chunks |-> IF c \in C THEN <<o, n>> ELSE chunk[c]]
      /\ Enqueue("UPSERT", C)
      /\ UNCHANGED <<retention, missed, revs, index, late, lost, outrun, crashes, wk>>
  BY DEF IngestVersion, Unused, Created, store
<1>2. /\ outbox' \in Seq(Events) /\ Len(outbox') <= MaxEvents
      /\ Len(outbox) \in Nat /\ Len(outbox') \in Nat /\ Len(outbox) <= Len(outbox')
      /\ \A i \in 1 .. Len(outbox) : outbox'[i] = outbox[i]
      /\ \A i \in Len(outbox) + 1 .. Len(outbox') :
            outbox'[i].op = "UPSERT" /\ outbox'[i].chunk \in C
      /\ published' = published
  BY <1>1, EnqueueFacts DEF IInv
<1>3. TypeOK /\ CatalogInv
  BY DEF IInv
<1>4. /\ lifecycle' = [lifecycle EXCEPT ![o] = "ACTIVE"]
      /\ member' = [member EXCEPT ![o][s] = "ACTIVE"]
      /\ lifecycle[o] # "DELETED" /\ member[o][s] # "REMOVED"
  BY <1>1 DEF Present, MayObserve
<1>5. current[o] \in Nat /\ n > current[o]
  BY <1>3, ConstantFacts DEF TypeOK
<1>6. TypeOK'
  <2>1. lifecycle' \in [Objects -> Lifecycles] /\ member' \in [Objects -> [Scopes -> Memberships]]
    BY <1>3, <1>4 DEF TypeOK, Lifecycles, Memberships
  <2>2. current' \in [Objects -> 0 .. MaxVersions]
    BY <1>1, <1>3, ConstantFacts DEF TypeOK, Versions
  <2>3. ext' \in [Objects -> [Versions -> SUBSET Chunks]]
    BY <1>1, <1>3 DEF TypeOK
  <2>4. chunk' \in [Chunks -> (Objects \X Versions) \cup {<<>>}]
    BY <1>1, <1>3 DEF TypeOK
  <2>5. published' \in 0 .. Len(outbox')
    BY <1>2, <1>3 DEF TypeOK
  <2> QED  BY <1>1, <1>2, <1>3, <2>1, <2>2, <2>3, <2>4, <2>5 DEF TypeOK
<1>7. Grows
  <2>1. \A c \in Chunks : Exists(c) => chunk'[c] = chunk[c] /\ c \notin C
    BY <1>1, <1>3 DEF TypeOK, Exists
  <2>2. \A p \in Objects, m \in Versions, c \in Chunks :
           Exists(c) /\ c \notin ext[p][m] => c \notin ext'[p][m]
    BY <1>1, <1>3, <2>1 DEF TypeOK
  <2>3. \A p \in Objects : current[p] <= current'[p]
    BY <1>1, <1>3, <1>5, ConstantFacts DEF TypeOK
  <2>4. \A p \in Objects : lifecycle[p] = "DELETED" => lifecycle'[p] = "DELETED"
    BY <1>3, <1>4 DEF TypeOK
  <2>5. published <= published' /\ Len(revs) <= Len(revs')
    BY <1>1, <1>2, <1>3, ConstantFacts DEF TypeOK, Revisions
  <2> QED  BY <1>1, <1>2, <2>1, <2>2, <2>3, <2>4, <2>5 DEF Grows
<1>8. CatalogInv'
  <2>1. ASSUME NEW c \in Chunks, ~Exists(c), Exists(c)'
        PROVE  VersionOf(c)' <= current'[ObjectOf(c)']
    <3>1. c \in C
      BY <1>1, <2>1 DEF Exists
    <3>2. chunk'[c] = <<o, n>> /\ current'[o] = n
      BY <1>1, <1>3, <3>1 DEF TypeOK
    <3> QED  BY <1>5, <3>2 DEF ObjectOf, VersionOf
  <2>2. ASSUME NEW p \in Objects, NEW m \in Versions
        PROVE  ext'[p][m] \subseteq ext[p][m] \/ \A c \in ext'[p][m] : chunk'[c] = <<p, m>>
    <3>1. CASE p = o /\ m = n
      BY <1>1, <1>3, <3>1 DEF TypeOK
    <3>2. CASE ~(p = o /\ m = n)
      BY <1>1, <1>3, <3>2 DEF TypeOK
    <3> QED  BY <3>1, <3>2
  <2>3. ASSUME NEW i \in 1 .. Len(outbox'), i > Len(outbox)
        PROVE  /\ Exists(outbox[i].chunk)'
               /\ outbox'[i].op = "DELETE" => RetentionOf(outbox[i].chunk)' # "ACTIVE"
    <3>1. outbox'[i].op = "UPSERT" /\ outbox'[i].chunk \in C
      BY <1>2, <2>3
    <3> QED  BY <1>1, <3>1 DEF Exists
  <2>4. ASSUME NEW p \in Objects, lifecycle'[p] = "DELETED"
        PROVE  \A t \in Scopes : member'[p][t] \in {"NONE", "REMOVED"}
    BY <1>3, <1>4, <2>4 DEF TypeOK, CatalogInv
  <2> QED  BY <1>3, <1>6, <1>7, <2>1, <2>2, <2>3, <2>4, CatalogKept
<1>9. RevisionInv'
  BY <1>1, RevisionKept DEF IInv
<1> QED  BY <1>1, <1>6, <1>7, <1>8, <1>9

LEMMA ReextractInd ==
    ASSUME IInv, NEW s \in Scopes, NEW o \in Objects, NEW C \in SUBSET Chunks,
           Reextract(s, o, C)
    PROVE  TypeOK' /\ CatalogInv' /\ RevisionInv' /\ Grows /\ UNCHANGED wk
<1> DEFINE n == current[o]
<1>1. /\ MayObserve(s, o) /\ C # {} /\ \A c \in C : chunk[c] = <<>>
      /\ n # 0 /\ Present(s, o)
      /\ ext' = [ext EXCEPT ![o][n] = C]
      /\ chunk' = [c \in Chunks |-> IF c \in C THEN <<o, n>> ELSE chunk[c]]
      /\ Enqueue("UPSERT", C)
      /\ UNCHANGED <<current, retention, missed, revs, index, late, lost, outrun, crashes, wk>>
  BY DEF Reextract, Unused, Created, store
<1>2. /\ outbox' \in Seq(Events) /\ Len(outbox') <= MaxEvents
      /\ Len(outbox) \in Nat /\ Len(outbox') \in Nat /\ Len(outbox) <= Len(outbox')
      /\ \A i \in 1 .. Len(outbox) : outbox'[i] = outbox[i]
      /\ \A i \in Len(outbox) + 1 .. Len(outbox') :
            outbox'[i].op = "UPSERT" /\ outbox'[i].chunk \in C
      /\ published' = published
  BY <1>1, EnqueueFacts DEF IInv
<1>3. TypeOK /\ CatalogInv
  BY DEF IInv
<1>4. /\ lifecycle' = [lifecycle EXCEPT ![o] = "ACTIVE"]
      /\ member' = [member EXCEPT ![o][s] = "ACTIVE"]
      /\ lifecycle[o] # "DELETED" /\ member[o][s] # "REMOVED"
  BY <1>1 DEF Present, MayObserve
<1>5. n \in Versions /\ n \in Nat
  BY <1>1, <1>3, ConstantFacts DEF TypeOK, Versions
<1>6. TypeOK'
  <2>1. lifecycle' \in [Objects -> Lifecycles] /\ member' \in [Objects -> [Scopes -> Memberships]]
    BY <1>3, <1>4 DEF TypeOK, Lifecycles, Memberships
  <2>2. ext' \in [Objects -> [Versions -> SUBSET Chunks]]
    BY <1>1, <1>3 DEF TypeOK
  <2>3. chunk' \in [Chunks -> (Objects \X Versions) \cup {<<>>}]
    BY <1>1, <1>3, <1>5 DEF TypeOK
  <2>4. published' \in 0 .. Len(outbox')
    BY <1>2, <1>3 DEF TypeOK
  <2> QED  BY <1>1, <1>2, <1>3, <2>1, <2>2, <2>3, <2>4 DEF TypeOK
<1>7. Grows
  <2>1. \A c \in Chunks : Exists(c) => chunk'[c] = chunk[c] /\ c \notin C
    BY <1>1, <1>3 DEF TypeOK, Exists
  <2>2. \A p \in Objects, m \in Versions, c \in Chunks :
           Exists(c) /\ c \notin ext[p][m] => c \notin ext'[p][m]
    BY <1>1, <1>3, <2>1 DEF TypeOK
  <2>3. \A p \in Objects : current[p] <= current'[p]
    BY <1>1, <1>3, ConstantFacts DEF TypeOK
  <2>4. \A p \in Objects : lifecycle[p] = "DELETED" => lifecycle'[p] = "DELETED"
    BY <1>3, <1>4 DEF TypeOK
  <2>5. published <= published' /\ Len(revs) <= Len(revs')
    BY <1>1, <1>2, <1>3, ConstantFacts DEF TypeOK, Revisions
  <2> QED  BY <1>1, <1>2, <2>1, <2>2, <2>3, <2>4, <2>5 DEF Grows
<1>8. CatalogInv'
  <2>1. ASSUME NEW c \in Chunks, ~Exists(c), Exists(c)'
        PROVE  VersionOf(c)' <= current'[ObjectOf(c)']
    <3>1. c \in C
      BY <1>1, <2>1 DEF Exists
    <3>2. chunk'[c] = <<o, n>> /\ current'[o] = n
      BY <1>1, <3>1
    <3> QED  BY <1>5, <3>2 DEF ObjectOf, VersionOf
  <2>2. ASSUME NEW p \in Objects, NEW m \in Versions
        PROVE  ext'[p][m] \subseteq ext[p][m] \/ \A c \in ext'[p][m] : chunk'[c] = <<p, m>>
    <3>1. CASE p = o /\ m = n
      BY <1>1, <1>3, <3>1 DEF TypeOK
    <3>2. CASE ~(p = o /\ m = n)
      BY <1>1, <1>3, <3>2 DEF TypeOK
    <3> QED  BY <3>1, <3>2
  <2>3. ASSUME NEW i \in 1 .. Len(outbox'), i > Len(outbox)
        PROVE  /\ Exists(outbox[i].chunk)'
               /\ outbox'[i].op = "DELETE" => RetentionOf(outbox[i].chunk)' # "ACTIVE"
    <3>1. outbox'[i].op = "UPSERT" /\ outbox'[i].chunk \in C
      BY <1>2, <2>3
    <3> QED  BY <1>1, <3>1 DEF Exists
  <2>4. ASSUME NEW p \in Objects, lifecycle'[p] = "DELETED"
        PROVE  \A t \in Scopes : member'[p][t] \in {"NONE", "REMOVED"}
    BY <1>3, <1>4, <2>4 DEF TypeOK, CatalogInv
  <2> QED  BY <1>3, <1>6, <1>7, <2>1, <2>2, <2>3, <2>4, CatalogKept
<1>9. RevisionInv'
  BY <1>1, RevisionKept DEF IInv
<1> QED  BY <1>1, <1>6, <1>7, <1>8, <1>9

LEMMA ReobserveInd ==
    ASSUME IInv, NEW s \in Scopes, NEW o \in Objects, Reobserve(s, o)
    PROVE  TypeOK' /\ CatalogInv' /\ RevisionInv' /\ Grows /\ UNCHANGED wk
<1> DEFINE n == current[o]
           C == Reobserved(s, o)
<1>1. /\ MayObserve(s, o) /\ n # 0 /\ Present(s, o) /\ Enqueue("UPSERT", C)
      /\ missed' = (missed \cup Unannounced(s, o)) \ C
      /\ UNCHANGED <<current, retention, ext, chunk, revs, index, late, lost, outrun, crashes, wk>>
  BY DEF Reobserve, store
<1>2. TypeOK /\ CatalogInv
  BY DEF IInv
<1>3. n \in Versions
  BY <1>1, <1>2, ConstantFacts DEF TypeOK, Versions
<1>4. C \in SUBSET Chunks /\ \A c \in C : Exists(c)
  <2>1. C \subseteq ext[o][n]
    BY DEF Reobserved
  <2>2. ext[o][n] \subseteq Chunks
    BY <1>2, <1>3 DEF TypeOK
  <2>3. \A c \in ext[o][n] : chunk[c] = <<o, n>>
    BY <1>2, <1>3 DEF CatalogInv
  <2> HIDE DEF C
  <2> QED  BY <2>1, <2>2, <2>3 DEF Exists
<1>5. /\ outbox' \in Seq(Events) /\ Len(outbox') <= MaxEvents
      /\ Len(outbox) \in Nat /\ Len(outbox') \in Nat /\ Len(outbox) <= Len(outbox')
      /\ \A i \in 1 .. Len(outbox) : outbox'[i] = outbox[i]
      /\ \A i \in Len(outbox) + 1 .. Len(outbox') :
            outbox'[i].op = "UPSERT" /\ outbox'[i].chunk \in C
      /\ published' = published
  BY <1>1, <1>2, <1>4, EnqueueFacts
<1>6. /\ lifecycle' = [lifecycle EXCEPT ![o] = "ACTIVE"]
      /\ member' = [member EXCEPT ![o][s] = "ACTIVE"]
      /\ lifecycle[o] # "DELETED" /\ member[o][s] # "REMOVED"
  BY <1>1 DEF Present, MayObserve
<1> HIDE DEF C
<1>7. TypeOK'
  <2>1. lifecycle' \in [Objects -> Lifecycles] /\ member' \in [Objects -> [Scopes -> Memberships]]
    BY <1>2, <1>6 DEF TypeOK, Lifecycles, Memberships
  <2>2. published' \in 0 .. Len(outbox')
    BY <1>2, <1>5 DEF TypeOK
  <2>3. missed' \subseteq Chunks
    BY <1>1, <1>2, <1>3 DEF TypeOK, Unannounced
  <2> QED  BY <1>1, <1>2, <1>5, <2>1, <2>2, <2>3 DEF TypeOK
<1>8. Grows
  <2>1. \A p \in Objects : current[p] <= current'[p]
    BY <1>1, <1>2, ConstantFacts DEF TypeOK
  <2>2. \A p \in Objects : lifecycle[p] = "DELETED" => lifecycle'[p] = "DELETED"
    BY <1>2, <1>6 DEF TypeOK
  <2>3. published <= published' /\ Len(revs) <= Len(revs')
    BY <1>1, <1>2, <1>5, ConstantFacts DEF TypeOK, Revisions
  <2> QED  BY <1>1, <1>5, <2>1, <2>2, <2>3 DEF Grows
<1>9. CatalogInv'
  <2>1. ASSUME NEW i \in 1 .. Len(outbox'), i > Len(outbox)
        PROVE  /\ Exists(outbox[i].chunk)'
               /\ outbox'[i].op = "DELETE" => RetentionOf(outbox[i].chunk)' # "ACTIVE"
    <3>1. outbox'[i].op = "UPSERT" /\ outbox'[i].chunk \in C
      BY <1>5, <2>1
    <3> QED  BY <1>1, <1>4, <3>1 DEF Exists
  <2>2. ASSUME NEW p \in Objects, lifecycle'[p] = "DELETED"
        PROVE  \A t \in Scopes : member'[p][t] \in {"NONE", "REMOVED"}
    BY <1>2, <1>6, <2>2 DEF TypeOK, CatalogInv
  <2>3. \A c \in Chunks : Exists(c)' => Exists(c)
    BY <1>1 DEF Exists
  <2>4. \A p \in Objects, m \in Versions : ext'[p][m] \subseteq ext[p][m]
    BY <1>1
  <2> QED  BY <1>2, <1>7, <1>8, <2>1, <2>2, <2>3, <2>4, CatalogKept
<1>10. RevisionInv'
  BY <1>1, RevisionKept DEF IInv
<1> QED  BY <1>1, <1>7, <1>8, <1>9, <1>10

\* The steps that leave chunks, versions and the outbox alone.
LEMMA QuietGrows ==
    ASSUME TypeOK, UNCHANGED <<current, chunk, queue, revs>>,
           \A p \in Objects, m \in Versions :
               /\ retention[p][m] # "ACTIVE" => retention'[p][m] # "ACTIVE"
               /\ ext'[p][m] \subseteq ext[p][m],
           \A p \in Objects : lifecycle[p] = "DELETED" => lifecycle'[p] = "DELETED"
    PROVE  Grows
<1>1. \A p \in Objects : current[p] \in Nat
  BY ConstantFacts DEF TypeOK
<1>2. Len(outbox) \in Nat /\ published \in Nat /\ Len(revs) \in Nat
  BY ConstantFacts DEF TypeOK, Revisions
<1> QED  BY <1>1, <1>2 DEF Grows, queue

LEMMA QuietCatalog ==
    ASSUME TypeOK, TypeOK', CatalogInv, Grows, UNCHANGED <<current, chunk, outbox>>,
           \A p \in Objects, m \in Versions : ext'[p][m] \subseteq ext[p][m],
           \A p \in Objects : lifecycle'[p] = "DELETED" =>
               \A t \in Scopes : member'[p][t] \in {"NONE", "REMOVED"}
    PROVE  CatalogInv'
<1>1. \A c \in Chunks : Exists(c)' => Exists(c)
  BY DEF Exists
<1>2. \A i \in 1 .. Len(outbox') : ~(i > Len(outbox))
  BY DEF TypeOK
<1> QED  BY <1>1, <1>2, CatalogKept

LEMMA AbsentInd ==
    ASSUME IInv, NEW s \in Scopes, NEW o \in Objects, Absent(s, o)
    PROVE  TypeOK' /\ CatalogInv' /\ RevisionInv' /\ Grows /\ UNCHANGED wk
<1>1. /\ member[o][s] = "ACTIVE" /\ member' = [member EXCEPT ![o][s] = "MISSING"]
      /\ lifecycle' = [lifecycle EXCEPT ![o] =
                         IF ActiveScopes(o) = {s} THEN "MISSING" ELSE lifecycle[o]]
      /\ UNCHANGED <<current, retention, ext, chunk, missed, queue, revs, store, crashes, wk>>
  BY DEF Absent
<1>2. TypeOK /\ CatalogInv
  BY DEF IInv
<1>3. TypeOK'
  <2>1. lifecycle' \in [Objects -> Lifecycles] /\ member' \in [Objects -> [Scopes -> Memberships]]
    BY <1>1, <1>2 DEF TypeOK, Lifecycles, Memberships
  <2> QED  BY <1>1, <1>2, <2>1 DEF TypeOK, queue, store
<1>4. \A p \in Objects : lifecycle[p] = "DELETED" => lifecycle'[p] = "DELETED"
  BY <1>1, <1>2 DEF TypeOK, CatalogInv
<1>5. Grows
  BY <1>1, <1>2, <1>4, QuietGrows
<1>6. \A p \in Objects : lifecycle'[p] = "DELETED" =>
          \A t \in Scopes : member'[p][t] \in {"NONE", "REMOVED"}
  BY <1>1, <1>2 DEF TypeOK, CatalogInv
<1>7. CatalogInv'
  BY <1>1, <1>2, <1>3, <1>5, <1>6, QuietCatalog DEF queue
<1> QED  BY <1>1, <1>3, <1>5, <1>7, RevisionKept DEF IInv

LEMMA CutOffInd ==
    ASSUME IInv, NEW s \in Scopes, NEW o \in Objects, CutOff(s, o)
    PROVE  TypeOK' /\ CatalogInv' /\ RevisionInv' /\ Grows /\ UNCHANGED wk
<1> DEFINE rest == {member[o][t] : t \in Scopes \ {s}}
<1>1. /\ member[o][s] \in {"ACTIVE", "MISSING"}
      /\ member' = [member EXCEPT ![o][s] = "REMOVED"]
      /\ lifecycle' = [lifecycle EXCEPT ![o] =
                         IF "ACTIVE" \in rest THEN lifecycle[o]
                         ELSE IF "MISSING" \in rest THEN "MISSING" ELSE "DELETED"]
      /\ UNCHANGED <<current, retention, ext, chunk, missed, queue, revs, store, crashes, wk>>
  BY DEF CutOff
<1>2. TypeOK /\ CatalogInv
  BY DEF IInv
<1>3. lifecycle[o] # "DELETED"
  BY <1>1, <1>2 DEF CatalogInv
<1>4. TypeOK'
  <2>1. lifecycle' \in [Objects -> Lifecycles] /\ member' \in [Objects -> [Scopes -> Memberships]]
    BY <1>1, <1>2 DEF TypeOK, Lifecycles, Memberships
  <2> QED  BY <1>1, <1>2, <2>1 DEF TypeOK, queue, store
<1>5. Grows
  <2>1. \A p \in Objects : lifecycle[p] = "DELETED" => lifecycle'[p] = "DELETED"
    BY <1>1, <1>2, <1>3 DEF TypeOK
  <2> QED  BY <1>1, <1>2, <2>1, QuietGrows
<1>6. CatalogInv'
  <2>1. ASSUME NEW p \in Objects, lifecycle'[p] = "DELETED", NEW t \in Scopes
        PROVE  member'[p][t] \in {"NONE", "REMOVED"}
    <3>1. CASE p # o
      BY <1>1, <1>2, <2>1, <3>1 DEF TypeOK, CatalogInv
    <3>2. CASE p = o /\ t = s
      BY <1>1, <1>2, <3>2 DEF TypeOK
    <3>3. CASE p = o /\ t # s
      <4>1. "ACTIVE" \notin rest /\ "MISSING" \notin rest
        BY <1>1, <1>2, <1>3, <2>1, <3>3 DEF TypeOK
      <4>2. member[o][t] \in rest /\ member[o][t] \in Memberships
        BY <1>2, <3>3 DEF TypeOK
      <4>3. member'[o][t] = member[o][t]
        BY <1>1, <1>2, <3>3 DEF TypeOK
      <4> QED  BY <3>3, <4>1, <4>2, <4>3 DEF Memberships
    <3> QED  BY <3>1, <3>2, <3>3
  <2> QED  BY <1>1, <1>2, <1>4, <1>5, <2>1, QuietCatalog DEF queue
<1> QED  BY <1>1, <1>4, <1>5, <1>6, RevisionKept DEF IInv

LEMMA BeginPurgeInd ==
    ASSUME IInv, NEW o \in Objects, NEW n \in Versions, BeginPurge(o, n)
    PROVE  TypeOK' /\ CatalogInv' /\ RevisionInv' /\ Grows /\ UNCHANGED wk
<1>1. /\ retention[o][n] = "ACTIVE"
      /\ retention' = [retention EXCEPT ![o][n] = "PURGING"]
      /\ ext' = [ext EXCEPT ![o][n] = {}]
      /\ UNCHANGED <<lifecycle, member, current, chunk, missed, queue, revs, store, crashes, wk>>
  BY DEF BeginPurge
<1>2. TypeOK /\ CatalogInv
  BY DEF IInv
<1>3. TypeOK'
  <2>1. retention' \in [Objects -> [Versions -> {"ACTIVE", "PURGING", "PURGED"}]]
    BY <1>1, <1>2 DEF TypeOK
  <2>2. ext' \in [Objects -> [Versions -> SUBSET Chunks]]
    BY <1>1, <1>2 DEF TypeOK
  <2> QED  BY <1>1, <1>2, <2>1, <2>2 DEF TypeOK, queue, store
<1>4. \A p \in Objects, m \in Versions :
          /\ retention[p][m] # "ACTIVE" => retention'[p][m] # "ACTIVE"
          /\ ext'[p][m] \subseteq ext[p][m]
  BY <1>1, <1>2 DEF TypeOK
<1>5. Grows
  BY <1>1, <1>2, <1>4, QuietGrows
<1>6. CatalogInv'
  <2>1. \A p \in Objects : lifecycle'[p] = "DELETED" =>
            \A t \in Scopes : member'[p][t] \in {"NONE", "REMOVED"}
    BY <1>1, <1>2 DEF CatalogInv
  <2> QED  BY <1>1, <1>2, <1>3, <1>4, <1>5, <2>1, QuietCatalog DEF queue
<1> QED  BY <1>1, <1>3, <1>5, <1>6, RevisionKept DEF IInv

LEMMA CleanupInd ==
    ASSUME IInv, NEW o \in Objects, NEW n \in Versions, Cleanup(o, n)
    PROVE  TypeOK' /\ CatalogInv' /\ RevisionInv' /\ Grows /\ UNCHANGED wk
<1> DEFINE C == ChunksOf(o, n) \ Deletes
<1>1. /\ retention[o][n] # "ACTIVE" /\ Enqueue("DELETE", C)
      /\ UNCHANGED <<lifecycle, member, current, retention, ext, chunk, missed, revs,
                     index, late, lost, outrun, crashes, wk>>
  BY DEF Cleanup, catalog, listing, store
<1>2. TypeOK /\ CatalogInv
  BY DEF IInv
<1>3. C \in SUBSET Chunks /\ \A c \in C : chunk[c] = <<o, n>>
  BY DEF ChunksOf
<1> HIDE DEF C
<1>4. /\ outbox' \in Seq(Events) /\ Len(outbox') <= MaxEvents
      /\ Len(outbox) \in Nat /\ Len(outbox') \in Nat /\ Len(outbox) <= Len(outbox')
      /\ \A i \in 1 .. Len(outbox) : outbox'[i] = outbox[i]
      /\ \A i \in Len(outbox) + 1 .. Len(outbox') :
            outbox'[i].op = "DELETE" /\ outbox'[i].chunk \in C
      /\ published' = published
  BY <1>1, <1>2, <1>3, EnqueueFacts
<1>5. TypeOK'
  <2>1. published' \in 0 .. Len(outbox')
    BY <1>2, <1>4 DEF TypeOK
  <2> QED  BY <1>1, <1>2, <1>4, <2>1 DEF TypeOK
<1>6. Grows
  <2>1. \A p \in Objects : current[p] <= current'[p]
    BY <1>1, <1>2, ConstantFacts DEF TypeOK
  <2>2. published <= published' /\ Len(revs) <= Len(revs')
    BY <1>1, <1>2, <1>4, ConstantFacts DEF TypeOK, Revisions
  <2> QED  BY <1>1, <1>4, <2>1, <2>2 DEF Grows
<1>7. CatalogInv'
  <2>1. ASSUME NEW i \in 1 .. Len(outbox'), i > Len(outbox)
        PROVE  /\ Exists(outbox[i].chunk)'
               /\ outbox'[i].op = "DELETE" => RetentionOf(outbox[i].chunk)' # "ACTIVE"
    <3>1. outbox'[i].chunk \in C
      BY <1>4, <2>1
    <3> QED  BY <1>1, <1>3, <3>1 DEF Exists, RetentionOf
  <2>2. \A p \in Objects : lifecycle'[p] = "DELETED" =>
            \A t \in Scopes : member'[p][t] \in {"NONE", "REMOVED"}
    BY <1>1, <1>2 DEF CatalogInv
  <2>3. \A c \in Chunks : Exists(c)' => Exists(c)
    BY <1>1 DEF Exists
  <2>4. \A p \in Objects, m \in Versions : ext'[p][m] \subseteq ext[p][m]
    BY <1>1
  <2> QED  BY <1>2, <1>5, <1>6, <2>1, <2>2, <2>3, <2>4, CatalogKept
<1> QED  BY <1>1, <1>5, <1>6, <1>7, RevisionKept DEF IInv

LEMMA CompletePurgeInd ==
    ASSUME IInv, NEW o \in Objects, NEW n \in Versions, CompletePurge(o, n)
    PROVE  TypeOK' /\ CatalogInv' /\ RevisionInv' /\ Grows /\ UNCHANGED wk
<1>1. /\ retention' = [retention EXCEPT ![o][n] = "PURGED"]
      /\ UNCHANGED <<lifecycle, member, current, ext, chunk, missed, queue, revs, store, crashes, wk>>
  BY DEF CompletePurge
<1>2. TypeOK /\ CatalogInv
  BY DEF IInv
<1>3. TypeOK'
  <2>1. retention' \in [Objects -> [Versions -> {"ACTIVE", "PURGING", "PURGED"}]]
    BY <1>1, <1>2 DEF TypeOK
  <2> QED  BY <1>1, <1>2, <2>1 DEF TypeOK, queue, store
<1>4. \A p \in Objects, m \in Versions :
          /\ retention[p][m] # "ACTIVE" => retention'[p][m] # "ACTIVE"
          /\ ext'[p][m] \subseteq ext[p][m]
  BY <1>1, <1>2 DEF TypeOK
<1>5. Grows
  BY <1>1, <1>2, <1>4, QuietGrows
<1>6. CatalogInv'
  <2>1. \A p \in Objects : lifecycle'[p] = "DELETED" =>
            \A t \in Scopes : member'[p][t] \in {"NONE", "REMOVED"}
    BY <1>1, <1>2 DEF CatalogInv
  <2> QED  BY <1>1, <1>2, <1>3, <1>4, <1>5, <2>1, QuietCatalog DEF queue
<1> QED  BY <1>1, <1>3, <1>5, <1>6, RevisionKept DEF IInv

\* A revision is staged on top of the one that serves.
LEMMA StageInd ==
    ASSUME IInv, NEW p \in Profiles, StageRevision(p)
    PROVE  TypeOK' /\ CatalogInv' /\ RevisionInv' /\ Grows /\ UNCHANGED wk
<1> DEFINE r == [profile |-> p, status |-> "STAGING"]
           R == [profile : Profiles, status : {"STAGING", "ACTIVE", "SUPERSEDED"}]
<1>1. /\ ~HasStaged /\ Len(revs) < MaxRevisions /\ revs' = Append(revs, r)
      /\ UNCHANGED <<lifecycle, member, current, retention, ext, chunk, missed, outbox, published,
                     index, late, lost, outrun, crashes, wk>>
  BY DEF StageRevision, Newest, catalog, listing, queue, store
<1>2. TypeOK /\ CatalogInv /\ RevisionInv
  BY DEF IInv
<1>3. revs \in Seq(R) /\ r \in R /\ Len(revs) \in Nat /\ Len(revs) >= 1
  BY <1>2, ConstantFacts DEF TypeOK, Revisions
<1> HIDE DEF R, r
<1>4. /\ revs' \in Seq(R) /\ Len(revs') = Len(revs) + 1
      /\ \A q \in 1 .. Len(revs) : revs'[q] = revs[q]
      /\ revs'[Len(revs) + 1] = r
  BY <1>1, <1>3
<1>5. TypeOK'
  <2>1. Len(revs') \in Revisions
    BY <1>1, <1>3, <1>4, ConstantFacts DEF Revisions
  <2> QED  BY <1>1, <1>2, <1>4, <2>1 DEF TypeOK, R
<1>6. Grows
  <2>1. \A o \in Objects : current[o] \in Nat
    BY <1>2, ConstantFacts DEF TypeOK
  <2>2. Len(outbox) \in Nat /\ published \in Nat
    BY <1>2, ConstantFacts DEF TypeOK
  <2> QED  BY <1>1, <1>3, <1>4, <2>1, <2>2 DEF Grows
<1>7. CatalogInv'
  <2>1. \A o \in Objects : lifecycle'[o] = "DELETED" =>
            \A t \in Scopes : member'[o][t] \in {"NONE", "REMOVED"}
    BY <1>1, <1>2 DEF CatalogInv
  <2>2. \A o \in Objects, m \in Versions : ext'[o][m] \subseteq ext[o][m]
    BY <1>1
  <2> QED  BY <1>1, <1>2, <1>5, <1>6, <2>1, <2>2, QuietCatalog
<1>8. RevisionInv'
  <2>1. r.status = "STAGING"
    BY DEF r
  <2>2. revs[Len(revs)].status = "ACTIVE"
    BY <1>1, <1>2 DEF RevisionInv, Newest
  <2>3. Len(revs) > 1 => revs[Len(revs) - 1].status = "SUPERSEDED"
    BY <1>1, <1>2 DEF RevisionInv, Newest
  <2>4. ASSUME NEW q \in 1 .. Len(revs'), q + 1 < Len(revs')
        PROVE  revs'[q].status = "SUPERSEDED"
    <3>1. q \in 1 .. Len(revs) /\ (q + 1 < Len(revs) \/ q = Len(revs) - 1)
      BY <1>3, <1>4, <2>4
    <3>2. revs[q].status = "SUPERSEDED"
      BY <1>2, <1>3, <2>3, <3>1 DEF RevisionInv, Newest
    <3> QED  BY <1>4, <3>1, <3>2
  <2>5. HasStaged' /\ Len(revs') > 1 /\ revs'[Len(revs') - 1].status = "ACTIVE"
    BY <1>3, <1>4, <2>1, <2>2 DEF HasStaged, Newest
  <2> QED  BY <2>4, <2>5 DEF RevisionInv, Newest
<1> QED  BY <1>1, <1>5, <1>6, <1>7, <1>8

-----------------------------------------------------------------------------
(* The workers.                                                            *)

LEMMA WorkerFacts ==
    ASSUME TypeOK, NEW w \in Workers
    PROVE  wk \in [Workers -> WorkerStates] /\ wk[w] \in WorkerStates
  BY DEF TypeOK, WorkerStates

\* The event of a worker that handles one.
LEMMA OwnEvent ==
    ASSUME TypeOK, CatalogInv, NEW w \in Workers, WorkOf(w), wk[w].step \in EventSteps
    PROVE  /\ wk[w].seq \in 1 .. Len(outbox) /\ Event(w) \in Events
           /\ Event(w).chunk \in Chunks /\ Exists(Event(w).chunk)
  BY EventFacts DEF WorkOf, Event, CatalogInv

\* Another's step leaves a worker what it holds.
LEMMA Steady ==
    ASSUME IInv, TypeOK', Grows, NEW v \in Workers, wk'[v] = wk[v]
    PROVE  WorkOf(v)'
<1> DEFINE c == Event(v).chunk
<1>1. TypeOK /\ CatalogInv /\ WorkOf(v)
  BY DEF IInv, WorkInv
<1>2. /\ Len(outbox) \in Nat /\ Len(outbox') \in Nat /\ Len(outbox) <= Len(outbox')
      /\ published \in Nat /\ published' \in Nat /\ published <= published'
      /\ Len(revs) \in Nat /\ Len(revs') \in Nat /\ Len(revs) <= Len(revs')
  BY <1>1, ConstantFacts DEF Grows, TypeOK, Revisions
<1>3. wk[v].seq \in Nat /\ wk[v].staged \in Nat
  BY <1>1, WorkerFacts, ConstantFacts DEF WorkerStates
<1>4. ASSUME wk[v].step \in EventSteps
      PROVE  /\ wk[v].seq \in 1 .. Len(outbox') /\ Event(v)' = Event(v)
             /\ RetentionOf(c) # "ACTIVE" => RetentionOf(c)' # "ACTIVE"
  <2>1. wk[v].seq \in 1 .. Len(outbox) /\ c \in Chunks /\ Exists(c)
    BY <1>1, <1>4, OwnEvent
  <2>2. Event(v)' = Event(v)
    BY <2>1 DEF Grows, Event
  <2>3. chunk'[c] = chunk[c] /\ ObjectOf(c) \in Objects /\ VersionOf(c) \in Versions
    BY <1>1, <2>1, ChunkFacts DEF Grows
  <2>4. RetentionOf(c) # "ACTIVE" => RetentionOf(c)' # "ACTIVE"
    BY <2>2, <2>3 DEF Grows, RetentionOf, ObjectOf, VersionOf
  <2> QED  BY <1>2, <2>1, <2>2, <2>4
<1>5. wk[v].step \in UpsertSteps => wk[v].step \in EventSteps
  BY DEF UpsertSteps, EventSteps
<1>6. wk[v].step \in {"PUT", "DELETE"} => wk[v].step \in EventSteps
  BY DEF EventSteps
<1>7. wk[v].step \in EventSteps => wk[v].seq \in 1 .. Len(outbox')
  BY <1>4
<1>8. wk[v].step \in UpsertSteps => Event(v)'.op = "UPSERT"
  BY <1>1, <1>4, <1>5 DEF WorkOf
<1>9. At(v, "DELETE") => RetentionOf(c)' # "ACTIVE"
  BY <1>1, <1>4, <1>6 DEF WorkOf, At
<1>10. At(v, "PUT") => wk[v].doc \in Documents /\ wk[v].doc.chunk = Event(v)'.chunk
  BY <1>1, <1>4, <1>6 DEF WorkOf, At
<1>11. wk[v].seq <= published' + 1
  BY <1>1, <1>2, <1>3 DEF WorkOf
<1>12. wk[v].step \in {"PAGE", "REBUILD", "ACTIVATE"} => wk[v].staged \in 1 .. Newest'
  BY <1>1, <1>2, <1>3 DEF WorkOf, Newest
<1> HIDE DEF c
<1>13. At(v, "DELETE") => RetentionOf(Event(v).chunk)' # "ACTIVE"
  BY <1>9 DEF c
<1> QED  BY <1>1, <1>7, <1>8, <1>10, <1>11, <1>12, <1>13 DEF WorkOf, At

\* A catalog step keeps the invariant because no worker moves in it.
LEMMA CatalogStepKept ==
    ASSUME IInv, TypeOK', CatalogInv', RevisionInv', Grows, UNCHANGED wk
    PROVE  IInv'
  BY Steady DEF IInv, WorkInv

\* The step of one worker, which leaves the catalog and the outbox alone.
LEMMA WorkerStepKept ==
    ASSUME IInv, NEW w \in Workers,
           UNCHANGED <<lifecycle, member, current, retention, ext, chunk, outbox, revs>>,
           missed' \subseteq Chunks, outrun' \subseteq Chunks,
           published' \in published .. Len(outbox),
           index' \subseteq Documents, late' \subseteq Documents,
           lost' \in 0 .. MaxLost, crashes' \in 0 .. MaxCrashes,
           wk' \in [Workers -> WorkerStates],
           \A v \in Workers : v # w => wk'[v] = wk[v],
           WorkOf(w)'
    PROVE  IInv' /\ Grows
<1>1. TypeOK /\ CatalogInv /\ RevisionInv
  BY DEF IInv
<1>2. published \in Nat /\ Len(outbox) \in Nat /\ Len(revs) \in Nat
  BY <1>1, ConstantFacts DEF TypeOK, Revisions
<1>3. published' \in 0 .. Len(outbox')
  BY <1>2
<1>4. TypeOK'
  BY <1>1, <1>3 DEF TypeOK, WorkerStates
<1>5. \A o \in Objects : current[o] \in Nat
  BY <1>1, ConstantFacts DEF TypeOK
<1>6. Grows
  BY <1>2, <1>5 DEF Grows
<1>7. CatalogInv'
  <2>1. \A o \in Objects : lifecycle'[o] = "DELETED" =>
            \A t \in Scopes : member'[o][t] \in {"NONE", "REMOVED"}
    BY <1>1 DEF CatalogInv
  <2> QED  BY <1>1, <1>4, <1>6, <2>1, QuietCatalog
<1>8. RevisionInv'
  BY <1>1, RevisionKept
<1>9. WorkInv'
  BY <1>4, <1>6, Steady DEF WorkInv
<1> QED  BY <1>4, <1>6, <1>7, <1>8, <1>9 DEF IInv

\* What the step of a worker begins with.
LEMMA Here ==
    ASSUME IInv, NEW w \in Workers
    PROVE  /\ TypeOK /\ CatalogInv /\ RevisionInv /\ WorkOf(w)
           /\ wk \in [Workers -> WorkerStates] /\ wk[w] \in WorkerStates
           /\ published \in Nat /\ published <= Len(outbox) /\ Len(outbox) \in Nat
           /\ Len(outbox) <= MaxEvents
           /\ index \subseteq Documents /\ late \subseteq Documents
           /\ missed \subseteq Chunks /\ outrun \subseteq Chunks
           /\ lost \in 0 .. MaxLost /\ crashes \in 0 .. MaxCrashes
           /\ Newest \in Nat /\ Newest >= 1 /\ Newest <= MaxRevisions
<1>1. TypeOK /\ CatalogInv /\ RevisionInv /\ WorkOf(w)
  BY DEF IInv, WorkInv
<1>2. wk \in [Workers -> WorkerStates] /\ wk[w] \in WorkerStates
  BY <1>1, WorkerFacts
<1>3. Len(outbox) \in Nat /\ published \in Nat /\ published <= Len(outbox) /\ Len(outbox) <= MaxEvents
  BY <1>1 DEF TypeOK
<1>4. Newest \in Nat /\ Newest >= 1 /\ Newest <= MaxRevisions
  BY <1>1, ConstantFacts DEF TypeOK, Revisions, Newest
<1>5. /\ index \subseteq Documents /\ late \subseteq Documents
      /\ missed \subseteq Chunks /\ outrun \subseteq Chunks
      /\ lost \in 0 .. MaxLost /\ crashes \in 0 .. MaxCrashes
  BY <1>1 DEF TypeOK
<1> QED  BY <1>1, <1>2, <1>3, <1>4, <1>5

LEMMA FreshFacts ==
    ASSUME NEW p \in Profiles
    PROVE  Fresh(p) \in WorkerStates
<1>1. 0 \in 0 .. MaxEvents /\ 0 \in 0 .. MaxRevisions /\ 0 \in 0 .. Slice
  BY ConstantFacts
<1> QED  BY <1>1 DEF Fresh, WorkerStates, Steps

\* A worker that starts afresh, but for its cursor, holds nothing.
LEMMA FreshWork ==
    ASSUME IInv, NEW w \in Workers, NEW p \in Profiles,
           published' \in Nat,
           wk'[w] = Fresh(p) \/ wk'[w] = Kept(w)
    PROVE  WorkOf(w)'
<1>1. /\ wk'[w].step = "IDLE" /\ wk'[w].seq = 0 /\ wk'[w].doc = NoDoc
      /\ wk'[w].page = {} /\ wk'[w].docs = {} /\ wk'[w].short = FALSE /\ wk'[w].indexed = 0
  <2>1. CASE wk'[w] = Fresh(p)
    BY <2>1 DEF Fresh
  <2>2. CASE wk'[w] = Kept(w)
    BY <2>2 DEF Fresh, Kept
  <2> QED  BY <2>1, <2>2
<1>2. IsFiniteSet({}) /\ Cardinality({}) = 0
  BY FS_EmptySet
<1>3. wk'[w].seq <= published' + 1
  BY <1>1
<1>4. Cardinality(wk'[w].page) + Cardinality(wk'[w].docs) + wk'[w].indexed <= Slice
  BY <1>1, <1>2, ConstantFacts
<1>5. IsFiniteSet(wk'[w].docs)
  BY <1>1, <1>2
<1> QED  BY <1>1, <1>3, <1>4, <1>5 DEF WorkOf, At, EventSteps, UpsertSteps

LEMMA Restarted ==
    ASSUME IInv, NEW w \in Workers, Restart(w)
    PROVE  /\ wk' \in [Workers -> WorkerStates] /\ \A v \in Workers : v # w => wk'[v] = wk[v]
           /\ wk'[w] = Fresh(wk[w].mounted)
           /\ published' \in Nat => WorkOf(w)'
<1>1. wk \in [Workers -> WorkerStates] /\ wk[w] \in WorkerStates
  BY Here
<1>2. wk[w].mounted \in Profiles
  BY <1>1 DEF WorkerStates
<1>3. wk' = [wk EXCEPT ![w] = Fresh(wk[w].mounted)]
  BY DEF Restart
<1>4. Fresh(wk[w].mounted) \in WorkerStates
  BY <1>2, FreshFacts
<1>6. wk'[w] = Fresh(wk[w].mounted)
  BY <1>1, <1>3
<1>7. published' \in Nat => WorkOf(w)'
  BY <1>2, <1>6, FreshWork
<1> QED  BY <1>1, <1>3, <1>4, <1>6, <1>7

\* A worker inside ApplyOnce holds nothing of a rebuild.
LEMMA EventWork ==
    ASSUME IInv, NEW w \in Workers, ~At(w, "REBUILD"),
           UNCHANGED <<outbox, retention, chunk>>, published' \in Nat,
           wk'[w].step \in EventSteps \cup {"IDLE", "FAIL"},
           wk'[w].page = wk[w].page, wk'[w].docs = wk[w].docs,
           wk'[w].short = wk[w].short, wk'[w].indexed = wk[w].indexed,
           wk'[w].step \in EventSteps => wk'[w].seq \in 1 .. Len(outbox),
           wk'[w].seq <= published' + 1,
           wk'[w].step \in UpsertSteps => outbox[wk'[w].seq].op = "UPSERT",
           wk'[w].step = "DELETE" => RetentionOf(outbox[wk'[w].seq].chunk) # "ACTIVE",
           wk'[w].step = "PUT" => /\ wk'[w].doc \in Documents
                                  /\ wk'[w].doc.chunk = outbox[wk'[w].seq].chunk,
           wk'[w].step # "PUT" => wk'[w].doc = NoDoc
    PROVE  WorkOf(w)'
<1>1. WorkOf(w)
  BY DEF IInv, WorkInv
<1>2. wk'[w].step # "REBUILD" /\ wk'[w].step # "PAGE" /\ wk'[w].step # "ACTIVATE"
  BY DEF EventSteps
<1>3. wk'[w].page = {} /\ wk'[w].docs = {} /\ ~wk'[w].short /\ IsFiniteSet(wk'[w].docs)
  BY <1>1 DEF WorkOf
<1>4. Cardinality(wk'[w].page) + Cardinality(wk'[w].docs) + wk'[w].indexed <= Slice
  BY <1>1 DEF WorkOf
<1>5. RetentionOf(outbox[wk'[w].seq].chunk) # "ACTIVE" => RetentionOf(Event(w).chunk)' # "ACTIVE"
  BY DEF RetentionOf, Event
<1> QED  BY <1>2, <1>3, <1>4, <1>5 DEF WorkOf, At, Event

LEMMA ReadNextInd ==
    ASSUME IInv, NEW w \in Workers, ReadNext(w)
    PROVE  IInv' /\ Grows
<1> DEFINE i == published + 1
           next == IF outbox[i].op = "DELETE" THEN "DELETE" ELSE "LOAD"
<1>1. /\ At(w, "IDLE") /\ published < Len(outbox)
      /\ wk' = [wk EXCEPT ![w] = [wk[w] EXCEPT !.seq = i, !.step = next]]
      /\ UNCHANGED <<lifecycle, member, current, retention, ext, chunk, missed, outbox, published,
                     revs, index, late, lost, outrun, crashes>>
  BY DEF ReadNext, catalog, listing, queue, store
<1>2. /\ TypeOK /\ CatalogInv /\ WorkOf(w) /\ wk \in [Workers -> WorkerStates]
      /\ wk[w] \in WorkerStates /\ published \in Nat /\ Len(outbox) \in Nat
      /\ Len(outbox) <= MaxEvents /\ published <= Len(outbox)
  BY Here
<1>3. i \in 1 .. Len(outbox) /\ i \in 0 .. MaxEvents
  BY <1>1, <1>2, ConstantFacts
<1>4. outbox[i].op \in {"UPSERT", "DELETE"} /\ (outbox[i].op = "DELETE" => RetentionOf(outbox[i].chunk) # "ACTIVE")
  BY <1>2, <1>3, EventFacts DEF Events, CatalogInv
<1>5. wk' \in [Workers -> WorkerStates]
  BY <1>1, <1>2, <1>3 DEF WorkerStates, Steps
<1>6. /\ wk'[w].step = next /\ wk'[w].seq = i /\ wk'[w].doc = wk[w].doc
      /\ wk'[w].page = wk[w].page /\ wk'[w].docs = wk[w].docs
      /\ wk'[w].short = wk[w].short /\ wk'[w].indexed = wk[w].indexed
  BY <1>1, <1>2 DEF WorkerStates
<1>7. wk[w].doc = NoDoc
  BY <1>1, <1>2 DEF WorkOf, At
<1> HIDE DEF i
<1>8. WorkOf(w)'
  BY <1>1, <1>2, <1>3, <1>4, <1>6, <1>7, EventWork DEF i, EventSteps, UpsertSteps, At
<1> QED  BY <1>1, <1>2, <1>5, <1>8, Here, WorkerStepKept

LEMMA LoadDocumentInd ==
    ASSUME IInv, NEW w \in Workers, LoadDocument(w)
    PROVE  IInv' /\ Grows
<1> DEFINE c == Event(w).chunk
           next == IF Listed(c) /\ Conflict(w) THEN "FAIL"
                   ELSE IF Indexable(c) THEN "PUT" ELSE "PURGED"
           doc == IF Indexable(c) /\ ~Conflict(w) THEN Document(c) ELSE wk[w].doc
<1>1. /\ At(w, "LOAD")
      /\ wk' = [wk EXCEPT ![w] = [wk[w] EXCEPT !.step = next, !.doc = doc]]
      /\ UNCHANGED <<lifecycle, member, current, retention, ext, chunk, missed, outbox, published,
                     revs, index, late, lost, outrun, crashes>>
  BY DEF LoadDocument, catalog, listing, queue, store
<1>2. /\ TypeOK /\ CatalogInv /\ WorkOf(w) /\ wk \in [Workers -> WorkerStates]
      /\ wk[w] \in WorkerStates /\ published \in Nat /\ Len(outbox) \in Nat
      /\ published <= Len(outbox) /\ Newest \in Nat /\ Newest >= 1 /\ Newest <= MaxRevisions
  BY Here
<1>3. wk[w].seq \in 1 .. Len(outbox) /\ c \in Chunks /\ Event(w).op = "UPSERT" /\ wk[w].doc = NoDoc
  BY <1>1, <1>2, OwnEvent DEF WorkOf, At, EventSteps, UpsertSteps
<1>4. Document(c) \in Documents /\ Document(c).chunk = c
  BY <1>2, <1>3, ConstantFacts DEF Document, Documents, Target, Revisions, ActiveScopes
<1>5. Indexable(c) => Listed(c)
  BY DEF Indexable
<1>6. next = "PUT" => doc = Document(c)
  BY <1>5
<1>7. next # "PUT" => doc = NoDoc
  BY <1>3, <1>5
<1>8. next \in {"FAIL", "PUT", "PURGED"} /\ doc \in Documents \cup {NoDoc}
  BY <1>3, <1>4
<1> HIDE DEF next, doc
<1>9. wk' \in [Workers -> WorkerStates]
  BY <1>1, <1>2, <1>8 DEF WorkerStates, Steps
<1>10. /\ wk'[w].step = next /\ wk'[w].seq = wk[w].seq /\ wk'[w].doc = doc
       /\ wk'[w].page = wk[w].page /\ wk'[w].docs = wk[w].docs
       /\ wk'[w].short = wk[w].short /\ wk'[w].indexed = wk[w].indexed
  BY <1>1, <1>2 DEF WorkerStates
<1>11. wk[w].seq <= published + 1
  BY <1>2 DEF WorkOf
<1>12. WorkOf(w)'
  BY <1>1, <1>2, <1>3, <1>4, <1>6, <1>7, <1>8, <1>10, <1>11, EventWork
     DEF EventSteps, UpsertSteps, At, Event
<1> QED  BY <1>1, <1>2, <1>9, <1>12, Here, WorkerStepKept

LEMMA StoredType ==
    ASSUME index \subseteq Documents, NEW d \in Documents
    PROVE  Stored(d) \subseteq Documents /\ d \in Stored(d)
  BY DEF Stored

LEMMA IndexInd ==
    ASSUME IInv, NEW w \in Workers, Index(w)
    PROVE  IInv' /\ Grows
<1>1. /\ At(w, "PUT") /\ index' = Stored(wk[w].doc)
      /\ wk' = [wk EXCEPT ![w] = [wk[w] EXCEPT !.step = "PUBLISH", !.doc = NoDoc]]
      /\ UNCHANGED <<lifecycle, member, current, retention, ext, chunk, missed, outbox, published,
                     revs, late, lost, outrun, crashes>>
  BY DEF Index, catalog, listing, queue
<1>2. /\ TypeOK /\ CatalogInv /\ WorkOf(w) /\ wk \in [Workers -> WorkerStates]
      /\ wk[w] \in WorkerStates /\ published \in Nat /\ Len(outbox) \in Nat
      /\ published <= Len(outbox)
  BY Here
<1>3. wk[w].seq \in 1 .. Len(outbox) /\ wk[w].doc \in Documents /\ wk[w].seq <= published + 1
  BY <1>1, <1>2 DEF WorkOf, At, EventSteps
<1>4. index' \subseteq Documents
  BY <1>1, <1>3, StoredType, Here
<1>5. wk' \in [Workers -> WorkerStates]
  BY <1>1, <1>2 DEF WorkerStates, Steps
<1>6. /\ wk'[w].step = "PUBLISH" /\ wk'[w].seq = wk[w].seq /\ wk'[w].doc = NoDoc
      /\ wk'[w].page = wk[w].page /\ wk'[w].docs = wk[w].docs
      /\ wk'[w].short = wk[w].short /\ wk'[w].indexed = wk[w].indexed
  BY <1>1, <1>2 DEF WorkerStates
<1>7. WorkOf(w)'
  BY <1>1, <1>2, <1>3, <1>6, EventWork DEF EventSteps, UpsertSteps, At
<1> QED  BY <1>1, <1>2, <1>4, <1>5, <1>7, Here, WorkerStepKept

LEMMA WithoutType ==
    ASSUME index \subseteq Documents, NEW c
    PROVE  Without(c) \subseteq Documents
  BY DEF Without

LEMMA DeleteInd ==
    ASSUME IInv, NEW w \in Workers, DeleteProfileCopies(w)
    PROVE  IInv' /\ Grows
<1>1. /\ At(w, "DELETE") /\ index' = Without(Event(w).chunk)
      /\ wk' = [wk EXCEPT ![w] = [wk[w] EXCEPT !.step = "PUBLISH"]]
      /\ UNCHANGED <<lifecycle, member, current, retention, ext, chunk, missed, outbox, published,
                     revs, late, lost, crashes>>
      /\ outrun' \subseteq outrun \cup {Event(w).chunk}
  BY DEF DeleteProfileCopies, Goto, catalog, listing, queue
<1>2. /\ TypeOK /\ CatalogInv /\ WorkOf(w) /\ wk \in [Workers -> WorkerStates]
      /\ wk[w] \in WorkerStates /\ published \in Nat /\ Len(outbox) \in Nat
      /\ published <= Len(outbox)
  BY Here
<1>3. wk[w].seq \in 1 .. Len(outbox) /\ wk[w].doc = NoDoc /\ wk[w].seq <= published + 1
  BY <1>1, <1>2 DEF WorkOf, At, EventSteps
<1>4. index' \subseteq Documents /\ outrun' \subseteq Chunks
  <2>1. Event(w).chunk \in Chunks
    BY <1>1, <1>2, OwnEvent DEF At, EventSteps
  <2> QED  BY <1>1, <2>1, WithoutType, Here
<1>5. wk' \in [Workers -> WorkerStates]
  BY <1>1, <1>2 DEF WorkerStates, Steps
<1>6. /\ wk'[w].step = "PUBLISH" /\ wk'[w].seq = wk[w].seq /\ wk'[w].doc = NoDoc
      /\ wk'[w].page = wk[w].page /\ wk'[w].docs = wk[w].docs
      /\ wk'[w].short = wk[w].short /\ wk'[w].indexed = wk[w].indexed
  BY <1>1, <1>2, <1>3 DEF WorkerStates
<1>7. WorkOf(w)'
  BY <1>1, <1>2, <1>3, <1>6, EventWork DEF EventSteps, UpsertSteps, At
<1> QED  BY <1>1, <1>2, <1>4, <1>5, <1>7, Here, WorkerStepKept

\* The head moves to the event a worker holds, or not at all.
LEMMA PublishedFacts ==
    ASSUME IInv, NEW w \in Workers, wk[w].step \in EventSteps, Published(wk[w].seq)
    PROVE  /\ published' \in published .. Len(outbox) /\ published' \in Nat
           /\ published' # published => published' = published + 1 /\ wk[w].seq = published + 1
<1>1. /\ WorkOf(w) /\ published \in Nat /\ Len(outbox) \in Nat /\ published <= Len(outbox)
  BY Here
<1>2. wk[w].seq \in 1 .. Len(outbox) /\ wk[w].seq <= published + 1
  BY <1>1 DEF WorkOf
<1> QED  BY <1>1, <1>2 DEF Published

\* The worker that published, or skipped, an event polls again.
LEMMA BackToIdle ==
    ASSUME IInv, NEW w \in Workers, wk[w].step \in {"PUBLISH", "MISSING", "SUPERSEDED"},
           wk' = [wk EXCEPT ![w].step = "IDLE", ![w].seq = 0],
           UNCHANGED <<outbox, retention, chunk>>, published' \in Nat
    PROVE  /\ wk' \in [Workers -> WorkerStates] /\ \A v \in Workers : v # w => wk'[v] = wk[v]
           /\ WorkOf(w)'
<1>1. WorkOf(w) /\ wk \in [Workers -> WorkerStates] /\ wk[w] \in WorkerStates
  BY Here
<1>2. wk' = [wk EXCEPT ![w] = [wk[w] EXCEPT !.step = "IDLE", !.seq = 0]]
  OBVIOUS
<1>3. wk' \in [Workers -> WorkerStates]
  BY <1>1, <1>2, ConstantFacts DEF WorkerStates, Steps
<1>4. /\ wk'[w].step = "IDLE" /\ wk'[w].seq = 0 /\ wk'[w].doc = wk[w].doc
      /\ wk'[w].page = wk[w].page /\ wk'[w].docs = wk[w].docs
      /\ wk'[w].short = wk[w].short /\ wk'[w].indexed = wk[w].indexed
  BY <1>1, <1>2 DEF WorkerStates
<1>5. wk[w].doc = NoDoc
  BY <1>1 DEF WorkOf, At
<1>6. /\ ~At(w, "REBUILD") /\ wk'[w].step \notin EventSteps /\ wk'[w].step \notin UpsertSteps
      /\ wk'[w].step \in EventSteps \cup {"IDLE", "FAIL"}
      /\ wk'[w].step # "PUT" /\ wk'[w].step # "DELETE"
  BY <1>4 DEF At, EventSteps, UpsertSteps
<1>7. wk'[w].seq <= published' + 1 /\ wk'[w].doc = NoDoc
  BY <1>4, <1>5
<1>8. WorkOf(w)'
  BY <1>4, <1>6, <1>7, EventWork
<1> QED  BY <1>1, <1>2, <1>3, <1>8

LEMMA PublishInd ==
    ASSUME IInv, NEW w \in Workers, Publish(w)
    PROVE  IInv' /\ Grows
<1>1. /\ wk[w].step = "PUBLISH" /\ Published(wk[w].seq)
      /\ wk' = [wk EXCEPT ![w].step = "IDLE", ![w].seq = 0]
      /\ UNCHANGED <<lifecycle, member, current, retention, ext, chunk, missed, outbox,
                     revs, index, late, lost, outrun, crashes>>
  BY DEF Publish, At, catalog, listing, store
<1>2. published' \in published .. Len(outbox) /\ published' \in Nat
  BY <1>1, PublishedFacts DEF EventSteps
<1>3. /\ wk' \in [Workers -> WorkerStates] /\ \A v \in Workers : v # w => wk'[v] = wk[v]
      /\ WorkOf(w)'
  BY <1>1, <1>2, BackToIdle
<1> QED  BY <1>1, <1>2, <1>3, Here, WorkerStepKept

\* A worker goes on to another step with the same event.
LEMMA GotoFacts ==
    ASSUME IInv, NEW w \in Workers, NEW step \in {"DELETE", "MISSING", "SUPERSEDED", "FAIL"},
           wk[w].step \in {"PURGED", "MISSING", "SUPERSEDED"}, Goto(w, step),
           step = "DELETE" => RetentionOf(Event(w).chunk) # "ACTIVE",
           UNCHANGED <<outbox, retention, chunk, published>>
    PROVE  /\ wk' \in [Workers -> WorkerStates] /\ \A v \in Workers : v # w => wk'[v] = wk[v]
           /\ WorkOf(w)'
<1>1. /\ TypeOK /\ CatalogInv /\ WorkOf(w) /\ wk \in [Workers -> WorkerStates]
      /\ wk[w] \in WorkerStates /\ published \in Nat
  BY Here
<1>2. wk' = [wk EXCEPT ![w] = [wk[w] EXCEPT !.step = step]]
  BY DEF Goto
<1>3. wk' \in [Workers -> WorkerStates]
  BY <1>1, <1>2 DEF WorkerStates, Steps
<1>4. /\ wk'[w].step = step /\ wk'[w].seq = wk[w].seq /\ wk'[w].doc = wk[w].doc
      /\ wk'[w].page = wk[w].page /\ wk'[w].docs = wk[w].docs
      /\ wk'[w].short = wk[w].short /\ wk'[w].indexed = wk[w].indexed
  BY <1>1, <1>2 DEF WorkerStates
<1>5. /\ wk[w].doc = NoDoc /\ wk[w].seq \in 1 .. Len(outbox) /\ wk[w].seq <= published + 1
      /\ outbox[wk[w].seq].op = "UPSERT"
  BY <1>1 DEF WorkOf, At, EventSteps, UpsertSteps, Event
<1>6. /\ ~At(w, "REBUILD") /\ published' = published /\ step # "PUT"
      /\ step \in EventSteps \cup {"IDLE", "FAIL"}
  BY DEF At, EventSteps
<1>7. step = "DELETE" => RetentionOf(outbox[wk[w].seq].chunk) # "ACTIVE"
  BY DEF Event
<1>8. WorkOf(w)'
  BY <1>1, <1>4, <1>5, <1>6, <1>7, EventWork
<1> QED  BY <1>1, <1>2, <1>3, <1>8

LEMMA VersionPurgedInd ==
    ASSUME IInv, NEW w \in Workers, VersionPurged(w)
    PROVE  IInv' /\ Grows
<1> DEFINE step == IF RetentionOf(Event(w).chunk) = "ACTIVE" THEN "MISSING" ELSE "DELETE"
<1>1. /\ wk[w].step = "PURGED" /\ Goto(w, step)
      /\ UNCHANGED <<lifecycle, member, current, retention, ext, chunk, missed, outbox, published,
                     revs, index, late, lost, outrun, crashes>>
  BY DEF VersionPurged, At, catalog, listing, queue, store
<1>2. /\ wk' \in [Workers -> WorkerStates] /\ \A v \in Workers : v # w => wk'[v] = wk[v]
      /\ WorkOf(w)'
  BY <1>1, GotoFacts
<1>3. published' \in published .. Len(outbox)
  BY <1>1, Here
<1> QED  BY <1>1, <1>2, <1>3, Here, WorkerStepKept

LEMMA PublishMissingInd ==
    ASSUME IInv, NEW w \in Workers, PublishMissing(w)
    PROVE  IInv' /\ Grows
<1>1. /\ wk[w].step = "MISSING"
      /\ UNCHANGED <<lifecycle, member, current, retention, ext, chunk, missed, outbox,
                     revs, index, late, lost, outrun, crashes>>
  BY DEF PublishMissing, At, catalog, listing, store
<1>2. CASE Unreadable(chunk[Event(w).chunk][1]) /\ ~Conflict(w)
  <2>1. Published(wk[w].seq) /\ wk' = [wk EXCEPT ![w].step = "IDLE", ![w].seq = 0]
    BY <1>2 DEF PublishMissing
  <2>2. published' \in published .. Len(outbox) /\ published' \in Nat
    BY <1>1, <2>1, PublishedFacts DEF EventSteps
  <2>3. /\ wk' \in [Workers -> WorkerStates] /\ \A v \in Workers : v # w => wk'[v] = wk[v]
        /\ WorkOf(w)'
    BY <1>1, <2>1, <2>2, BackToIdle
  <2> QED  BY <1>1, <2>2, <2>3, Here, WorkerStepKept
<1>3. CASE ~(Unreadable(chunk[Event(w).chunk][1]) /\ ~Conflict(w))
  <2>1. Goto(w, "SUPERSEDED") /\ published' = published
    BY <1>3 DEF PublishMissing
  <2>2. /\ wk' \in [Workers -> WorkerStates] /\ \A v \in Workers : v # w => wk'[v] = wk[v]
        /\ WorkOf(w)'
    BY <1>1, <2>1, GotoFacts
  <2>3. published' \in published .. Len(outbox)
    BY <2>1, Here
  <2> QED  BY <1>1, <2>2, <2>3, Here, WorkerStepKept
<1> QED  BY <1>2, <1>3

LEMMA PublishSupersededInd ==
    ASSUME IInv, NEW w \in Workers, PublishSuperseded(w)
    PROVE  IInv' /\ Grows
<1>1. /\ wk[w].step = "SUPERSEDED" /\ index' = Without(Event(w).chunk)
      /\ Published(wk[w].seq) /\ wk' = [wk EXCEPT ![w].step = "IDLE", ![w].seq = 0]
      /\ UNCHANGED <<lifecycle, member, current, retention, ext, chunk, missed, outbox,
                     revs, late, lost, outrun, crashes>>
  BY DEF PublishSuperseded, At, catalog, listing
<1>2. published' \in published .. Len(outbox) /\ published' \in Nat
  BY <1>1, PublishedFacts DEF EventSteps
<1>3. /\ wk' \in [Workers -> WorkerStates] /\ \A v \in Workers : v # w => wk'[v] = wk[v]
      /\ WorkOf(w)'
  BY <1>1, <1>2, BackToIdle
<1>4. index' \subseteq Documents
  BY <1>1, WithoutType, Here
<1> QED  BY <1>1, <1>2, <1>3, <1>4, Here, WorkerStepKept

LEMMA NotObsoleteInd ==
    ASSUME IInv, NEW w \in Workers, NotObsolete(w)
    PROVE  IInv' /\ Grows
<1>1. /\ wk[w].step = "SUPERSEDED" /\ Goto(w, "FAIL")
      /\ UNCHANGED <<lifecycle, member, current, retention, ext, chunk, missed, outbox, published,
                     revs, index, late, lost, outrun, crashes>>
  BY DEF NotObsolete, At, catalog, listing, queue, store
<1>2. /\ wk' \in [Workers -> WorkerStates] /\ \A v \in Workers : v # w => wk'[v] = wk[v]
      /\ WorkOf(w)'
  BY <1>1, GotoFacts
<1>3. published' \in published .. Len(outbox)
  BY <1>1, Here
<1> QED  BY <1>1, <1>2, <1>3, Here, WorkerStepKept

LEMMA FailInd ==
    ASSUME IInv, NEW w \in Workers, Fail(w)
    PROVE  IInv' /\ Grows
<1>1. /\ Restart(w)
      /\ UNCHANGED <<lifecycle, member, current, retention, ext, chunk, missed, outbox, published,
                     revs, index, late, lost, outrun, crashes>>
  BY DEF Fail, catalog, listing, queue, store
<1>2. published' \in published .. Len(outbox) /\ published' \in Nat
  BY <1>1, Here
<1> QED  BY <1>1, <1>2, Restarted, Here, WorkerStepKept

LEMMA IndexTimeoutInd ==
    ASSUME IInv, NEW w \in Workers, IndexTimeout(w)
    PROVE  IInv' /\ Grows
<1>1. /\ At(w, "PUT") /\ lost < MaxLost /\ lost' = lost + 1
      /\ late' = late \cup {wk[w].doc} /\ Restart(w)
      /\ UNCHANGED <<lifecycle, member, current, retention, ext, chunk, missed, outbox, published,
                     revs, index, outrun, crashes>>
  BY DEF IndexTimeout, catalog, listing, queue
<1>2. published' \in published .. Len(outbox) /\ published' \in Nat
  BY <1>1, Here
<1>3. late' \subseteq Documents /\ lost' \in 0 .. MaxLost
  BY <1>1, Here, ConstantFacts DEF WorkOf
<1> QED  BY <1>1, <1>2, <1>3, Restarted, Here, WorkerStepKept

-----------------------------------------------------------------------------
(* The pool that rebuilds the corpus.                                      *)

\* A worker inside Reindex holds no event's document.
LEMMA PoolWork ==
    ASSUME IInv, NEW w \in Workers, published' \in Nat, UNCHANGED revs,
           wk'[w].step \in {"PAGE", "REBUILD", "ACTIVATE"},
           wk'[w].seq = wk[w].seq, wk[w].seq <= published' + 1, wk'[w].doc = NoDoc,
           wk'[w].step # "REBUILD" => wk'[w].page = {} /\ wk'[w].docs = {} /\ ~wk'[w].short,
           wk'[w].staged \in 1 .. Newest,
           wk'[w].step = "PAGE" => wk'[w].indexed < Slice,
           IsFiniteSet(wk'[w].docs),
           Cardinality(wk'[w].page) + Cardinality(wk'[w].docs) + wk'[w].indexed <= Slice
    PROVE  WorkOf(w)'
<1>1. wk'[w].step \notin EventSteps /\ wk'[w].step \notin UpsertSteps
  BY DEF EventSteps, UpsertSteps
<1>2. wk'[w].step # "PUT" /\ wk'[w].step # "DELETE"
  OBVIOUS
<1>3. wk'[w].staged \in 1 .. Newest'
  BY DEF Newest
<1> QED  BY <1>1, <1>2, <1>3 DEF WorkOf, At

LEMMA StartReindexInd ==
    ASSUME IInv, NEW w \in Workers, StartReindex(w)
    PROVE  IInv' /\ Grows
<1>1. /\ wk[w].step = "IDLE"
      /\ wk' = [wk EXCEPT ![w] = [wk[w] EXCEPT !.step = "PAGE", !.staged = Newest,
                                               !.after = wk[w].cursor, !.indexed = 0]]
      /\ missed' \subseteq missed \cup Chunks
      /\ UNCHANGED <<lifecycle, member, current, retention, ext, chunk, outbox, published,
                     revs, index, late, lost, outrun, crashes>>
  BY DEF StartReindex, SkippedBy, At, listing, queue, store
<1>2. /\ WorkOf(w) /\ wk \in [Workers -> WorkerStates]
      /\ wk[w] \in WorkerStates /\ published \in Nat /\ published <= Len(outbox)
      /\ Newest \in Nat /\ Newest >= 1 /\ Newest <= MaxRevisions /\ Len(outbox) \in Nat
  BY Here
<1>3. wk' \in [Workers -> WorkerStates]
  <2>1. Newest \in 0 .. MaxRevisions /\ 0 \in 0 .. Slice
    BY <1>2, ConstantFacts
  <2>2. [wk[w] EXCEPT !.step = "PAGE", !.staged = Newest,
                      !.after = wk[w].cursor, !.indexed = 0] \in WorkerStates
    BY <1>2, <2>1 DEF WorkerStates, Steps
  <2> QED  BY <1>1, <1>2, <2>2
<1>4. /\ wk'[w].step = "PAGE" /\ wk'[w].seq = wk[w].seq /\ wk'[w].doc = wk[w].doc
      /\ wk'[w].page = wk[w].page /\ wk'[w].docs = wk[w].docs /\ wk'[w].staged = Newest
      /\ wk'[w].short = wk[w].short /\ wk'[w].indexed = 0
  BY <1>1, <1>2 DEF WorkerStates
<1>5. /\ wk[w].doc = NoDoc /\ wk[w].page = {} /\ wk[w].docs = {} /\ ~wk[w].short
      /\ wk[w].seq <= published + 1
  BY <1>1, <1>2 DEF WorkOf, At
<1>6. IsFiniteSet({}) /\ Cardinality({}) = 0
  BY FS_EmptySet
<1>7. Cardinality(wk'[w].page) + Cardinality(wk'[w].docs) + wk'[w].indexed <= Slice
  BY <1>4, <1>5, <1>6, ConstantFacts
<1>8. wk'[w].staged \in 1 .. Newest /\ wk'[w].indexed < Slice
  BY <1>2, <1>4, ConstantFacts
<1>9. WorkOf(w)'
  BY <1>1, <1>2, <1>4, <1>5, <1>6, <1>7, <1>8, PoolWork
<1> QED  BY <1>1, <1>2, <1>3, <1>9, Here, WorkerStepKept

\* A page holds listed chunks past the worker's place, in id order.
LEMMA PageFacts ==
    ASSUME NEW after \in Chunks \cup {0}, NEW n \in Nat, n # 0,
           References(after) # {}
    PROVE  /\ References(after) \in SUBSET {c \in Chunks : Listed(c) /\ c > after}
           /\ FirstOf(References(after), n) \in SUBSET Chunks
           /\ FirstOf(References(after), n) # {}
           /\ Cardinality(FirstOf(References(after), n)) \in 0 .. n
           /\ CursorAfter(FirstOf(References(after), n)) \in FirstOf(References(after), n)
           /\ \A c \in FirstOf(References(after), n) :
                 c <= CursorAfter(FirstOf(References(after), n))
           /\ \A c \in Chunks : /\ Listed(c) /\ c > after
                                /\ c <= CursorAfter(FirstOf(References(after), n))
                                => c \in FirstOf(References(after), n)
           /\ Cardinality(References(after)) < PageSize
              => \A c \in Chunks : Listed(c) /\ c > after => c \in References(after)
<1> DEFINE L == {c \in Chunks : Listed(c) /\ c > after}
           R == References(after)
           P == FirstOf(R, n)
<1>1. L \in SUBSET Chunks /\ L \in SUBSET Nat /\ IsFiniteSet(L) /\ PageSize \in Nat
  BY ChunkSets, ConstantFacts
<1>2. R = FirstOf(L, PageSize)
  BY DEF References
<1> HIDE DEF L, R
<1>3. /\ R \in SUBSET L /\ IsFiniteSet(R)
      /\ \A c \in R, d \in L : d < c => d \in R
      /\ Cardinality(R) < PageSize => R = L
  BY <1>1, <1>2, FirstOfFacts
<1>4. R \in SUBSET Nat /\ R # {}
  BY <1>1, <1>3 DEF R
<1>5. /\ P \in SUBSET R /\ IsFiniteSet(P) /\ Cardinality(P) \in 0 .. n /\ P # {}
      /\ \A c \in P, d \in R : d < c => d \in P
      /\ Cardinality(R) <= n => P = R
  BY <1>3, <1>4, FirstOfFacts
<1> HIDE DEF P
<1>6. P \in SUBSET Nat /\ P \in SUBSET Chunks
  BY <1>1, <1>3, <1>5
<1>7. CursorAfter(P) \in P /\ \A c \in P : c <= CursorAfter(P)
  BY <1>5, <1>6, MaxFacts DEF CursorAfter
<1>8. ASSUME NEW c \in L, c <= CursorAfter(P) PROVE c \in P
  <2>1. CASE c = CursorAfter(P)
    BY <1>7, <2>1
  <2>2. CASE c # CursorAfter(P)
    <3>1. c \in Nat /\ CursorAfter(P) \in Nat /\ CursorAfter(P) \in R
      BY <1>1, <1>5, <1>6, <1>7
    <3>2. c < CursorAfter(P)
      BY <1>8, <2>2, <3>1
    <3>3. c \in R
      BY <1>3, <1>8, <3>1, <3>2
    <3> QED  BY <1>5, <1>7, <3>2, <3>3
  <2> QED  BY <2>1, <2>2
<1> QED  BY <1>3, <1>5, <1>6, <1>7, <1>8 DEF L, R, P

LEMMA ReadPageInd ==
    ASSUME IInv, NEW w \in Workers, ReadPage(w)
    PROVE  IInv' /\ Grows
<1> DEFINE refs == References(wk[w].after)
           page == FirstOf(refs, Slice - wk[w].indexed)
           short == Cardinality(refs) < PageSize
<1>1. /\ wk[w].step = "PAGE" /\ refs # {}
      /\ wk' = [wk EXCEPT ![w] = [wk[w] EXCEPT !.step = "REBUILD", !.page = page,
                                  !.after = CursorAfter(page), !.short = short]]
      /\ missed' = missed \cup CutOffBy(refs, page)
      /\ UNCHANGED <<lifecycle, member, current, retention, ext, chunk, outbox, published,
                     revs, index, late, lost, outrun, crashes>>
  BY DEF ReadPage, At, listing, queue, store
<1>2. /\ WorkOf(w) /\ wk \in [Workers -> WorkerStates]
      /\ wk[w] \in WorkerStates /\ published \in Nat /\ published <= Len(outbox)
      /\ Len(outbox) \in Nat
  BY Here
<1>3. /\ wk[w].after \in Chunks \cup {0} /\ wk[w].indexed \in Nat /\ wk[w].indexed < Slice
      /\ Slice - wk[w].indexed \in Nat /\ Slice - wk[w].indexed # 0
  <2>1. wk[w].after \in Chunks \cup {0} /\ wk[w].indexed \in Nat /\ wk[w].indexed \in 0 .. Slice
    BY <1>2, ConstantFacts DEF WorkerStates
  <2>2. wk[w].indexed < Slice
    BY <1>1, <1>2 DEF WorkOf, At
  <2> QED  BY <2>1, <2>2, ConstantFacts
<1>4. /\ page \in SUBSET Chunks /\ Cardinality(page) \in 0 .. Slice - wk[w].indexed
      /\ CursorAfter(page) \in Chunks
  <2>1. PICK n \in Nat : n = Slice - wk[w].indexed
    BY <1>3
  <2>2. page = FirstOf(refs, n) /\ n # 0
    BY <1>3, <2>1
  <2>3. /\ FirstOf(refs, n) \in SUBSET Chunks /\ Cardinality(FirstOf(refs, n)) \in 0 .. n
        /\ CursorAfter(FirstOf(refs, n)) \in FirstOf(refs, n)
    BY <1>1, <1>3, <2>2, PageFacts
  <2> HIDE DEF page, refs
  <2> QED  BY <2>1, <2>2, <2>3
<1>5. short \in BOOLEAN
  OBVIOUS
<1>5a. refs \subseteq Chunks
  BY DEF References, FirstOf
<1> HIDE DEF refs, page, short
<1>6. wk' \in [Workers -> WorkerStates]
  BY <1>1, <1>2, <1>4, <1>5 DEF WorkerStates, Steps
<1>7. /\ wk'[w].step = "REBUILD" /\ wk'[w].seq = wk[w].seq /\ wk'[w].doc = wk[w].doc
      /\ wk'[w].page = page /\ wk'[w].docs = wk[w].docs /\ wk'[w].staged = wk[w].staged
      /\ wk'[w].indexed = wk[w].indexed
  BY <1>1, <1>2 DEF WorkerStates
<1>8. /\ wk[w].doc = NoDoc /\ wk[w].docs = {} /\ wk[w].seq <= published + 1
      /\ wk[w].staged \in 1 .. Newest
  BY <1>1, <1>2 DEF WorkOf, At
<1>9. IsFiniteSet({}) /\ Cardinality({}) = 0
  BY FS_EmptySet
<1>10. Cardinality(wk'[w].page) + Cardinality(wk'[w].docs) + wk'[w].indexed <= Slice
  BY <1>3, <1>4, <1>7, <1>8, <1>9, ConstantFacts
<1>11. WorkOf(w)'
  BY <1>1, <1>2, <1>7, <1>8, <1>9, <1>10, PoolWork
<1>12. missed' \subseteq Chunks
  BY <1>1, <1>5a, Here DEF CutOffBy
<1> QED  BY <1>1, <1>2, <1>6, <1>11, <1>12, Here, WorkerStepKept

\* A refused reload and a failed rewrite keep nothing but the cursor.
LEMMA PassEnds ==
    ASSUME IInv, NEW w \in Workers, published' \in Nat,
           wk' = [wk EXCEPT ![w] = Kept(w)]
    PROVE  /\ wk' \in [Workers -> WorkerStates] /\ \A v \in Workers : v # w => wk'[v] = wk[v]
           /\ WorkOf(w)'
<1>1. wk \in [Workers -> WorkerStates] /\ wk[w] \in WorkerStates
  BY Here
<1>2. /\ wk[w].mounted \in Profiles /\ wk[w].cursor \in Chunks \cup {0}
      /\ wk[w].built \in 0 .. MaxRevisions
  BY <1>1 DEF WorkerStates
<1>3. Kept(w) \in WorkerStates
  <2>1. Fresh(wk[w].mounted) \in WorkerStates
    BY <1>2, FreshFacts
  <2> QED  BY <1>2, <2>1 DEF WorkerStates, Kept
<1>4. wk'[w] = Kept(w)
  BY <1>1
<1>5. WorkOf(w)'
  BY <1>2, <1>4, FreshWork
<1> QED  BY <1>1, <1>3, <1>5

LEMMA DocumentType ==
    ASSUME IInv, NEW c \in Chunks
    PROVE  Document(c) \in Documents /\ Document(c).chunk = c /\ Document(c).rev = Newest
<1>1. Newest \in 1 .. MaxRevisions
  BY DEF IInv, TypeOK, Newest, Revisions
<1> QED  BY <1>1 DEF Document, Documents, Target, Revisions, ActiveScopes

LEMMA ReloadInd ==
    ASSUME IInv, NEW w \in Workers, NEW c \in Chunks, Reload(w, c)
    PROVE  IInv' /\ Grows
<1>1. /\ wk[w].step = "REBUILD" /\ c \in wk[w].page
      /\ UNCHANGED <<lifecycle, member, current, retention, ext, chunk, missed, outbox, published,
                     revs, index, late, lost, outrun, crashes>>
  BY DEF Reload, At, catalog, listing, queue, store
<1>2. /\ WorkOf(w) /\ wk \in [Workers -> WorkerStates]
      /\ wk[w] \in WorkerStates /\ published \in Nat /\ published <= Len(outbox)
      /\ Len(outbox) \in Nat
  BY Here
<1>3. published' \in published .. Len(outbox) /\ published' \in Nat
  BY <1>1, <1>2
<1>4. CASE Listed(c) /\ Conflict(w)
  <2>1. wk' = [wk EXCEPT ![w] = Kept(w)]
    BY <1>4 DEF Reload
  <2>2. /\ wk' \in [Workers -> WorkerStates] /\ \A v \in Workers : v # w => wk'[v] = wk[v]
        /\ WorkOf(w)'
    BY <1>3, <2>1, PassEnds
  <2> QED  BY <1>1, <1>3, <2>2, Here, WorkerStepKept
<1>5. CASE ~(Listed(c) /\ Conflict(w))
  <2> DEFINE page == wk[w].page \ {c}
             docs == IF Indexable(c) THEN wk[w].docs \cup {Document(c)} ELSE wk[w].docs
  <2>1. wk' = [wk EXCEPT ![w] = [wk[w] EXCEPT !.page = page, !.docs = docs]]
    BY <1>2, <1>5 DEF Reload, WorkerStates
  <2>2. /\ page \in SUBSET Chunks /\ IsFiniteSet(wk[w].page)
        /\ Cardinality(page) = Cardinality(wk[w].page) - 1 /\ Cardinality(wk[w].page) \in Nat
    BY <1>1, <1>2, ChunkSets, FS_RemoveElement DEF WorkerStates
  <2>3. IsFiniteSet(wk[w].docs) /\ Cardinality(wk[w].docs) \in Nat
    BY <1>2, FS_CardinalityType DEF WorkOf
  <2>4. /\ docs \in SUBSET Documents /\ IsFiniteSet(docs) /\ Cardinality(docs) \in Nat
        /\ Cardinality(docs) <= Cardinality(wk[w].docs) + 1
    <3>1. wk[w].docs \in SUBSET Documents /\ Document(c) \in Documents
      BY <1>2, DocumentType DEF WorkerStates
    <3>2. CASE Document(c) \in wk[w].docs
      <4>1. docs = wk[w].docs
        BY <3>2
      <4> QED  BY <2>3, <3>1, <4>1
    <3>3. CASE Document(c) \notin wk[w].docs
      <4>1. /\ IsFiniteSet(wk[w].docs \cup {Document(c)})
            /\ Cardinality(wk[w].docs \cup {Document(c)}) = Cardinality(wk[w].docs) + 1
        BY <2>3, <3>3, FS_AddElement
      <4> QED  BY <2>3, <3>1, <4>1
    <3> QED  BY <3>2, <3>3
  <2> HIDE DEF page, docs
  <2>5. wk' \in [Workers -> WorkerStates]
    BY <1>2, <2>1, <2>2, <2>4 DEF WorkerStates
  <2>6. /\ wk'[w].step = "REBUILD" /\ wk'[w].seq = wk[w].seq /\ wk'[w].doc = wk[w].doc
        /\ wk'[w].page = page /\ wk'[w].docs = docs /\ wk'[w].staged = wk[w].staged
        /\ wk'[w].indexed = wk[w].indexed
    BY <1>1, <1>2, <2>1 DEF WorkerStates
  <2>7. /\ wk[w].doc = NoDoc /\ wk[w].seq <= published + 1 /\ wk[w].staged \in 1 .. Newest
        /\ Cardinality(wk[w].page) + Cardinality(wk[w].docs) + wk[w].indexed <= Slice
    BY <1>1, <1>2 DEF WorkOf, At
  <2>8. wk[w].indexed \in Nat /\ Slice \in Nat
    BY <1>2, ConstantFacts DEF WorkerStates
  <2>9. Cardinality(page) + Cardinality(docs) + wk[w].indexed <= Slice
    BY <2>2, <2>3, <2>4, <2>7, <2>8
  <2>10. WorkOf(w)'
    BY <1>1, <1>3, <2>4, <2>6, <2>7, <2>9, PoolWork
  <2> QED  BY <1>1, <1>3, <2>1, <2>5, <2>10, Here, WorkerStepKept
<1> QED  BY <1>4, <1>5

LEMMA RewriteInd ==
    ASSUME IInv, NEW w \in Workers, NEW d \in wk[w].docs, Rewrite(w, d)
    PROVE  IInv' /\ Grows
<1> DEFINE docs == wk[w].docs \ {d}
           indexed == wk[w].indexed + 1
<1>1. /\ wk[w].step = "REBUILD" /\ index' = Stored(d)
      /\ wk' = [wk EXCEPT ![w] = [wk[w] EXCEPT !.docs = docs, !.indexed = indexed]]
      /\ UNCHANGED <<lifecycle, member, current, retention, ext, chunk, missed, outbox, published,
                     revs, late, lost, outrun, crashes>>
  BY DEF Rewrite, At, catalog, listing, queue
<1>2. /\ WorkOf(w) /\ wk \in [Workers -> WorkerStates]
      /\ wk[w] \in WorkerStates /\ published \in Nat /\ published <= Len(outbox)
      /\ Len(outbox) \in Nat
  BY Here
<1>3. /\ wk[w].doc = NoDoc /\ wk[w].seq <= published + 1 /\ wk[w].staged \in 1 .. Newest
      /\ Cardinality(wk[w].page) + Cardinality(wk[w].docs) + wk[w].indexed <= Slice
      /\ IsFiniteSet(wk[w].docs)
  BY <1>1, <1>2 DEF WorkOf, At
<1>4. /\ IsFiniteSet(docs) /\ Cardinality(docs) = Cardinality(wk[w].docs) - 1
      /\ Cardinality(wk[w].docs) \in Nat /\ Cardinality(docs) \in Nat
  BY <1>3, FS_RemoveElement, FS_CardinalityType
<1>5. Cardinality(wk[w].page) \in Nat /\ wk[w].indexed \in Nat /\ Slice \in Nat
  BY <1>2, ChunkSets, ConstantFacts DEF WorkerStates
<1>6. Cardinality(wk[w].page) + Cardinality(docs) + indexed <= Slice /\ indexed \in 0 .. Slice
  BY <1>3, <1>4, <1>5
<1>7. wk[w].docs \in SUBSET Documents /\ d \in Documents /\ docs \in SUBSET Documents
  BY <1>2 DEF WorkerStates
<1> HIDE DEF docs, indexed
<1>8. wk' \in [Workers -> WorkerStates]
  BY <1>1, <1>2, <1>6, <1>7 DEF WorkerStates
<1>9. /\ wk'[w].step = "REBUILD" /\ wk'[w].seq = wk[w].seq /\ wk'[w].doc = wk[w].doc
      /\ wk'[w].page = wk[w].page /\ wk'[w].docs = docs /\ wk'[w].staged = wk[w].staged
      /\ wk'[w].indexed = indexed
  BY <1>1, <1>2 DEF WorkerStates
<1>10. WorkOf(w)'
  BY <1>1, <1>2, <1>3, <1>4, <1>6, <1>9, PoolWork
<1>11. index' \subseteq Documents
  BY <1>1, <1>7, StoredType, Here
<1> QED  BY <1>1, <1>2, <1>8, <1>10, <1>11, Here, WorkerStepKept

LEMMA RewriteTimeoutInd ==
    ASSUME IInv, NEW w \in Workers, NEW d \in wk[w].docs, RewriteTimeout(w, d)
    PROVE  IInv' /\ Grows
<1>1. /\ lost < MaxLost /\ lost' = lost + 1 /\ late' = late \cup {d}
      /\ wk' = [wk EXCEPT ![w] = Kept(w)]
      /\ UNCHANGED <<lifecycle, member, current, retention, ext, chunk, missed, outbox, published,
                     revs, index, outrun, crashes>>
  BY DEF RewriteTimeout, catalog, listing, queue
<1>2. published' \in published .. Len(outbox) /\ published' \in Nat /\ d \in Documents
  BY <1>1, Here DEF WorkerStates
<1>3. late' \subseteq Documents /\ lost' \in 0 .. MaxLost
  BY <1>1, <1>2, Here, ConstantFacts
<1>4. /\ wk' \in [Workers -> WorkerStates] /\ \A v \in Workers : v # w => wk'[v] = wk[v]
      /\ WorkOf(w)'
  BY <1>1, <1>2, PassEnds
<1> QED  BY <1>1, <1>2, <1>3, <1>4, Here, WorkerStepKept

LEMMA NextPageInd ==
    ASSUME IInv, NEW w \in Workers, NextPage(w)
    PROVE  IInv' /\ Grows
<1> DEFINE indexed == IF wk[w].indexed >= Slice THEN 0 ELSE wk[w].indexed
           cursor  == IF wk[w].indexed >= Slice THEN wk[w].after ELSE wk[w].cursor
           built   == IF wk[w].indexed >= Slice THEN wk[w].staged ELSE wk[w].built
<1>1. /\ wk[w].step = "REBUILD" /\ wk[w].page = {} /\ wk[w].docs = {} /\ ~wk[w].short
      /\ UNCHANGED <<lifecycle, member, current, retention, ext, chunk, missed, outbox, published,
                     revs, index, late, lost, outrun, crashes>>
  BY DEF NextPage, PageDone, At, catalog, listing, queue, store
<1>2. /\ WorkOf(w) /\ wk \in [Workers -> WorkerStates]
      /\ wk[w] \in WorkerStates /\ published \in Nat /\ published <= Len(outbox)
      /\ Len(outbox) \in Nat
  BY Here
<1>3. wk' = [wk EXCEPT ![w] = [wk[w] EXCEPT !.step = "PAGE", !.indexed = indexed,
                                            !.cursor = cursor, !.built = built]]
  BY <1>2 DEF NextPage, WorkerStates
<1>4. /\ indexed \in 0 .. Slice /\ indexed < Slice /\ cursor \in Chunks \cup {0}
      /\ built \in 0 .. MaxRevisions
  BY <1>2, ConstantFacts DEF WorkerStates
<1> HIDE DEF indexed, cursor, built
<1>5. wk' \in [Workers -> WorkerStates]
  BY <1>2, <1>3, <1>4 DEF WorkerStates, Steps
<1>6. /\ wk'[w].step = "PAGE" /\ wk'[w].seq = wk[w].seq /\ wk'[w].doc = wk[w].doc
      /\ wk'[w].page = {} /\ wk'[w].docs = {} /\ wk'[w].staged = wk[w].staged
      /\ wk'[w].indexed = indexed /\ ~wk'[w].short
  BY <1>1, <1>2, <1>3 DEF WorkerStates
<1>7. /\ wk[w].doc = NoDoc /\ wk[w].seq <= published + 1 /\ wk[w].staged \in 1 .. Newest
  BY <1>1, <1>2 DEF WorkOf, At
<1>8. IsFiniteSet({}) /\ Cardinality({}) = 0
  BY FS_EmptySet
<1>9. Cardinality(wk'[w].page) + Cardinality(wk'[w].docs) + wk'[w].indexed <= Slice
  BY <1>4, <1>6, <1>8, ConstantFacts
<1>10. WorkOf(w)'
  BY <1>1, <1>2, <1>4, <1>6, <1>7, <1>8, <1>9, PoolWork
<1> QED  BY <1>1, <1>2, <1>3, <1>5, <1>10, Here, WorkerStepKept

LEMMA ExhaustedInd ==
    ASSUME IInv, NEW w \in Workers, Exhausted(w)
    PROVE  IInv' /\ Grows
<1> DEFINE f == [Fresh(wk[w].mounted) EXCEPT !.step = "ACTIVATE", !.staged = wk[w].staged]
<1>1. /\ wk[w].step \in {"PAGE", "REBUILD"} /\ wk' = [wk EXCEPT ![w] = f]
      /\ UNCHANGED <<lifecycle, member, current, retention, ext, chunk, missed, outbox, published,
                     revs, index, late, lost, outrun, crashes>>
  BY DEF Exhausted, PageDone, At, catalog, listing, queue, store
<1>2. /\ WorkOf(w) /\ wk \in [Workers -> WorkerStates]
      /\ wk[w] \in WorkerStates /\ published \in Nat /\ published <= Len(outbox)
      /\ Len(outbox) \in Nat
  BY Here
<1>3. wk[w].mounted \in Profiles /\ wk[w].staged \in 0 .. MaxRevisions
  BY <1>2 DEF WorkerStates
<1>4. f \in WorkerStates
  <2>1. Fresh(wk[w].mounted) \in WorkerStates
    BY <1>3, FreshFacts
  <2> QED  BY <1>3, <2>1 DEF WorkerStates, Steps
<1>5. wk'[w] = f
  BY <1>1, <1>2
<1>6. /\ wk'[w].step = "ACTIVATE" /\ wk'[w].seq = 0 /\ wk'[w].doc = NoDoc
      /\ wk'[w].page = {} /\ wk'[w].docs = {} /\ wk'[w].staged = wk[w].staged
      /\ wk'[w].indexed = 0 /\ ~wk'[w].short
  BY <1>5 DEF Fresh
<1>7. wk[w].staged \in 1 .. Newest
  BY <1>1, <1>2 DEF WorkOf
<1>8. IsFiniteSet({}) /\ Cardinality({}) = 0
  BY FS_EmptySet
<1>9. Cardinality(wk'[w].page) + Cardinality(wk'[w].docs) + wk'[w].indexed <= Slice
  BY <1>6, <1>8, ConstantFacts
<1> HIDE DEF f
<1>10. WorkOf(w)'
  <2>1. /\ wk'[w].step \notin EventSteps /\ wk'[w].step \notin UpsertSteps
        /\ wk'[w].step \notin {"PUT", "DELETE", "PAGE", "REBUILD"}
    BY <1>6 DEF EventSteps, UpsertSteps
  <2>2. wk'[w].staged \in 1 .. Newest'
    BY <1>1, <1>6, <1>7 DEF Newest
  <2>3. wk'[w].seq <= published' + 1 /\ IsFiniteSet(wk'[w].docs)
    <3>1. 0 <= published + 1
      BY <1>2
    <3> QED  BY <1>1, <1>6, <1>8, <3>1
  <2> QED  BY <1>6, <1>9, <2>1, <2>2, <2>3 DEF WorkOf, At
<1>11. wk' \in [Workers -> WorkerStates] /\ \A v \in Workers : v # w => wk'[v] = wk[v]
  BY <1>1, <1>2, <1>4
<1> QED  BY <1>1, <1>2, <1>10, <1>11, Here, WorkerStepKept

\* A revision that is staged is the newest one, and not the first.
LEMMA OnlyNewestStaged ==
    ASSUME IInv, NEW r \in 1 .. Newest, revs[r].status = "STAGING"
    PROVE  r = Newest /\ Newest > 1 /\ HasStaged
<1>1. RevisionInv /\ Newest \in Nat
  BY ConstantFacts DEF IInv, TypeOK, Newest, Revisions
<1>2. ~(r + 1 < Newest)
  BY <1>1 DEF RevisionInv
<1>3. r = Newest \/ r = Newest - 1
  BY <1>1, <1>2
<1>4. r # Newest => revs[r].status \in {"ACTIVE", "SUPERSEDED"}
  BY <1>1, <1>3 DEF RevisionInv
<1>5. r = Newest
  BY <1>4
<1> QED  BY <1>1, <1>5 DEF RevisionInv, HasStaged

\* The cutover: the staged revision is the newest one, if it still is staged.
LEMMA ActivateRevisionInd ==
    ASSUME IInv, NEW w \in Workers, ActivateRevision(w)
    PROVE  IInv' /\ Grows
<1> DEFINE r == wk[w].staged
           R == [profile : Profiles, status : {"STAGING", "ACTIVE", "SUPERSEDED"}]
           cut == [q \in DOMAIN revs |-> IF q = r THEN [revs[q] EXCEPT !.status = "ACTIVE"]
                                         ELSE [revs[q] EXCEPT !.status = "SUPERSEDED"]]
<1>1. /\ wk[w].step = "ACTIVATE" /\ Restart(w)
      /\ revs' = IF revs[r].status # "STAGING" THEN revs ELSE cut
      /\ UNCHANGED <<lifecycle, member, current, retention, ext, chunk, missed, outbox, published,
                     index, late, lost, outrun, crashes>>
  BY DEF ActivateRevision, At, catalog, listing, queue, store
<1>2. /\ TypeOK /\ CatalogInv /\ RevisionInv /\ WorkOf(w)
      /\ published \in Nat /\ published <= Len(outbox) /\ Len(outbox) \in Nat
  BY Here
<1>3. published' \in published .. Len(outbox) /\ published' \in Nat
  BY <1>1, <1>2
<1>4. /\ wk' \in [Workers -> WorkerStates] /\ \A v \in Workers : v # w => wk'[v] = wk[v]
      /\ WorkOf(w)'
  BY <1>1, <1>3, Restarted
<1>5. CASE revs[r].status # "STAGING"
  BY <1>1, <1>3, <1>4, <1>5, Here, WorkerStepKept
<1>6. CASE revs[r].status = "STAGING"
  <2>1. /\ revs \in Seq(R) /\ Len(revs) \in Nat /\ Len(revs) >= 1
        /\ DOMAIN revs = 1 .. Len(revs) /\ Len(revs) \in Revisions
        /\ r \in 1 .. Len(revs)
    BY <1>1, <1>2, ConstantFacts DEF TypeOK, Revisions, WorkOf, Newest
  <2>2. r = Len(revs) /\ Len(revs) > 1
    BY <1>6, <2>1, OnlyNewestStaged DEF Newest
  <2>3. revs' = cut
    BY <1>1, <1>6
  <2> HIDE DEF R
  <2>4. \A q \in 1 .. Len(revs) : revs[q] \in R
    BY <2>1
  <2> USE DEF R
  <2>5. cut \in Seq(R) /\ Len(cut) = Len(revs)
    BY <2>1, <2>4
  <2>6. \A q \in 1 .. Len(revs) : cut[q].status = IF q = Len(revs) THEN "ACTIVE" ELSE "SUPERSEDED"
    BY <2>1, <2>2, <2>4
  <2> HIDE DEF cut
  <2>7. RevisionInv'
    <3> HIDE DEF R
    <3>0. Len(revs) \in Nat
      BY <2>1
    <3>1. Len(revs') = Len(revs) /\ Len(revs) > 1
      BY <2>2, <2>3, <2>5
    <3>2. \A q \in 1 .. Len(revs) : revs'[q].status = IF q = Len(revs) THEN "ACTIVE" ELSE "SUPERSEDED"
      BY <2>3, <2>6
    <3>3. revs'[Len(revs)].status = "ACTIVE" /\ revs'[Len(revs) - 1].status = "SUPERSEDED"
      <4>1. Len(revs) \in 1 .. Len(revs) /\ Len(revs) - 1 \in 1 .. Len(revs) /\ Len(revs) - 1 # Len(revs)
        BY <3>0, <3>1
      <4> QED  BY <3>2, <4>1
    <3>4. \A q \in 1 .. Len(revs) : q + 1 < Len(revs) => revs'[q].status = "SUPERSEDED"
      BY <3>0, <3>2
    <3> QED  BY <3>1, <3>3, <3>4 DEF RevisionInv, Newest, HasStaged
  <2>8. TypeOK'
    BY <1>1, <1>2, <1>4, <2>1, <2>3, <2>5 DEF TypeOK, WorkerStates
  <2>9. Grows
    <3>1. \A o \in Objects : current[o] \in Nat
      BY <1>2, ConstantFacts DEF TypeOK
    <3> QED  BY <1>1, <1>2, <2>1, <2>3, <2>5, <3>1 DEF Grows
  <2>10. CatalogInv'
    <3>1. \A o \in Objects : lifecycle'[o] = "DELETED" =>
            \A t \in Scopes : member'[o][t] \in {"NONE", "REMOVED"}
      BY <1>1, <1>2 DEF CatalogInv
    <3> QED  BY <1>1, <1>2, <2>8, <2>9, <3>1, QuietCatalog
  <2>11. WorkInv'
    BY <1>4, <2>8, <2>9, Steady DEF WorkInv
  <2> QED  BY <2>7, <2>8, <2>9, <2>10, <2>11 DEF IInv
<1> QED  BY <1>5, <1>6

LEMMA CrashInd ==
    ASSUME IInv, NEW w \in Workers, Crash(w)
    PROVE  IInv' /\ Grows
<1> DEFINE held == wk[w].docs \cup (IF At(w, "PUT") THEN {wk[w].doc} ELSE {})
<1>1. /\ crashes < MaxCrashes /\ crashes' = crashes + 1 /\ Restart(w)
      /\ index' = index \/ index' = Without(Event(w).chunk)
      /\ UNCHANGED <<lifecycle, member, current, retention, ext, chunk, missed, outbox, published, revs,
                     outrun>>
  BY DEF Crash, catalog, listing, queue
<1>2. PICK gone \in SUBSET held :
          /\ lost + Cardinality(gone) <= MaxLost
          /\ late' = late \cup gone /\ lost' = lost + Cardinality(gone)
  BY DEF Crash
<1>3. /\ WorkOf(w) /\ wk[w] \in WorkerStates
      /\ published \in Nat /\ published <= Len(outbox) /\ Len(outbox) \in Nat
      /\ late \subseteq Documents /\ lost \in 0 .. MaxLost /\ crashes \in 0 .. MaxCrashes
      /\ missed \subseteq Chunks /\ outrun \subseteq Chunks
  BY Here
<1>4. held \in SUBSET Documents /\ IsFiniteSet(held)
  <2>1. wk[w].docs \in SUBSET Documents /\ IsFiniteSet(wk[w].docs)
    BY <1>3 DEF WorkOf, WorkerStates
  <2>2. At(w, "PUT") => wk[w].doc \in Documents /\ IsFiniteSet({wk[w].doc})
    BY <1>3, FS_Singleton DEF WorkOf
  <2>3. IsFiniteSet({})
    BY FS_EmptySet
  <2> QED  BY <2>1, <2>2, <2>3, FS_Union
<1>5. gone \in SUBSET Documents /\ IsFiniteSet(gone) /\ Cardinality(gone) \in Nat
  BY <1>4, FS_Subset, FS_CardinalityType
<1>6. late' \subseteq Documents /\ lost' \in 0 .. MaxLost /\ crashes' \in 0 .. MaxCrashes
  BY <1>1, <1>2, <1>3, <1>5, ConstantFacts
<1>7. index' \subseteq Documents
  BY <1>1, WithoutType, Here
<1>8. published' \in published .. Len(outbox) /\ published' \in Nat
  BY <1>1, <1>3
<1>9. /\ wk' \in [Workers -> WorkerStates] /\ \A v \in Workers : v # w => wk'[v] = wk[v]
      /\ WorkOf(w)'
  BY <1>1, <1>8, Restarted
<1> QED  BY <1>1, <1>3, <1>6, <1>7, <1>8, <1>9, WorkerStepKept

LEMMA RedeployInd ==
    ASSUME IInv, NEW w \in Workers, NEW p \in Profiles, Redeploy(w, p)
    PROVE  IInv' /\ Grows
<1>1. /\ wk' = [wk EXCEPT ![w] = Fresh(p)]
      /\ UNCHANGED <<lifecycle, member, current, retention, ext, chunk, missed, outbox, published,
                     revs, index, late, lost, outrun, crashes>>
  BY DEF Redeploy, catalog, listing, queue, store
<1>2. published' \in published .. Len(outbox) /\ published' \in Nat
  BY <1>1, Here
<1>3. wk \in [Workers -> WorkerStates] /\ Fresh(p) \in WorkerStates
  BY Here, FreshFacts
<1>4. wk'[w] = Fresh(p)
  BY <1>1, <1>3
<1>5. WorkOf(w)'
  BY <1>2, <1>4, FreshWork
<1>6. wk' \in [Workers -> WorkerStates] /\ \A v \in Workers : v # w => wk'[v] = wk[v]
  BY <1>1, <1>3
<1> QED  BY <1>1, <1>2, <1>5, <1>6, Here, WorkerStepKept

\* A write whose worker gave up on it is carried out after all.
LEMMA LandInd ==
    ASSUME IInv, NEW d \in late, Land(d)
    PROVE  TypeOK' /\ CatalogInv' /\ RevisionInv' /\ Grows /\ UNCHANGED wk
<1>1. /\ index' = Stored(d) /\ late' = late \ {d}
      /\ UNCHANGED <<lifecycle, member, current, retention, ext, chunk, missed, outbox, published,
                     revs, lost, outrun, crashes, wk>>
  BY DEF Land, catalog, listing, queue
<1>2. TypeOK /\ CatalogInv /\ RevisionInv
  BY DEF IInv
<1>3. index' \subseteq Documents /\ late' \subseteq Documents
  BY <1>1, <1>2, StoredType DEF TypeOK
<1>4. TypeOK'
  BY <1>1, <1>2, <1>3 DEF TypeOK
<1>5. Grows
  <2>1. \A o \in Objects : current[o] \in Nat
    BY <1>2, ConstantFacts DEF TypeOK
  <2>2. Len(outbox) \in Nat /\ published \in Nat /\ Len(revs) \in Nat
    BY <1>2, ConstantFacts DEF TypeOK, Revisions
  <2> QED  BY <1>1, <2>1, <2>2 DEF Grows
<1>6. CatalogInv'
  <2>1. \A o \in Objects : lifecycle'[o] = "DELETED" =>
            \A t \in Scopes : member'[o][t] \in {"NONE", "REMOVED"}
    BY <1>1, <1>2 DEF CatalogInv
  <2> QED  BY <1>1, <1>2, <1>4, <1>5, <2>1, QuietCatalog
<1> QED  BY <1>1, <1>2, <1>4, <1>5, <1>6, RevisionKept

-----------------------------------------------------------------------------
(* Every behaviour keeps the invariant.                                    *)

LEMMA Base == Init => IInv
<1> SUFFICES ASSUME Init PROVE IInv
  OBVIOUS
<1>1. \A w \in Workers : wk[w] = Fresh(FirstProfile) /\ Fresh(FirstProfile) \in WorkerStates
  BY FreshFacts, ConstantFacts DEF Init
<1>2. TypeOK
  <2>1. wk \in [Workers -> WorkerStates]
    BY <1>1 DEF Init
  <2>2. /\ revs \in Seq([profile : Profiles, status : {"STAGING", "ACTIVE", "SUPERSEDED"}])
        /\ Len(revs) = 1 /\ Len(revs) \in Revisions
    BY ConstantFacts DEF Init, Revisions
  <2>3. /\ outbox \in Seq(Events) /\ Len(outbox) = 0 /\ Len(outbox) <= MaxEvents
        /\ published \in 0 .. Len(outbox)
    BY ConstantFacts DEF Init
  <2>4. current \in [Objects -> 0 .. MaxVersions]
    BY ConstantFacts DEF Init
  <2>5. lost \in 0 .. MaxLost /\ crashes \in 0 .. MaxCrashes
    BY ConstantFacts DEF Init
  <2> QED  BY <2>1, <2>2, <2>3, <2>4, <2>5 DEF Init, TypeOK, WorkerStates, Lifecycles, Memberships
<1>3. CatalogInv
  <2>1. \A i \in 1 .. Len(outbox) : FALSE
    BY DEF Init
  <2> QED  BY <2>1 DEF Init, CatalogInv, Exists
<1>4. RevisionInv
  <2>1. Len(revs) = 1 /\ revs[1].status = "ACTIVE"
    BY DEF Init
  <2> QED  BY <2>1 DEF RevisionInv, Newest, HasStaged
<1>5. WorkInv
  <2>1. IsFiniteSet({}) /\ Cardinality({}) = 0
    BY FS_EmptySet
  <2> SUFFICES ASSUME NEW w \in Workers PROVE WorkOf(w)
    BY DEF WorkInv
  <2>2. /\ wk[w].step = "IDLE" /\ wk[w].seq = 0 /\ wk[w].doc = NoDoc
        /\ wk[w].page = {} /\ wk[w].docs = {} /\ wk[w].short = FALSE /\ wk[w].indexed = 0
    BY <1>1 DEF Fresh
  <2>3. wk[w].seq <= published + 1 /\ IsFiniteSet(wk[w].docs)
    <3>1. published = 0
      BY DEF Init
    <3> QED  BY <2>1, <2>2, <3>1
  <2>4. Cardinality(wk[w].page) + Cardinality(wk[w].docs) + wk[w].indexed <= Slice
    BY <2>1, <2>2, ConstantFacts
  <2> QED  BY <2>2, <2>3, <2>4 DEF WorkOf, At, EventSteps, UpsertSteps
<1> QED  BY <1>2, <1>3, <1>4, <1>5 DEF IInv

LEMMA CatalogInd ==
    ASSUME IInv, CatalogStep
    PROVE  TypeOK' /\ CatalogInv' /\ RevisionInv' /\ Grows /\ UNCHANGED wk
<1>1. CASE \E s \in Scopes, o \in Objects : \E C \in SUBSET Chunks :
              IngestVersion(s, o, C) \/ Reextract(s, o, C)
  BY <1>1, IngestInd, ReextractInd
<1>2. CASE \E s \in Scopes, o \in Objects : Reobserve(s, o) \/ Absent(s, o) \/ CutOff(s, o)
  BY <1>2, ReobserveInd, AbsentInd, CutOffInd
<1>3. CASE \E o \in Objects, n \in Versions :
              BeginPurge(o, n) \/ Cleanup(o, n) \/ CompletePurge(o, n)
  BY <1>3, BeginPurgeInd, CleanupInd, CompletePurgeInd
<1>4. CASE \E p \in Profiles : StageRevision(p)
  BY <1>4, StageInd
<1> QED  BY <1>1, <1>2, <1>3, <1>4 DEF CatalogStep

LEMMA WorkerInd ==
    ASSUME IInv, NEW w \in Workers, WorkerStep(w)
    PROVE  IInv' /\ Grows
<1>1. CASE ReadNext(w) \/ LoadDocument(w) \/ Index(w) \/ DeleteProfileCopies(w) \/ Publish(w)
  BY <1>1, ReadNextInd, LoadDocumentInd, IndexInd, DeleteInd, PublishInd
<1>2. CASE VersionPurged(w) \/ PublishMissing(w) \/ PublishSuperseded(w) \/ NotObsolete(w) \/ Fail(w)
  BY <1>2, VersionPurgedInd, PublishMissingInd, PublishSupersededInd, NotObsoleteInd, FailInd
<1>3. CASE StartReindex(w) \/ ReadPage(w) \/ NextPage(w) \/ Exhausted(w) \/ ActivateRevision(w)
  BY <1>3, StartReindexInd, ReadPageInd, NextPageInd, ExhaustedInd, ActivateRevisionInd
<1>4. CASE \E c \in Chunks : Reload(w, c)
  BY <1>4, ReloadInd
<1>5. CASE \E d \in wk[w].docs : Rewrite(w, d)
  BY <1>5, RewriteInd
<1> QED  BY <1>1, <1>2, <1>3, <1>4, <1>5 DEF WorkerStep

\* Every step keeps the invariant and takes back nothing.
LEMMA Step ==
    ASSUME IInv, Next
    PROVE  IInv' /\ Grows
<1>1. CASE CatalogStep
  BY <1>1, CatalogInd, CatalogStepKept
<1>2. CASE \E d \in late : Land(d)
  BY <1>2, LandInd, CatalogStepKept
<1>3. ASSUME NEW w \in Workers,
             \/ WorkerStep(w) \/ IndexTimeout(w) \/ Crash(w)
             \/ \E d \in wk[w].docs : RewriteTimeout(w, d)
             \/ \E p \in Profiles : Redeploy(w, p)
      PROVE  IInv' /\ Grows
  BY <1>3, WorkerInd, IndexTimeoutInd, CrashInd, RewriteTimeoutInd, RedeployInd
<1> QED  BY <1>1, <1>2, <1>3 DEF Next

\* A stutter changes nothing the invariant speaks of.
LEMMA Stutter == IInv /\ UNCHANGED vars => IInv'
<1> SUFFICES ASSUME IInv, UNCHANGED vars PROVE IInv'
  OBVIOUS
<1>1. UNCHANGED <<lifecycle, member, current, retention, ext, chunk, missed, outbox, published, revs,
                  index, late, lost, outrun, crashes, wk>>
  BY DEF vars, catalog, listing, queue, store
<1>2. TypeOK'
  BY <1>1 DEF IInv, TypeOK
<1>3. CatalogInv'
  BY <1>1 DEF IInv, CatalogInv, Exists, VersionOf, ObjectOf, RetentionOf
<1>4. RevisionInv'
  BY <1>1, RevisionKept DEF IInv
<1>5. WorkInv'
  BY <1>1 DEF IInv, WorkInv, WorkOf, At, Event, RetentionOf, Newest
<1> QED  BY <1>2, <1>3, <1>4, <1>5 DEF IInv

\* Whatever the catalog, the operator and the workers do: a worker's event is
\* the next one or was published, its document is of that event's chunk, a
\* pool never works beyond its slice, and the newest revision is staged
\* beside the serving one or serves alone.
THEOREM Invariance == Spec => []IInv
<1>1. IInv /\ [Next]_vars => IInv'
  BY Step, Stutter
<1> QED  BY Base, <1>1, PTL DEF Spec

\* Every variable keeps its type in every behaviour, at every bound.
THEOREM TypeCorrect == Spec => []TypeOK
<1>1. IInv => TypeOK
  BY DEF IInv
<1> QED  BY Invariance, <1>1, PTL

-----------------------------------------------------------------------------
(* Erasure.                                                                *)

\* Every copy of a chunk's text outside the catalog: in an index, in a write
\* that may still land, in a worker's hands.
Copies(c) == {d \in index \cup late \cup {wk[w].doc : w \in Workers}
                         \cup (UNION {wk[w].docs : w \in Workers}) : d.chunk = c}

\* A chunk whose DELETE was written is not served to any writer again.
LEMMA DeletedClosed ==
    ASSUME IInv, NEW c \in Deletes
    PROVE  c \in Chunks /\ ~Indexable(c) /\ NoDoc.chunk # c
<1>1. TypeOK /\ CatalogInv
  BY DEF IInv
<1>2. PICK i \in DOMAIN outbox : outbox[i].op = "DELETE" /\ outbox[i].chunk = c
  BY DEF Deletes
<1>3. i \in 1 .. Len(outbox)
  BY <1>1 DEF TypeOK
<1>4. c \in Chunks /\ RetentionOf(c) # "ACTIVE"
  BY <1>1, <1>2, <1>3, EventFacts DEF CatalogInv
<1>5. 0 \notin Chunks
  BY ConstantFacts
<1> QED  BY <1>4, <1>5 DEF Indexable, RetentionOf, NoDoc

\* Copies move between the workers, the index and the network; a new one is
\* made of a chunk that may be indexed.
LEMMA Handed ==
    ASSUME NEW w \in Workers, NEW n, NEW c, NoDoc.chunk # c, n.chunk # c,
           index' \subseteq index \cup late \cup wk[w].docs \cup {wk[w].doc},
           late' \subseteq late \cup wk[w].docs \cup {wk[w].doc},
           \A v \in Workers : v # w => wk'[v] = wk[v],
           wk'[w].docs \subseteq wk[w].docs \cup {n},
           wk'[w].doc \in {wk[w].doc, NoDoc, n}
    PROVE  Copies(c)' \subseteq Copies(c)
<1> SUFFICES ASSUME NEW d \in Copies(c)' PROVE d \in Copies(c)
  OBVIOUS
<1>1. d.chunk = c /\ d # NoDoc /\ d # n
  BY DEF Copies
<1>2. \/ d \in index' \/ d \in late'
      \/ \E v \in Workers : d \in wk'[v].docs \/ d = wk'[v].doc
  BY DEF Copies
<1>3. \/ d \in index \/ d \in late
      \/ \E v \in Workers : d \in wk[v].docs \/ d = wk[v].doc
  BY <1>1, <1>2
<1> QED  BY <1>1, <1>3 DEF Copies

\* The catalog's steps do not touch a copy.
LEMMA CatalogHands == CatalogStep => UNCHANGED <<index, late, lost, wk, published>>
<1>1. ASSUME NEW s, NEW o, NEW C, IngestVersion(s, o, C) \/ Reextract(s, o, C)
      PROVE  UNCHANGED <<index, late, lost, wk, published>>
  BY <1>1 DEF IngestVersion, Reextract, Enqueue, store
<1>2. ASSUME NEW s, NEW o, Reobserve(s, o) \/ Absent(s, o) \/ CutOff(s, o)
      PROVE  UNCHANGED <<index, late, lost, wk, published>>
  BY <1>2 DEF Reobserve, Absent, CutOff, Enqueue, store, queue
<1>3. ASSUME NEW o, NEW n, BeginPurge(o, n) \/ Cleanup(o, n) \/ CompletePurge(o, n)
      PROVE  UNCHANGED <<index, late, lost, wk, published>>
  BY <1>3 DEF BeginPurge, Cleanup, CompletePurge, Enqueue, store, queue
<1>4. ASSUME NEW p, StageRevision(p) PROVE UNCHANGED <<index, late, lost, wk, published>>
  BY <1>4 DEF StageRevision, store, queue
<1> QED  BY <1>1, <1>2, <1>3, <1>4, Zenon DEF CatalogStep

\* A worker's step makes at most one new copy, of an indexable chunk.
LEMMA WorkerHands ==
    ASSUME IInv, NEW w \in Workers,
           \/ WorkerStep(w) \/ IndexTimeout(w) \/ Crash(w)
           \/ \E d \in wk[w].docs : RewriteTimeout(w, d)
           \/ \E p \in Profiles : Redeploy(w, p)
    PROVE  \E n : /\ n = NoDoc \/ Indexable(n.chunk)
                  /\ index' \subseteq index \cup late \cup wk[w].docs \cup {wk[w].doc}
                  /\ late' \subseteq late \cup wk[w].docs \cup {wk[w].doc}
                  /\ \A v \in Workers : v # w => wk'[v] = wk[v]
                  /\ wk'[w].docs \subseteq wk[w].docs \cup {n}
                  /\ wk'[w].doc \in {wk[w].doc, NoDoc, n}
<1>0. wk \in [Workers -> WorkerStates] /\ wk[w] \in WorkerStates
  BY Here
<1> DEFINE Hands(n) == /\ index' \subseteq index \cup late \cup wk[w].docs \cup {wk[w].doc}
                       /\ late' \subseteq late \cup wk[w].docs \cup {wk[w].doc}
                       /\ \A v \in Workers : v # w => wk'[v] = wk[v]
                       /\ wk'[w].docs \subseteq wk[w].docs \cup {n}
                       /\ wk'[w].doc \in {wk[w].doc, NoDoc, n}
<1>1. SUFFICES \E n : (n = NoDoc \/ Indexable(n.chunk)) /\ Hands(n)
  OBVIOUS
<1>2. ASSUME Restart(w) PROVE /\ wk'[w].docs = {} /\ wk'[w].doc = NoDoc
                              /\ \A v \in Workers : v # w => wk'[v] = wk[v]
  BY <1>0, <1>2 DEF Restart, Fresh
<1>3. CASE ReadNext(w) \/ Publish(w) \/ VersionPurged(w) \/ PublishMissing(w) \/ NotObsolete(w)
           \/ StartReindex(w) \/ ReadPage(w) \/ NextPage(w)
  <2>1. index' = index /\ late' = late
    BY <1>3 DEF ReadNext, Publish, VersionPurged, PublishMissing, NotObsolete,
                StartReindex, ReadPage, NextPage, store
  <2>2. /\ wk'[w].docs = wk[w].docs /\ wk'[w].doc = wk[w].doc
        /\ \A v \in Workers : v # w => wk'[v] = wk[v]
    <3>1. CASE ReadNext(w) \/ Publish(w)
      BY <1>0, <3>1 DEF ReadNext, Publish, WorkerStates
    <3>2. CASE VersionPurged(w) \/ PublishMissing(w) \/ NotObsolete(w)
      BY <1>0, <3>2 DEF VersionPurged, PublishMissing, NotObsolete, Goto, WorkerStates
    <3>3. CASE StartReindex(w) \/ ReadPage(w)
      BY <1>0, <3>3 DEF StartReindex, ReadPage, WorkerStates
    <3>4. CASE NextPage(w)
      BY <1>0, <3>4 DEF NextPage, WorkerStates
    <3> QED  BY <1>3, <3>1, <3>2, <3>3, <3>4
  <2> QED  BY <2>1, <2>2
<1>4. CASE LoadDocument(w)
  <2> DEFINE c == Event(w).chunk
  <2>1. index' = index /\ late' = late
    BY <1>4 DEF LoadDocument, store
  <2>2. \A v \in Workers : v # w => wk'[v] = wk[v]
    BY <1>0, <1>4 DEF LoadDocument
  <2>3. wk'[w].docs = wk[w].docs
        /\ wk'[w].doc = IF Indexable(c) /\ ~Conflict(w) THEN Document(c) ELSE wk[w].doc
    BY <1>0, <1>4 DEF LoadDocument, WorkerStates
  <2>4. Document(c).chunk = c
    BY DEF Document
  <2>5. CASE Indexable(c)
    <3> WITNESS Document(c)
    <3> QED  BY <2>1, <2>2, <2>3, <2>4, <2>5
  <2>6. CASE ~Indexable(c)
    <3> WITNESS NoDoc
    <3> QED  BY <2>1, <2>2, <2>3, <2>6
  <2> QED  BY <2>5, <2>6
<1>5. CASE Index(w)
  <2>1. index' \subseteq index \cup {wk[w].doc} /\ late' = late
    BY <1>5 DEF Index, Stored
  <2>2. /\ wk'[w].docs = wk[w].docs /\ wk'[w].doc = NoDoc
        /\ \A v \in Workers : v # w => wk'[v] = wk[v]
    BY <1>0, <1>5 DEF Index, WorkerStates
  <2> QED  BY <2>1, <2>2
<1>6. CASE DeleteProfileCopies(w) \/ PublishSuperseded(w)
  <2>1. index' \subseteq index /\ late' = late
    BY <1>6 DEF DeleteProfileCopies, PublishSuperseded, Without
  <2>2. /\ wk'[w].docs = wk[w].docs /\ wk'[w].doc = wk[w].doc
        /\ \A v \in Workers : v # w => wk'[v] = wk[v]
    BY <1>0, <1>6 DEF DeleteProfileCopies, PublishSuperseded, Goto, WorkerStates
  <2> QED  BY <2>1, <2>2
<1>7. CASE Fail(w) \/ ActivateRevision(w)
  <2>1. index' = index /\ late' = late /\ Restart(w)
    BY <1>7 DEF Fail, ActivateRevision, store
  <2> QED  BY <1>2, <2>1
<1>8. CASE Exhausted(w)
  <2>1. index' = index /\ late' = late
    BY <1>8 DEF Exhausted, store
  <2>2. /\ wk'[w].docs = {} /\ wk'[w].doc = NoDoc
        /\ \A v \in Workers : v # w => wk'[v] = wk[v]
    BY <1>0, <1>8 DEF Exhausted, Fresh
  <2> QED  BY <2>1, <2>2
<1>9. ASSUME NEW c \in Chunks, Reload(w, c) PROVE \E n : (n = NoDoc \/ Indexable(n.chunk)) /\ Hands(n)
  <2>1. index' = index /\ late' = late
    BY <1>9 DEF Reload, store
  <2>2. \A v \in Workers : v # w => wk'[v] = wk[v]
    BY <1>9 DEF Reload
  <2>3. Document(c).chunk = c
    BY DEF Document
  <2>4. CASE Listed(c) /\ Conflict(w)
    <3>1. wk'[w].docs = {} /\ wk'[w].doc = NoDoc
      BY <1>0, <1>9, <2>4 DEF Reload, Kept, Fresh
    <3> QED  BY <2>1, <2>2, <3>1
  <2>5. CASE ~(Listed(c) /\ Conflict(w)) /\ Indexable(c)
    <3>1. wk'[w].docs = wk[w].docs \cup {Document(c)} /\ wk'[w].doc = wk[w].doc
      BY <1>0, <1>9, <2>5 DEF Reload, WorkerStates
    <3> WITNESS Document(c)
    <3> QED  BY <2>1, <2>2, <2>3, <2>5, <3>1
  <2>6. CASE ~(Listed(c) /\ Conflict(w)) /\ ~Indexable(c)
    <3>1. wk'[w].docs = wk[w].docs /\ wk'[w].doc = wk[w].doc
      BY <1>0, <1>9, <2>6 DEF Reload, WorkerStates
    <3> QED  BY <2>1, <2>2, <3>1
  <2> QED  BY <2>4, <2>5, <2>6
<1>10. ASSUME NEW d \in wk[w].docs, Rewrite(w, d) \/ RewriteTimeout(w, d) PROVE Hands(NoDoc)
  <2>1. index' \subseteq index \cup {d} /\ late' \subseteq late \cup {d}
    BY <1>10 DEF Rewrite, RewriteTimeout, Stored
  <2>2. /\ wk'[w].docs \subseteq wk[w].docs /\ wk'[w].doc \in {wk[w].doc, NoDoc}
        /\ \A v \in Workers : v # w => wk'[v] = wk[v]
    <3>1. CASE Rewrite(w, d)
      BY <1>0, <3>1 DEF Rewrite, WorkerStates
    <3>2. CASE RewriteTimeout(w, d)
      BY <1>0, <3>2 DEF RewriteTimeout, Kept, Fresh
    <3> QED  BY <1>10, <3>1, <3>2
  <2> QED  BY <1>10, <2>1, <2>2
<1>11. CASE IndexTimeout(w)
  <2>1. index' = index /\ late' = late \cup {wk[w].doc} /\ Restart(w)
    BY <1>11 DEF IndexTimeout
  <2> QED  BY <1>2, <2>1
<1>12. CASE Crash(w)
  <2>1. index' \subseteq index /\ Restart(w)
    BY <1>12 DEF Crash, Without
  <2>2. late' \subseteq late \cup wk[w].docs \cup {wk[w].doc}
    BY <1>12 DEF Crash
  <2> QED  BY <1>2, <2>1, <2>2
<1>13. ASSUME NEW p \in Profiles, Redeploy(w, p) PROVE Hands(NoDoc)
  <2>1. index' = index /\ late' = late
    BY <1>13 DEF Redeploy, store
  <2>2. /\ wk'[w].docs = {} /\ wk'[w].doc = NoDoc
        /\ \A v \in Workers : v # w => wk'[v] = wk[v]
    BY <1>0, <1>13 DEF Redeploy, Fresh
  <2> QED  BY <2>1, <2>2
<1> HIDE DEF Hands
<1> QED  BY <1>3, <1>4, <1>5, <1>6, <1>7, <1>8, <1>9, <1>10, <1>11, <1>12, <1>13 DEF WorkerStep

LEMMA NoCopyMade ==
    ASSUME IInv, Next, NEW c \in Deletes
    PROVE  Copies(c)' \subseteq Copies(c)
<1>1. c \in Chunks /\ ~Indexable(c) /\ NoDoc.chunk # c
  BY DeletedClosed
<1>2. CASE CatalogStep
  BY <1>2, CatalogHands DEF Copies
<1>3. CASE \E d \in late : Land(d)
  BY <1>3 DEF Land, Stored, Copies
<1>4. ASSUME NEW w \in Workers,
             \/ WorkerStep(w) \/ IndexTimeout(w) \/ Crash(w)
             \/ \E d \in wk[w].docs : RewriteTimeout(w, d)
             \/ \E p \in Profiles : Redeploy(w, p)
      PROVE  Copies(c)' \subseteq Copies(c)
  <2>1. PICK n : /\ n = NoDoc \/ Indexable(n.chunk)
                 /\ index' \subseteq index \cup late \cup wk[w].docs \cup {wk[w].doc}
                 /\ late' \subseteq late \cup wk[w].docs \cup {wk[w].doc}
                 /\ \A v \in Workers : v # w => wk'[v] = wk[v]
                 /\ wk'[w].docs \subseteq wk[w].docs \cup {n}
                 /\ wk'[w].doc \in {wk[w].doc, NoDoc, n}
    BY <1>4, WorkerHands, Zenon
  <2>2. n.chunk # c
    BY <1>1, <2>1
  <2> QED  BY <1>1, <2>1, <2>2, Handed
<1> QED  BY <1>2, <1>3, <1>4 DEF Next

\* Once the DELETE of a chunk is in the outbox, no step of anyone makes a new
\* copy of it: what is in flight may land, and nothing else may come back
\* (000015:3-4, document.go's loadDocument refuses the purged version).
NoNewCopy == [][\A c \in Deletes : Copies(c)' \subseteq Copies(c)]_vars

\* NoNewCopy with any number of workers, crashes and late writes.
THEOREM NothingResurrects == Spec => NoNewCopy
<1>1. IInv /\ [Next]_vars => [\A c \in Deletes : Copies(c)' \subseteq Copies(c)]_vars
  BY NoCopyMade
<1> QED  BY Invariance, <1>1, PTL DEF Spec, NoNewCopy

\* No copy is left, unless the erasure outran a write that was under way.
Erased(c) == c \in outrun \/ Copies(c) = {}

PurgeInv ==
    /\ \A i \in 1 .. published : outbox[i].op = "DELETE" => Erased(outbox[i].chunk)
    /\ \A w \in Workers : At(w, "PUBLISH") /\ Event(w).op = "DELETE" => Erased(Event(w).chunk)

\* What was outrun is remembered.
LEMMA OutrunKept == Next => outrun \subseteq outrun'
<1>1. ASSUME NEW s \in Scopes, NEW o \in Objects,
             \/ \E C \in SUBSET Chunks : IngestVersion(s, o, C) \/ Reextract(s, o, C)
             \/ Reobserve(s, o) \/ Absent(s, o) \/ CutOff(s, o)
      PROVE  outrun' = outrun
  BY <1>1 DEF IngestVersion, Reextract, Reobserve, Absent, CutOff, store
<1>2. ASSUME NEW o \in Objects, NEW n \in Versions,
             BeginPurge(o, n) \/ Cleanup(o, n) \/ CompletePurge(o, n)
      PROVE  outrun' = outrun
  BY <1>2 DEF BeginPurge, Cleanup, CompletePurge, store
<1>3. CatalogStep => outrun' = outrun
  BY <1>1, <1>2 DEF CatalogStep, StageRevision, store
<1>4. ASSUME NEW w \in Workers, WorkerStep(w) PROVE outrun \subseteq outrun'
  <2>1. CASE ReadNext(w) \/ LoadDocument(w) \/ Index(w) \/ DeleteProfileCopies(w) \/ Publish(w)
    BY <2>1 DEF ReadNext, LoadDocument, Index, DeleteProfileCopies, Publish, store
  <2>2. CASE VersionPurged(w) \/ PublishMissing(w) \/ PublishSuperseded(w) \/ NotObsolete(w) \/ Fail(w)
    BY <2>2 DEF VersionPurged, PublishMissing, PublishSuperseded, NotObsolete, Fail, store
  <2>3. CASE StartReindex(w) \/ ReadPage(w) \/ NextPage(w) \/ Exhausted(w) \/ ActivateRevision(w)
    BY <2>3 DEF StartReindex, ReadPage, NextPage, Exhausted, ActivateRevision, store
  <2>4. CASE (\E c \in Chunks : Reload(w, c)) \/ \E d \in wk[w].docs : Rewrite(w, d)
    BY <2>4 DEF Reload, Rewrite, store
  <2> QED  BY <1>4, <2>1, <2>2, <2>3, <2>4 DEF WorkerStep
<1>5. ASSUME NEW w \in Workers,
             \/ IndexTimeout(w) \/ Crash(w)
             \/ \E d \in wk[w].docs : RewriteTimeout(w, d)
             \/ \E p \in Profiles : Redeploy(w, p)
      PROVE  outrun' = outrun
  BY <1>5 DEF IndexTimeout, Crash, RewriteTimeout, Redeploy, store
<1>6. (\E d \in late : Land(d)) => outrun' = outrun
  BY DEF Land
<1> QED  BY <1>3, <1>4, <1>5, <1>6 DEF Next

\* What a worker may come to do, and by which step.
LEMMA Moves ==
    ASSUME IInv, Next, NEW w \in Workers
    PROVE  \/ wk'[w] = wk[w]
           \/ wk'[w].step \in {"IDLE", "LOAD", "DELETE", "PURGED", "MISSING", "SUPERSEDED", "FAIL"}
           \/ LoadDocument(w) /\ wk'[w].step = "PUT"
           \/ (Index(w) \/ DeleteProfileCopies(w)) /\ wk'[w].step = "PUBLISH"
           \/ (StartReindex(w) \/ NextPage(w)) /\ wk'[w].step = "PAGE"
           \/ /\ ReadPage(w) \/ (\E c \in Chunks : Reload(w, c)) \/ (\E d \in wk[w].docs : Rewrite(w, d))
              /\ wk'[w].step = "REBUILD"
           \/ Exhausted(w) /\ wk'[w].step = "ACTIVATE"
<1> DEFINE Quiet == {"IDLE", "LOAD", "DELETE", "PURGED", "MISSING", "SUPERSEDED", "FAIL"}
<1>0. wk \in [Workers -> WorkerStates] /\ wk[w] \in WorkerStates
  BY Here
<1>1. CASE CatalogStep \/ \E d \in late : Land(d)
  BY <1>1, CatalogHands DEF Land
<1>2. ASSUME NEW v \in Workers, v # w,
             \/ WorkerStep(v) \/ IndexTimeout(v) \/ Crash(v)
             \/ \E d \in wk[v].docs : RewriteTimeout(v, d)
             \/ \E p \in Profiles : Redeploy(v, p)
      PROVE  wk'[w] = wk[w]
  BY <1>2, WorkerHands
<1>3. ReadNext(w) \/ Publish(w) \/ VersionPurged(w) => wk'[w].step \in Quiet
  BY <1>0 DEF ReadNext, Publish, VersionPurged, Goto, WorkerStates
<1>4. PublishMissing(w) \/ PublishSuperseded(w) \/ NotObsolete(w) => wk'[w].step \in Quiet
  BY <1>0 DEF PublishMissing, PublishSuperseded, NotObsolete, Goto, WorkerStates
<1>5. Restart(w) => wk'[w].step \in Quiet
  BY <1>0 DEF Restart, Fresh
<1>6. Fail(w) \/ ActivateRevision(w) \/ IndexTimeout(w) \/ Crash(w) => wk'[w].step \in Quiet
  BY <1>5 DEF Fail, ActivateRevision, IndexTimeout, Crash
<1>7. LoadDocument(w) => wk'[w].step \in Quiet \/ wk'[w].step = "PUT"
  BY <1>0 DEF LoadDocument, WorkerStates
<1>8. Index(w) \/ DeleteProfileCopies(w) => wk'[w].step = "PUBLISH"
  BY <1>0 DEF Index, DeleteProfileCopies, Goto, WorkerStates
<1>9. StartReindex(w) => wk'[w].step = "PAGE"
  BY <1>0 DEF StartReindex, WorkerStates
<1>10. NextPage(w) => wk'[w].step = "PAGE"
  BY <1>0 DEF NextPage, WorkerStates
<1>11. ReadPage(w) => wk'[w].step = "REBUILD"
  BY <1>0 DEF ReadPage, WorkerStates
<1>12. Exhausted(w) => wk'[w].step = "ACTIVATE"
  BY <1>0 DEF Exhausted, Fresh
<1>13. ASSUME NEW c \in Chunks, Reload(w, c) PROVE wk'[w].step \in Quiet \/ wk'[w].step = "REBUILD"
  <2>1. wk[w].step = "REBUILD"
    BY <1>13 DEF Reload, At
  <2>2. CASE Listed(c) /\ Conflict(w)
    BY <1>0, <1>13, <2>2 DEF Reload, Kept, Fresh
  <2>3. CASE ~(Listed(c) /\ Conflict(w))
    BY <1>0, <1>13, <2>1, <2>3 DEF Reload, WorkerStates
  <2> QED  BY <2>2, <2>3
<1>14. ASSUME NEW d \in wk[w].docs, Rewrite(w, d) PROVE wk'[w].step = "REBUILD"
  BY <1>0, <1>14 DEF Rewrite, At, WorkerStates
<1>15. ASSUME NEW d \in wk[w].docs, RewriteTimeout(w, d) PROVE wk'[w].step \in Quiet
  BY <1>0, <1>15 DEF RewriteTimeout, Kept, Fresh
<1>16. ASSUME NEW p \in Profiles, Redeploy(w, p) PROVE wk'[w].step \in Quiet
  BY <1>0, <1>16 DEF Redeploy, Fresh
<1> HIDE DEF Quiet
<1>17. CASE WorkerStep(w)
  <2>1. CASE ReadNext(w) \/ LoadDocument(w) \/ Index(w) \/ DeleteProfileCopies(w) \/ Publish(w)
             \/ VersionPurged(w)
    BY <2>1, <1>3, <1>7, <1>8 DEF Quiet
  <2>2. CASE PublishMissing(w) \/ PublishSuperseded(w) \/ NotObsolete(w) \/ Fail(w)
             \/ ActivateRevision(w)
    BY <2>2, <1>4, <1>6 DEF Quiet
  <2>3. CASE StartReindex(w) \/ ReadPage(w) \/ NextPage(w) \/ Exhausted(w)
    BY <2>3, <1>9, <1>10, <1>11, <1>12
  <2>4. CASE \E c \in Chunks : Reload(w, c)
    BY <2>4, <1>13 DEF Quiet
  <2>5. CASE \E d \in wk[w].docs : Rewrite(w, d)
    BY <2>5, <1>14
  <2> QED  BY <1>17, <2>1, <2>2, <2>3, <2>4, <2>5, Zenon DEF WorkerStep
<1>18. CASE \/ IndexTimeout(w) \/ Crash(w)
            \/ \E d \in wk[w].docs : RewriteTimeout(w, d)
            \/ \E p \in Profiles : Redeploy(w, p)
  BY <1>6, <1>15, <1>16, <1>18 DEF Quiet
<1> QED  BY <1>1, <1>2, <1>17, <1>18, Zenon DEF Next

\* The same, by where the worker arrives.
LEMMA Arrivals ==
    ASSUME IInv, Next, NEW w \in Workers, wk'[w] # wk[w]
    PROVE  /\ wk'[w].step = "PUT" => LoadDocument(w)
           /\ wk'[w].step = "PUBLISH" => Index(w) \/ DeleteProfileCopies(w)
           /\ wk'[w].step = "PAGE" => StartReindex(w) \/ NextPage(w)
           /\ wk'[w].step = "REBUILD" => \/ ReadPage(w) \/ (\E c \in Chunks : Reload(w, c))
                                         \/ (\E d \in wk[w].docs : Rewrite(w, d))
           /\ wk'[w].step = "ACTIVATE" => Exhausted(w)
<1>1. CASE wk'[w].step \in {"IDLE", "LOAD", "DELETE", "PURGED", "MISSING", "SUPERSEDED", "FAIL"}
  BY <1>1
<1>2. CASE LoadDocument(w) /\ wk'[w].step = "PUT"
  BY <1>2
<1>3. CASE (Index(w) \/ DeleteProfileCopies(w)) /\ wk'[w].step = "PUBLISH"
  BY <1>3
<1>4. CASE (StartReindex(w) \/ NextPage(w)) /\ wk'[w].step = "PAGE"
  BY <1>4
<1>5. CASE /\ ReadPage(w) \/ (\E c \in Chunks : Reload(w, c)) \/ (\E d \in wk[w].docs : Rewrite(w, d))
           /\ wk'[w].step = "REBUILD"
  BY <1>5
<1>6. CASE Exhausted(w) /\ wk'[w].step = "ACTIVATE"
  BY <1>6
<1> QED  BY <1>1, <1>2, <1>3, <1>4, <1>5, <1>6, Moves, Zenon

\* Who moves the head, and past which event.
LEMMA HeadMoves ==
    ASSUME IInv, Next, published' # published
    PROVE  \E w \in Workers :
              /\ published' = published + 1 /\ wk[w].seq = published + 1
              /\ \/ Publish(w)
                 \/ PublishMissing(w) /\ Unreadable(chunk[Event(w).chunk][1])
                 \/ PublishSuperseded(w)
<1>1. ~(CatalogStep \/ \E d \in late : Land(d))
  BY CatalogHands DEF Land, queue
<1>2. ASSUME NEW w \in Workers,
             \/ WorkerStep(w) \/ IndexTimeout(w) \/ Crash(w)
             \/ \E d \in wk[w].docs : RewriteTimeout(w, d)
             \/ \E p \in Profiles : Redeploy(w, p)
      PROVE  \/ Publish(w)
             \/ PublishMissing(w) /\ Unreadable(chunk[Event(w).chunk][1])
             \/ PublishSuperseded(w)
  <2>1. CASE PublishMissing(w)
    BY <2>1 DEF PublishMissing
  <2>2. CASE ReadNext(w) \/ LoadDocument(w) \/ Index(w) \/ DeleteProfileCopies(w)
    BY <2>2 DEF ReadNext, LoadDocument, Index, DeleteProfileCopies, queue
  <2>3. CASE VersionPurged(w) \/ NotObsolete(w) \/ Fail(w)
    BY <2>3 DEF VersionPurged, NotObsolete, Fail, queue
  <2>4. CASE StartReindex(w) \/ ReadPage(w) \/ NextPage(w) \/ Exhausted(w) \/ ActivateRevision(w)
    BY <2>4 DEF StartReindex, ReadPage, NextPage, Exhausted, ActivateRevision, queue
  <2>5. CASE IndexTimeout(w) \/ Crash(w)
    BY <2>5 DEF IndexTimeout, Crash, queue
  <2>6. CASE \/ \E c \in Chunks : Reload(w, c)
             \/ \E d \in wk[w].docs : Rewrite(w, d) \/ RewriteTimeout(w, d)
             \/ \E p \in Profiles : Redeploy(w, p)
    BY <2>6 DEF Reload, Rewrite, RewriteTimeout, Redeploy, queue
  <2> QED  BY <1>2, <2>1, <2>2, <2>3, <2>4, <2>5, <2>6 DEF WorkerStep
<1>3. PICK w \in Workers :
             \/ WorkerStep(w) \/ IndexTimeout(w) \/ Crash(w)
             \/ \E d \in wk[w].docs : RewriteTimeout(w, d)
             \/ \E p \in Profiles : Redeploy(w, p)
  BY <1>1, Zenon DEF Next
<1>4. \/ Publish(w)
      \/ PublishMissing(w) /\ Unreadable(chunk[Event(w).chunk][1])
      \/ PublishSuperseded(w)
  BY <1>2, <1>3
<1>5. Published(wk[w].seq) /\ wk[w].step \in EventSteps
  BY <1>4 DEF Publish, PublishMissing, PublishSuperseded, At, EventSteps
<1> QED  BY <1>4, <1>5, PublishedFacts

LEMMA PurgeInd ==
    ASSUME IInv, IInv', PurgeInv, Next
    PROVE  PurgeInv'
<1>1. /\ TypeOK /\ CatalogInv /\ TypeOK' /\ Grows /\ published \in Nat
      /\ Len(outbox) \in Nat /\ published <= Len(outbox) /\ published' \in Nat
  <2>1. TypeOK /\ CatalogInv /\ TypeOK' /\ Grows
    BY Step DEF IInv
  <2>2. outbox \in Seq(Events) /\ published \in 0 .. Len(outbox)
    BY <2>1 DEF TypeOK
  <2>3. outbox' \in Seq(Events) /\ published' \in 0 .. Len(outbox')
    BY <2>1 DEF TypeOK
  <2> HIDE DEF TypeOK
  <2> QED  BY <2>1, <2>2, <2>3
<1>2. outrun \subseteq outrun'
  BY OutrunKept
<1>4. ASSUME NEW i \in 1 .. Len(outbox), outbox[i].op = "DELETE", Erased(outbox[i].chunk)
      PROVE  outbox'[i] = outbox[i] /\ Erased(outbox[i].chunk)'
  <2>1. outbox[i].chunk \in Deletes
    BY <1>1, <1>4 DEF Deletes
  <2>2. Copies(outbox[i].chunk)' \subseteq Copies(outbox[i].chunk)
    <3> DEFINE c == outbox[i].chunk
    <3>1. \A e \in Deletes : Copies(e)' \subseteq Copies(e)
      BY NoCopyMade
    <3>2. outbox'[i] = outbox[i]
      BY <1>1 DEF Grows
    <3> QED  BY <2>1, <3>1, <3>2 DEF Copies
  <2>3. outbox'[i] = outbox[i]
    BY <1>1 DEF Grows
  <2> QED  BY <1>2, <1>4, <2>2, <2>3 DEF Erased
<1>5. ASSUME NEW i \in 1 .. published', outbox'[i].op = "DELETE"
      PROVE  Erased(outbox[i].chunk)'
  <2>1. CASE i \in 1 .. published
    <3>1. i \in 1 .. Len(outbox) /\ outbox'[i] = outbox[i]
      BY <1>1, <2>1 DEF Grows
    <3> QED  BY <1>4, <1>5, <2>1, <3>1 DEF PurgeInv
  <2>2. CASE i \notin 1 .. published
    <3>1. published' # published
      BY <2>2
    <3>2. PICK w \in Workers :
              /\ published' = published + 1 /\ wk[w].seq = published + 1
              /\ wk[w].step \in {"PUBLISH", "MISSING", "SUPERSEDED"}
      BY <3>1, HeadMoves DEF Publish, PublishMissing, PublishSuperseded, At
    <3>3. i = published + 1 /\ i = wk[w].seq
      BY <1>1, <2>2, <3>2
    <3>4. WorkOf(w)
      BY Here
    <3>5. i \in 1 .. Len(outbox)
      BY <3>2, <3>3, <3>4 DEF WorkOf, EventSteps
    <3>6. outbox'[i] = outbox[i] /\ Event(w) = outbox[i]
      BY <1>1, <3>3, <3>5 DEF Grows, Event
    <3>7. wk[w].step = "PUBLISH"
      BY <1>5, <3>2, <3>4, <3>6 DEF WorkOf, UpsertSteps
    <3>8. Erased(outbox[i].chunk)
      BY <1>5, <3>6, <3>7 DEF PurgeInv, At
    <3> QED  BY <1>4, <1>5, <3>5, <3>6, <3>8
  <2> QED  BY <2>1, <2>2
<1>6. ASSUME NEW w \in Workers, At(w, "PUBLISH")', Event(w)'.op = "DELETE"
      PROVE  Erased(Event(w).chunk)'
  <2>1. WorkOf(w) /\ wk \in [Workers -> WorkerStates] /\ wk[w] \in WorkerStates /\ index \subseteq Documents
    BY Here
  <2>2. CASE wk'[w] = wk[w]
    <3>1. wk[w].step = "PUBLISH" /\ wk'[w].seq = wk[w].seq
      BY <1>6, <2>2 DEF At
    <3>2. wk[w].seq \in 1 .. Len(outbox)
      BY <2>1, <3>1 DEF WorkOf, EventSteps
    <3>3. outbox'[wk[w].seq] = outbox[wk[w].seq]
      BY <1>1, <3>2 DEF Grows
    <3>4. Event(w)' = outbox'[wk[w].seq] /\ Event(w) = outbox[wk[w].seq]
      BY <3>1 DEF Event
    <3>5. outbox[wk[w].seq].op = "DELETE" /\ Erased(outbox[wk[w].seq].chunk)
      BY <1>6, <3>1, <3>3, <3>4 DEF PurgeInv, At
    <3>6. Erased(outbox[wk[w].seq].chunk)'
      <4>1. PICK k \in 1 .. Len(outbox) : k = wk[w].seq
        BY <3>2
      <4>2. Erased(outbox[k].chunk)'
        BY <1>4, <3>5, <4>1
      <4>3. k = wk'[w].seq
        BY <3>1, <4>1
      <4> QED  BY <4>2, <4>3
    <3> QED  BY <3>6 DEF Event
  <2>3. CASE Index(w)
    <3>1. Event(w)' = Event(w)
      BY <2>1, <2>3 DEF Index, Event, queue, WorkerStates
    <3>2. Event(w).op = "UPSERT"
      BY <2>1, <2>3 DEF WorkOf, Index, At, UpsertSteps
    <3> QED  BY <1>6, <3>1, <3>2
  <2>4. CASE DeleteProfileCopies(w)
    <3>1. /\ Event(w)' = Event(w) /\ index' = Without(Event(w).chunk)
          /\ wk'[w].docs = wk[w].docs /\ wk'[w].doc = wk[w].doc
      BY <2>1, <2>4 DEF DeleteProfileCopies, Goto, Event, queue, WorkerStates
    <3>2. CASE UnderWay(Event(w).chunk)
      BY <2>4, <3>1, <3>2 DEF DeleteProfileCopies, Erased
    <3>3. CASE ~UnderWay(Event(w).chunk)
      <4>1. /\ \A d \in late : d.chunk # Event(w).chunk
            /\ \A v \in Workers : \A d \in wk[v].docs \cup {wk[v].doc} : d.chunk # Event(w).chunk
        BY <3>3 DEF UnderWay
      <4>2. late' = late /\ \A v \in Workers : wk'[v].docs = wk[v].docs /\ wk'[v].doc = wk[v].doc
        BY <2>1, <2>4 DEF DeleteProfileCopies, Goto, WorkerStates
      <4>3. \A d \in index' : d.chunk # Event(w).chunk
        BY <3>1 DEF Without
      <4> QED  BY <3>1, <4>1, <4>2, <4>3 DEF Erased, Copies
    <3> QED  BY <3>2, <3>3
  <2> QED  BY <1>6, <2>2, <2>3, <2>4, Arrivals DEF At
<1> QED  BY <1>5, <1>6 DEF PurgeInv

\* With any number of workers, crashes and lost requests: no index holds a
\* copy of a chunk whose DELETE is published, unless the erasure outran a
\* write of the chunk that was loaded before the purge (purge.go:66-106);
\* what the erasure found nowhere under way never comes back.
THEOREM PurgedIsErased == Spec => []PurgeErases
<1>1. Init => PurgeInv
  <2>1. Init => \A i \in 1 .. published : FALSE
    BY DEF Init
  <2> QED  BY <2>1 DEF Init, PurgeInv, At, Fresh
<1>2. IInv /\ IInv' /\ PurgeInv /\ Next => PurgeInv'
  BY PurgeInd
<1>3. IInv /\ PurgeInv /\ UNCHANGED vars => PurgeInv'
  BY DEF vars, catalog, listing, queue, store, PurgeInv, Erased, Copies, At, Event
<1>4. IInv /\ PurgeInv => PurgeErases
  BY DEF PurgeInv, PurgeErases, Erased, Copies
<1> QED  BY Invariance, <1>1, <1>2, <1>3, <1>4, PTL DEF Spec
=============================================================================
