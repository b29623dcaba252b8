------------------------- MODULE BucketCatalogProofs -------------------------
(***************************************************************************)
(* Proofs about the sharded bucket catalog of BucketCatalog, for every set *)
(* of shards, meta values and chunks and every bound.                      *)
(***************************************************************************)
EXTENDS BucketCatalog, SequenceTheorems, FiniteSetTheorems, TLAPS

\* Every meta value lies in the chunk ChunkOf picks for it.
LEMMA ChunkOfType ==
    ASSUME NEW m \in Meta
    PROVE  ChunkOf(m) \in Chunk /\ m \in ChunkOf(m)
<1>1. \E c \in Chunk : m \in c
    BY ChunkAssumption
<1>. QED
    BY <1>1 DEF ChunkOf

\* What the two record updates of a bucket change and keep.
LEMMA AddDocFacts ==
    ASSUME NEW b \in BucketRec, NEW d \in 1..MaxDocs
    PROVE  /\ AddDoc(b, d) \in BucketRec
           /\ AddDoc(b, d).meta = b.meta
           /\ AddDoc(b, d).shard = b.shard
           /\ AddDoc(b, d).docs = b.docs \cup {d}
BY Zenon DEF AddDoc, BucketRec

LEMMA RelocateFacts ==
    ASSUME NEW b \in BucketRec, NEW r \in Shard
    PROVE  /\ Relocate(b, r) \in BucketRec
           /\ Relocate(b, r).meta = b.meta
           /\ Relocate(b, r).shard = r
           /\ Relocate(b, r).docs = b.docs
BY Zenon DEF Relocate, BucketRec

LEMMA InitTypeOK == Init => TypeOK
<1> SUFFICES ASSUME Init PROVE TypeOK
    OBVIOUS
<1>1. bucket \in Seq(BucketRec) /\ Len(bucket) = 0 /\ DOMAIN bucket = {}
    BY EmptySeq DEF Init
<1>2. docMeta \in Seq(Meta) /\ Len(docMeta) = 0
    BY EmptySeq DEF Init
<1>3. open \in [Shard -> [Meta -> 0..Len(bucket)]]
    BY <1>1 DEF Init, NoBucket
<1>. QED
    BY <1>1, <1>2, <1>3, PrimaryAssumption, BoundsAssumption DEF Init, TypeOK

LEMMA NextTypeOK == TypeOK /\ [Next]_vars => TypeOK'
<1> SUFFICES ASSUME TypeOK, [Next]_vars PROVE TypeOK'
    OBVIOUS
<1>. USE DEF TypeOK
<1>1. /\ Len(bucket) \in Nat /\ DOMAIN bucket = 1..Len(bucket)
      /\ Len(docMeta) \in Nat /\ MaxDocs \in Nat
    BY LenProperties, BoundsAssumption
<1>2. ASSUME NEW m \in Meta, Insert(m) PROVE TypeOK'
    <2> DEFINE s == owner[ChunkOf(m)]
               d == Len(docMeta) + 1
               k == open[s][m]
    <2>1. s \in Shard /\ d \in 1..MaxDocs
        BY <1>1, <1>2, ChunkOfType DEF Insert
    <2>2. docMeta' \in Seq(Meta) /\ Len(docMeta') <= MaxDocs
        BY <1>1, <1>2, AppendProperties DEF Insert
    <2>3. CASE k # NoBucket
        <3>1. k \in 1..Len(bucket)
            BY <2>1, <2>3 DEF NoBucket
        <3>2. AddDoc(bucket[k], d) \in BucketRec
            BY <2>1, <3>1, AddDocFacts, ElementOfSeq
        <3>3. bucket' = [bucket EXCEPT ![k] = AddDoc(bucket[k], d)]
            BY <1>2, <2>3 DEF Insert, NoBucket
        <3>4. bucket' \in Seq(BucketRec) /\ Len(bucket') = Len(bucket)
            BY <3>1, <3>2, <3>3, ExceptSeq
        <3>5. UNCHANGED <<open, owner, moves, migrated>>
            BY <1>2, <2>3 DEF Insert, NoBucket
        <3>. QED
            BY <1>1, <2>2, <3>4, <3>5
    <2>4. CASE k = NoBucket
        <3>1. [meta |-> m, shard |-> s, docs |-> {d}] \in BucketRec
            BY <2>1 DEF BucketRec
        <3>2. bucket' = Append(bucket, [meta |-> m, shard |-> s, docs |-> {d}])
            BY <1>2, <2>4 DEF Insert, NoBucket
        <3>3. bucket' \in Seq(BucketRec) /\ Len(bucket') = Len(bucket) + 1
            BY <3>1, <3>2, AppendProperties
        <3>4. open' = [open EXCEPT ![s][m] = Len(bucket) + 1]
            BY <1>2, <2>4 DEF Insert, NoBucket
        <3>5. open' \in [Shard -> [Meta -> 0..Len(bucket')]]
            BY <1>1, <2>1, <3>3, <3>4
        <3>6. UNCHANGED <<owner, moves, migrated>>
            BY <1>2 DEF Insert
        <3>7. migrated' \subseteq DOMAIN bucket'
            BY <1>1, <3>3, <3>6, LenProperties
        <3>. QED
            BY <2>2, <3>3, <3>5, <3>6, <3>7
    <2>. QED
        BY <2>3, <2>4
<1>3. ASSUME NEW c \in Chunk, NEW r \in Shard, MoveChunk(c, r) PROVE TypeOK'
    <2> DEFINE from  == owner[c]
               moved == BucketsOfChunk(c, from)
               f(i)  == IF i \in moved THEN Relocate(bucket[i], r) ELSE bucket[i]
    <2>1. bucket' = [i \in 1..Len(bucket) |-> f(i)]
        BY <1>1, <1>3 DEF MoveChunk
    <2>2. \A i \in 1..Len(bucket) : f(i) \in BucketRec
        BY RelocateFacts, ElementOfSeq
    <2>3. bucket' \in Seq(BucketRec)
        BY <1>1, <2>1, <2>2, IsASeq
    <2>4. Len(bucket') = Len(bucket)
        BY <1>1, <2>1, <2>3, LenProperties
    <2>5. open' \in [Shard -> [Meta -> 0..Len(bucket')]]
        BY <1>3, <2>4 DEF MoveChunk, NoBucket
    <2>6. migrated' \subseteq DOMAIN bucket'
        BY <1>1, <1>3, <2>1 DEF MoveChunk, BucketsOfChunk
    <2>7. /\ owner' \in [Chunk -> Shard]
          /\ moves' \in 0..MaxMoves
          /\ docMeta' = docMeta
        BY <1>3, BoundsAssumption DEF MoveChunk
    <2>. QED
        BY <2>3, <2>5, <2>6, <2>7
<1>4. CASE WorkloadDone \/ UNCHANGED vars
    BY <1>4 DEF WorkloadDone, vars
<1>. QED
    BY <1>2, <1>3, <1>4 DEF Next

\* Every reachable state of the catalog is well typed.
THEOREM CatalogTypeCorrect == Spec => []TypeOK
BY InitTypeOK, NextTypeOK, PTL DEF Spec

(***************************************************************************)
(* The catalog invariants.  A shard's catalog entry for a meta value       *)
(* points at a bucket that lives on that shard, has that meta value and    *)
(* was never migrated; conversely every bucket never migrated is the entry *)
(* of its shard and meta value.  A migration moves exactly the buckets the *)
(* donor's entries for the chunk may point at, and clears those entries.   *)
(***************************************************************************)
OpenShape ==
    \A s \in Shard, m \in Meta :
        open[s][m] # NoBucket =>
            /\ bucket[open[s][m]].shard = s
            /\ bucket[open[s][m]].meta = m
            /\ open[s][m] \notin migrated

LiveOpen ==
    \A i \in DOMAIN bucket \ migrated :
        open[bucket[i].shard][bucket[i].meta] = i

CatInv == TypeOK /\ OpenShape /\ LiveOpen

\* A bucket of a well-typed state has a shard and a meta value.
LEMMA BucketFields ==
    ASSUME TypeOK, NEW i \in DOMAIN bucket
    PROVE  /\ bucket[i] \in BucketRec
           /\ bucket[i].shard \in Shard
           /\ bucket[i].meta \in Meta
<1>1. bucket[i] \in BucketRec
    BY LenProperties, ElementOfSeq DEF TypeOK
<1>. QED
    BY <1>1 DEF BucketRec

LEMMA InitCatInv == Init => CatInv
BY InitTypeOK, EmptySeq DEF Init, CatInv, OpenShape, LiveOpen, NoBucket

LEMMA NextCatInv == CatInv /\ [Next]_vars => CatInv'
<1> SUFFICES ASSUME CatInv, [Next]_vars PROVE CatInv'
    OBVIOUS
<1>. USE DEF CatInv
<1>1. TypeOK'
    BY NextTypeOK
<1>2. /\ Len(bucket) \in Nat /\ DOMAIN bucket = 1..Len(bucket)
      /\ \A s \in Shard, m \in Meta : open[s][m] \in 0..Len(bucket)
      /\ migrated \subseteq 1..Len(bucket)
    BY LenProperties DEF TypeOK
<1>3. ASSUME NEW m \in Meta, Insert(m) PROVE CatInv'
    <2> DEFINE s == owner[ChunkOf(m)]
               d == Len(docMeta) + 1
               k == open[s][m]
    <2>1. s \in Shard /\ d \in 1..MaxDocs
        BY <1>3, ChunkOfType, LenProperties, BoundsAssumption DEF Insert, TypeOK
    <2>2. UNCHANGED migrated
        BY <1>3 DEF Insert
    <2>3. CASE k # NoBucket
        <3>1. k \in 1..Len(bucket)
            BY <1>2, <2>1, <2>3 DEF NoBucket
        <3>2. bucket' = [bucket EXCEPT ![k] = AddDoc(bucket[k], d)]
            BY <1>3, <2>3 DEF Insert, NoBucket
        <3>3. \A i \in DOMAIN bucket :
                  /\ bucket'[i].shard = bucket[i].shard
                  /\ bucket'[i].meta = bucket[i].meta
            BY <1>2, <2>1, <3>1, <3>2, AddDocFacts, ElementOfSeq DEF TypeOK
        <3>4. DOMAIN bucket' = DOMAIN bucket /\ UNCHANGED open
            BY <1>3, <2>3, <3>2 DEF Insert, NoBucket
        <3>5. OpenShape'
            <4> SUFFICES ASSUME NEW x \in Shard, NEW y \in Meta, open'[x][y] # NoBucket
                         PROVE  /\ bucket'[open'[x][y]].shard = x
                                /\ bucket'[open'[x][y]].meta = y
                                /\ open'[x][y] \notin migrated'
                BY DEF OpenShape
            <4>1. open'[x][y] = open[x][y] /\ open[x][y] \in DOMAIN bucket
                BY <1>2, <3>4 DEF NoBucket
            <4>. QED
                BY <2>2, <3>3, <4>1 DEF OpenShape
        <3>6. LiveOpen'
            BY <2>2, <3>3, <3>4 DEF LiveOpen
        <3>. QED
            BY <1>1, <3>5, <3>6
    <2>4. CASE k = NoBucket
        <3> DEFINE N == Len(bucket) + 1
                   new == [meta |-> m, shard |-> s, docs |-> {d}]
        <3>1. bucket' = Append(bucket, new)
            BY <1>3, <2>4 DEF Insert, NoBucket
        <3>2. new \in BucketRec
            BY <2>1 DEF BucketRec
        <3>3. /\ DOMAIN bucket' = DOMAIN bucket \cup {N}
              /\ bucket'[N] = new
              /\ \A i \in DOMAIN bucket : bucket'[i] = bucket[i]
            BY <1>2, <3>1, <3>2, AppendProperties, LenProperties DEF TypeOK
        <3>4. open' = [open EXCEPT ![s][m] = N]
            BY <1>3, <2>4 DEF Insert, NoBucket
        <3>5. N \notin migrated /\ N # NoBucket
            BY <1>2 DEF NoBucket
        <3>6. OpenShape'
            <4> SUFFICES ASSUME NEW x \in Shard, NEW y \in Meta, open'[x][y] # NoBucket
                         PROVE  /\ bucket'[open'[x][y]].shard = x
                                /\ bucket'[open'[x][y]].meta = y
                                /\ open'[x][y] \notin migrated'
                BY DEF OpenShape
            <4>1. CASE x = s /\ y = m
                BY <2>1, <2>2, <3>3, <3>4, <3>5, <4>1 DEF TypeOK
            <4>2. CASE ~(x = s /\ y = m)
                <5>1. open'[x][y] = open[x][y]
                    BY <2>1, <3>4, <4>2 DEF TypeOK
                <5>2. open[x][y] \in DOMAIN bucket
                    BY <1>2, <5>1 DEF NoBucket
                <5>. QED
                    BY <2>2, <3>3, <5>1, <5>2 DEF OpenShape
            <4>. QED
                BY <4>1, <4>2
        <3>7. LiveOpen'
            <4> SUFFICES ASSUME NEW i \in DOMAIN bucket' \ migrated'
                         PROVE  open'[bucket'[i].shard][bucket'[i].meta] = i
                BY DEF LiveOpen
            <4>1. CASE i = N
                BY <2>1, <3>3, <3>4, <4>1 DEF TypeOK
            <4>2. CASE i # N
                <5>1. i \in DOMAIN bucket \ migrated /\ bucket'[i] = bucket[i]
                    BY <2>2, <3>3, <4>2
                <5>2. open[bucket[i].shard][bucket[i].meta] = i
                    BY <5>1 DEF LiveOpen
                <5>3. bucket[i].shard \in Shard /\ bucket[i].meta \in Meta
                    BY <5>1, BucketFields
                <5>4. ~(bucket[i].shard = s /\ bucket[i].meta = m)
                    BY <1>2, <2>4, <5>1, <5>2 DEF NoBucket
                <5>. QED
                    BY <3>4, <5>1, <5>2, <5>3, <5>4 DEF TypeOK
            <4>. QED
                BY <4>1, <4>2
        <3>. QED
            BY <1>1, <3>6, <3>7
    <2>. QED
        BY <2>3, <2>4
<1>4. ASSUME NEW c \in Chunk, NEW r \in Shard, MoveChunk(c, r) PROVE CatInv'
    <2> DEFINE from  == owner[c]
               moved == BucketsOfChunk(c, from)
    <2>1. /\ DOMAIN bucket' = DOMAIN bucket
          /\ \A i \in DOMAIN bucket :
                bucket'[i] = IF i \in moved THEN Relocate(bucket[i], r) ELSE bucket[i]
          /\ migrated' = migrated \cup moved
          /\ open' = [open EXCEPT ![from] =
                        [x \in Meta |-> IF x \in c THEN NoBucket ELSE open[from][x]]]
        BY <1>4 DEF MoveChunk
    <2>2. \A i \in DOMAIN bucket :
            i \in moved <=> bucket[i].meta \in c /\ bucket[i].shard = from
        BY DEF BucketsOfChunk
    <2>3. from \in Shard
        BY DEF TypeOK
    <2>4. OpenShape'
        <3> SUFFICES ASSUME NEW x \in Shard, NEW y \in Meta, open'[x][y] # NoBucket
                     PROVE  /\ bucket'[open'[x][y]].shard = x
                            /\ bucket'[open'[x][y]].meta = y
                            /\ open'[x][y] \notin migrated'
            BY DEF OpenShape
        <3>1. ~(x = from /\ y \in c) /\ open'[x][y] = open[x][y]
            BY <2>1, <2>3 DEF TypeOK
        <3>2. open[x][y] \in DOMAIN bucket
            BY <1>2, <3>1 DEF NoBucket
        <3>3. /\ bucket[open[x][y]].shard = x
              /\ bucket[open[x][y]].meta = y
              /\ open[x][y] \notin migrated
            BY <3>1 DEF OpenShape
        <3>4. open[x][y] \notin moved
            BY <2>2, <3>1, <3>2, <3>3
        <3>. QED
            BY <2>1, <3>1, <3>2, <3>3, <3>4
    <2>5. LiveOpen'
        <3> SUFFICES ASSUME NEW i \in DOMAIN bucket' \ migrated'
                     PROVE  open'[bucket'[i].shard][bucket'[i].meta] = i
            BY DEF LiveOpen
        <3>1. i \in DOMAIN bucket \ migrated /\ i \notin moved /\ bucket'[i] = bucket[i]
            BY <2>1
        <3>2. open[bucket[i].shard][bucket[i].meta] = i
            BY <3>1 DEF LiveOpen
        <3>3. bucket[i].shard \in Shard /\ bucket[i].meta \in Meta
            BY <3>1, BucketFields
        <3>4. ~(bucket[i].shard = from /\ bucket[i].meta \in c)
            BY <2>2, <3>1
        <3>. QED
            BY <2>1, <2>3, <3>1, <3>2, <3>3, <3>4 DEF TypeOK
    <2>. QED
        BY <1>1, <2>4, <2>5
<1>5. CASE WorkloadDone \/ UNCHANGED vars
    BY <1>1, <1>5 DEF WorkloadDone, vars, OpenShape, LiveOpen
<1>. QED
    BY <1>3, <1>4, <1>5 DEF Next

\* The catalog invariant holds in every reachable state.
LEMMA CatInvHolds == Spec => []CatInv
BY InitCatInv, NextCatInv, PTL DEF Spec

\* A shard never holds two live buckets for one meta value (checked by TLC
\* as OneLiveBucketPerKey): every live bucket is its shard's catalog entry.
THEOREM OneLiveBucket == Spec => []OneLiveBucketPerKey
<1>1. CatInv => OneLiveBucketPerKey
    <2> SUFFICES ASSUME CatInv, NEW s \in Shard, NEW m \in Meta
                 PROVE  Cardinality({i \in DOMAIN bucket \ migrated :
                            bucket[i].shard = s /\ bucket[i].meta = m}) <= 1
        BY DEF OneLiveBucketPerKey
    <2> DEFINE L == {i \in DOMAIN bucket \ migrated :
                        bucket[i].shard = s /\ bucket[i].meta = m}
    <2>1. L \subseteq {open[s][m]}
        BY DEF CatInv, LiveOpen
    <2>2. IsFiniteSet({open[s][m]}) /\ Cardinality({open[s][m]}) = 1
        BY FS_Singleton
    <2>3. Cardinality(L) <= Cardinality({open[s][m]})
        BY <2>1, <2>2, FS_Subset
    <2>. QED
        BY <2>2, <2>3
<1>. QED
    BY <1>1, CatInvHolds, PTL

\* No step adds a measurement to a bucket that a migration has moved
\* (checked by TLC as MigratedBucketsFrozen): an insert joins only its
\* shard's catalog entry, which is never a migrated bucket, and a
\* migration relocates buckets without touching their measurements.
LEMMA FrozenCatalogStep ==
    ASSUME CatInv, [Next]_vars
    PROVE  \A i \in migrated : bucket'[i].docs = bucket[i].docs
<1> SUFFICES ASSUME NEW i \in migrated PROVE bucket'[i].docs = bucket[i].docs
    OBVIOUS
<1>1. i \in DOMAIN bucket /\ bucket[i] \in BucketRec
    BY BucketFields DEF CatInv, TypeOK
<1>2. ASSUME NEW m \in Meta, Insert(m) PROVE bucket'[i].docs = bucket[i].docs
    <2> DEFINE s == owner[ChunkOf(m)]
               k == open[s][m]
    <2>1. s \in Shard
        BY ChunkOfType DEF CatInv, TypeOK
    <2>2. CASE k # NoBucket
        <3>1. k # i
            BY <2>1, <2>2 DEF CatInv, OpenShape
        <3>. QED
            BY <1>1, <1>2, <2>2, <3>1 DEF Insert
    <2>3. CASE k = NoBucket
        <3> DEFINE new == [meta |-> m, shard |-> s,
                           docs |-> {Len(docMeta) + 1}]
        <3>1. bucket' = Append(bucket, new)
            BY <1>2, <2>3 DEF Insert, NoBucket
        <3>2. i \in 1..Len(bucket) /\ bucket \in Seq(BucketRec)
            BY <1>1, LenProperties DEF CatInv, TypeOK
        <3>. QED
            BY <3>1, <3>2, AppendProperties
    <2>. QED
        BY <2>2, <2>3
<1>3. ASSUME NEW c \in Chunk, NEW r \in Shard, MoveChunk(c, r)
      PROVE  bucket'[i].docs = bucket[i].docs
    BY <1>1, <1>3, RelocateFacts DEF MoveChunk
<1>4. CASE WorkloadDone \/ UNCHANGED vars
    BY <1>4 DEF WorkloadDone, vars
<1>. QED
    BY <1>2, <1>3, <1>4 DEF Next

THEOREM MigratedBucketsStayFrozen == Spec => MigratedBucketsFrozen
<1>1. CatInv /\ [Next]_vars
        => [\A i \in migrated : bucket'[i].docs = bucket[i].docs]_vars
    BY FrozenCatalogStep
<1>. QED
    BY <1>1, CatInvHolds, PTL DEF Spec, MigratedBucketsFrozen

=============================================================================
