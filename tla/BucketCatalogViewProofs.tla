----------------------- MODULE BucketCatalogViewProofs -----------------------
(***************************************************************************)
(* What clients see of the bucket catalog, for every set of shards, meta   *)
(* values and chunks: every measurement inserted is found, by find({})     *)
(* and by its shard key, with the meta value it was inserted with.        *)
(***************************************************************************)
EXTENDS BucketCatalogProofs

(***************************************************************************)
(* The view invariant.  Beyond CatInv (a measurement joins a bucket of its *)
(* own meta value) it needs three facts that no single step makes obvious: *)
(* every bucket lives on the shard owning its chunk (a migration moves all *)
(* of the chunk's buckets, because they all sit on the donor), every       *)
(* measurement of a bucket was inserted with the bucket's meta value, and  *)
(* every inserted measurement is in some bucket.                           *)
(***************************************************************************)
Placed ==
    \A i \in DOMAIN bucket : bucket[i].shard = owner[ChunkOf(bucket[i].meta)]

DocsKnown ==
    \A i \in DOMAIN bucket : \A d \in bucket[i].docs :
        d \in 1..Len(docMeta) /\ docMeta[d] = bucket[i].meta

DocsStored ==
    \A d \in 1..Len(docMeta) : \E i \in DOMAIN bucket : d \in bucket[i].docs

ViewInv == CatInv /\ Placed /\ DocsKnown /\ DocsStored

\* The chunks partition the meta values.
LEMMA ChunkOfUnique ==
    ASSUME NEW m \in Meta, NEW c \in Chunk, m \in c
    PROVE  ChunkOf(m) = c
BY ChunkOfType, ChunkAssumption

LEMMA InitViewInv == Init => ViewInv
BY InitCatInv, EmptySeq DEF Init, ViewInv, Placed, DocsKnown, DocsStored

LEMMA NextViewInv == ViewInv /\ [Next]_vars => ViewInv'
<1> SUFFICES ASSUME ViewInv, [Next]_vars PROVE ViewInv'
    OBVIOUS
<1>. USE DEF ViewInv
<1>1. CatInv'
    BY NextCatInv
<1>2. /\ Len(bucket) \in Nat /\ DOMAIN bucket = 1..Len(bucket)
      /\ Len(docMeta) \in Nat /\ DOMAIN docMeta = 1..Len(docMeta)
      /\ bucket \in Seq(BucketRec) /\ docMeta \in Seq(Meta)
      /\ owner \in [Chunk -> Shard]
    BY LenProperties DEF CatInv, TypeOK
<1>3. ASSUME NEW m \in Meta, Insert(m) PROVE ViewInv'
    <2> DEFINE s == owner[ChunkOf(m)]
               d == Len(docMeta) + 1
               k == open[s][m]
    <2>1. /\ s \in Shard /\ d \in 1..MaxDocs
          /\ docMeta' = Append(docMeta, m)
          /\ UNCHANGED owner
        BY <1>2, <1>3, ChunkOfType, BoundsAssumption DEF Insert
    <2>2. /\ Len(docMeta') = d /\ docMeta'[d] = m
          /\ \A x \in 1..Len(docMeta) : docMeta'[x] = docMeta[x]
        BY <1>2, <2>1, AppendProperties
    <2>3. CASE k # NoBucket
        <3>1. k \in DOMAIN bucket /\ bucket[k].meta = m
            BY <1>2, <2>1, <2>2, <2>3 DEF CatInv, TypeOK, OpenShape, NoBucket
        <3>2. bucket' = [bucket EXCEPT ![k] = AddDoc(bucket[k], d)]
            BY <1>3, <2>3 DEF Insert, NoBucket
        <3>3. /\ DOMAIN bucket' = DOMAIN bucket
              /\ bucket'[k] = AddDoc(bucket[k], d)
              /\ \A i \in DOMAIN bucket \ {k} : bucket'[i] = bucket[i]
            BY <3>1, <3>2
        <3>4. /\ bucket'[k].shard = bucket[k].shard
              /\ bucket'[k].meta = bucket[k].meta
              /\ bucket'[k].docs = bucket[k].docs \cup {d}
            BY <1>2, <2>1, <2>2, <3>1, <3>3, AddDocFacts, ElementOfSeq
        <3>5. Placed'
            BY <2>1, <2>2, <3>3, <3>4 DEF Placed
        <3>6. DocsKnown'
            <4> SUFFICES ASSUME NEW i \in DOMAIN bucket, NEW x \in bucket'[i].docs
                         PROVE  x \in 1..Len(docMeta') /\ docMeta'[x] = bucket'[i].meta
                BY <3>3 DEF DocsKnown
            <4>1. CASE i = k /\ x = d
                BY <2>1, <2>2, <3>1, <3>4, <4>1
            <4>2. CASE ~(i = k /\ x = d)
                <5>1. x \in bucket[i].docs /\ bucket'[i].meta = bucket[i].meta
                    BY <3>3, <3>4, <4>2
                <5>. QED
                    BY <1>2, <2>1, <2>2, <5>1 DEF DocsKnown
            <4>. QED
                BY <4>1, <4>2
        <3>7. DocsStored'
            <4> SUFFICES ASSUME NEW x \in 1..Len(docMeta')
                         PROVE  \E i \in DOMAIN bucket' : x \in bucket'[i].docs
                BY DEF DocsStored
            <4>1. CASE x = d
                BY <3>1, <3>3, <3>4, <4>1
            <4>2. CASE x # d
                <5>1. PICK i \in DOMAIN bucket : x \in bucket[i].docs
                    BY <1>2, <2>1, <2>2, <4>2 DEF DocsStored
                <5>. QED
                    BY <3>3, <3>4, <5>1
            <4>. QED
                BY <4>1, <4>2
        <3>. QED
            BY <1>1, <3>5, <3>6, <3>7
    <2>4. CASE k = NoBucket
        <3> DEFINE N   == Len(bucket) + 1
                   new == [meta |-> m, shard |-> s, docs |-> {d}]
        <3>1. bucket' = Append(bucket, new)
            BY <1>3, <2>4 DEF Insert, NoBucket
        <3>2. /\ DOMAIN bucket' = DOMAIN bucket \cup {N}
              /\ bucket'[N] = new
              /\ \A i \in DOMAIN bucket : bucket'[i] = bucket[i]
            BY <1>2, <3>1, AppendProperties, LenProperties
        <3>3. Placed'
            BY <2>1, <2>2, <3>2 DEF Placed
        <3>4. DocsKnown'
            BY <1>2, <2>1, <2>2, <3>2 DEF DocsKnown
        <3>5. DocsStored'
            BY <1>2, <2>1, <2>2, <3>2 DEF DocsStored
        <3>. QED
            BY <1>1, <3>3, <3>4, <3>5
    <2>. QED
        BY <2>3, <2>4
<1>4. ASSUME NEW c \in Chunk, NEW r \in Shard, MoveChunk(c, r) PROVE ViewInv'
    <2> DEFINE from  == owner[c]
               moved == BucketsOfChunk(c, from)
    <2>1. /\ DOMAIN bucket' = DOMAIN bucket
          /\ \A i \in DOMAIN bucket :
                bucket'[i] = IF i \in moved THEN Relocate(bucket[i], r) ELSE bucket[i]
          /\ owner' = [owner EXCEPT ![c] = r]
          /\ UNCHANGED docMeta
        BY <1>4 DEF MoveChunk
    <2>2. ASSUME NEW i \in DOMAIN bucket
          PROVE  /\ bucket[i] \in BucketRec
                 /\ bucket[i].meta \in Meta
                 /\ ChunkOf(bucket[i].meta) \in Chunk
                 /\ i \in moved <=> bucket[i].meta \in c /\ bucket[i].shard = from
        <3>1. bucket[i] \in BucketRec /\ bucket[i].meta \in Meta
            BY BucketFields DEF CatInv
        <3>2. ChunkOf(bucket[i].meta) \in Chunk
            BY <3>1, ChunkOfType
        <3>. QED
            BY <3>1, <3>2 DEF BucketsOfChunk
    <2>3. \A i \in DOMAIN bucket :
            /\ bucket'[i].meta = bucket[i].meta
            /\ bucket'[i].docs = bucket[i].docs
            /\ bucket'[i].shard = IF i \in moved THEN r ELSE bucket[i].shard
        BY <2>1, <2>2, RelocateFacts
    <2>4. Placed'
        <3> SUFFICES ASSUME NEW i \in DOMAIN bucket
                     PROVE  bucket'[i].shard = owner'[ChunkOf(bucket'[i].meta)]
            BY <2>1 DEF Placed
        <3>1. CASE bucket[i].meta \in c
            <4>1. ChunkOf(bucket[i].meta) = c
                BY <2>2, <3>1, ChunkOfUnique
            <4>2. i \in moved
                BY <2>2, <3>1, <4>1 DEF Placed
            <4>. QED
                BY <1>2, <2>1, <2>3, <4>1, <4>2
        <3>2. CASE bucket[i].meta \notin c
            <4>1. ChunkOf(bucket[i].meta) # c /\ i \notin moved
                BY <2>2, <3>2, ChunkOfType
            <4>. QED
                BY <1>2, <2>1, <2>2, <2>3, <4>1 DEF Placed
        <3>. QED
            BY <3>1, <3>2
    <2>5. DocsKnown' /\ DocsStored'
        BY <2>1, <2>3 DEF DocsKnown, DocsStored
    <2>. QED
        BY <1>1, <2>4, <2>5
<1>5. CASE WorkloadDone \/ UNCHANGED vars
    BY <1>1, <1>5 DEF WorkloadDone, vars, Placed, DocsKnown, DocsStored
<1>. QED
    BY <1>3, <1>4, <1>5 DEF Next

\* The view invariant holds in every reachable state.
LEMMA ViewInvHolds == Spec => []ViewInv
BY InitViewInv, NextViewInv, PTL DEF Spec

-----------------------------------------------------------------------------
(***************************************************************************)
(* What the queries return.  Since every bucket lives on the owner of its  *)
(* chunk, no query filters a bucket away as an orphan, and the queries     *)
(* read the measurements of all buckets (of meta value m).                 *)
(***************************************************************************)
LEMMA OwnedBucketsAreAll ==
    ASSUME ViewInv
    PROVE  /\ {j \in DOMAIN bucket : bucket[j].shard = owner[ChunkOf(bucket[j].meta)]}
                = DOMAIN bucket
           /\ \A m \in Meta :
                {j \in DOMAIN bucket :
                    bucket[j].meta = m /\ bucket[j].shard = owner[ChunkOf(m)]}
                = {j \in DOMAIN bucket : bucket[j].meta = m}
BY DEF ViewInv, Placed

LEMMA FindsFromViewInv ==
    ASSUME ViewInv
    PROVE  FindsEveryDocument
<1>1. FindAll = UNION {bucket[i].docs : i \in DOMAIN bucket}
    BY OwnedBucketsAreAll DEF FindAll
<1>2. FindAll = 1..Len(docMeta)
    BY <1>1 DEF ViewInv, DocsKnown, DocsStored
<1>3. ASSUME NEW m \in Meta
      PROVE  FindByShardKey(m) = {d \in 1..Len(docMeta) : docMeta[d] = m}
    <2>1. FindByShardKey(m) =
            UNION {bucket[i].docs : i \in {j \in DOMAIN bucket : bucket[j].meta = m}}
        BY OwnedBucketsAreAll DEF FindByShardKey
    <2>. QED
        BY <2>1 DEF ViewInv, DocsKnown, DocsStored
<1>. QED
    BY <1>2, <1>3 DEF FindsEveryDocument

\* Every inserted measurement is found, by find({}) and by the query on its
\* shard key, after any sequence of inserts and migrations (checked by TLC
\* as FindsEveryDocument).
THEOREM EveryDocumentFound == Spec => []FindsEveryDocument
BY ViewInvHolds, FindsFromViewInv, PTL

=============================================================================
