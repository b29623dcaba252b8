--------------------------- MODULE BucketCatalog ---------------------------
(***************************************************************************)
(* Inserts into a sharded time-series collection and chunk migration, as   *)
(* exercised by jstests/sharding/timeseries_insert.js.                     *)
(*                                                                         *)
(* Every shard keeps an in-memory bucket catalog: for each meta value the  *)
(* open bucket that new measurements with that meta join.  The buckets     *)
(* themselves are documents of system.buckets.<coll>, sharded by chunks of *)
(* the shard key.  An insert is routed to the shard owning the chunk of    *)
(* its meta value; it joins that shard's open bucket for the meta, or      *)
(* opens a new one.  moveChunk copies the chunk's buckets to the recipient *)
(* and deletes them on the donor; the recipient's catalog does not know    *)
(* them, so a migrated bucket never takes another measurement and later    *)
(* inserts open fresh buckets on the recipient.                            *)
(*                                                                         *)
(* The shard key of the test is the meta field, the time field or both;    *)
(* in the test a document's time is a function of its meta value, so the  *)
(* chunk of a document is a function of its meta value: ChunkOf.           *)
(***************************************************************************)
EXTENDS Naturals, Sequences, FiniteSets

CONSTANTS
    Shard,      \* the shards of the cluster
    Primary,    \* the database's primary shard, where every chunk starts
    Meta,       \* the meta values (hostid in the test)
    Chunk,      \* the chunks: a partition of Meta
    MaxDocs,    \* bound on the number of inserted measurements
    MaxMoves    \* bound on the number of moveChunk commands

ASSUME PrimaryAssumption == Primary \in Shard
ASSUME ChunkAssumption ==
    /\ Chunk \subseteq SUBSET Meta
    /\ UNION Chunk = Meta
    /\ \A c1, c2 \in Chunk : c1 # c2 => c1 \cap c2 = {}
ASSUME BoundsAssumption == MaxDocs \in Nat /\ MaxMoves \in Nat

\* The chunk a meta value belongs to.
ChunkOf(m) == CHOOSE c \in Chunk : m \in c

\* Bucket ids are positions in the bucket sequence; 0 is "no bucket".
NoBucket == 0

VARIABLES
    owner,      \* the shard owning each chunk (the routing table)
    bucket,     \* the buckets: meta value, shard holding it, measurements
    open,       \* each shard's catalog: the open bucket per meta value
    docMeta,    \* the inserted measurements: docMeta[d] is the meta of d
    moves,      \* the number of moveChunk commands so far
    migrated    \* history: the buckets that have been moved by a migration

vars == <<owner, bucket, open, docMeta, moves, migrated>>

BucketRec == [meta : Meta, shard : Shard, docs : SUBSET (1..MaxDocs)]

\* A bucket after measurement d joins it.
AddDoc(b, d) == [b EXCEPT !.docs = @ \cup {d}]

\* A bucket after its migration to shard r.
Relocate(b, r) == [b EXCEPT !.shard = r]

-----------------------------------------------------------------------------
Init ==
    /\ owner = [c \in Chunk |-> Primary]
    /\ bucket = <<>>
    /\ open = [s \in Shard |-> [m \in Meta |-> NoBucket]]
    /\ docMeta = <<>>
    /\ moves = 0
    /\ migrated = {}

\* Mutant: a new bucket is not registered in the shard's catalog.
InsertUnregistered(m) ==
    LET s == owner[ChunkOf(m)]
        d == Len(docMeta) + 1
    IN  /\ Len(docMeta) < MaxDocs
        /\ docMeta' = Append(docMeta, m)
        /\ \/ /\ open[s][m] # NoBucket
              /\ bucket' = [bucket EXCEPT ![open[s][m]] = AddDoc(@, d)]
              /\ UNCHANGED open
           \/ /\ open[s][m] = NoBucket
              /\ bucket' = Append(bucket, [meta |-> m, shard |-> s, docs |-> {d}])
              /\ UNCHANGED open
        /\ UNCHANGED <<owner, moves, migrated>>

\* Mutant: the new bucket's id is recorded one too high.
InsertOffByOne(m) ==
    LET s == owner[ChunkOf(m)]
        d == Len(docMeta) + 1
    IN  /\ Len(docMeta) < MaxDocs
        /\ docMeta' = Append(docMeta, m)
        /\ \/ /\ open[s][m] # NoBucket
              /\ bucket' = [bucket EXCEPT ![open[s][m]] = AddDoc(@, d)]
              /\ UNCHANGED open
           \/ /\ open[s][m] = NoBucket
              /\ bucket' = Append(bucket, [meta |-> m, shard |-> s, docs |-> {d}])
              /\ open' = [open EXCEPT ![s][m] = Len(bucket) + 2]
        /\ UNCHANGED <<owner, moves, migrated>>

\* Insert one measurement with meta value m.  mongos routes it to the
\* owner of its chunk; that shard's catalog either has an open bucket for
\* m, which the measurement joins, or opens a new bucket for it.
Insert(m) ==
    LET s == owner[ChunkOf(m)]
        d == Len(docMeta) + 1
    IN  /\ Len(docMeta) < MaxDocs
        /\ docMeta' = Append(docMeta, m)
        /\ \/ /\ open[s][m] # NoBucket
              /\ bucket' = [bucket EXCEPT ![open[s][m]] = AddDoc(@, d)]
              /\ UNCHANGED open
           \/ /\ open[s][m] = NoBucket
              /\ bucket' = Append(bucket, [meta |-> m, shard |-> s, docs |-> {d}])
              /\ open' = [open EXCEPT ![s][m] = Len(bucket) + 1]
        /\ UNCHANGED <<owner, moves, migrated>>

\* The buckets of chunk c held by shard s.
BucketsOfChunk(c, s) ==
    {i \in DOMAIN bucket : bucket[i].meta \in c /\ bucket[i].shard = s}

\* Mutant: the donor's catalog keeps its open buckets of the moved chunk.
MoveChunkKeepsCatalog(c, r) ==
    LET from  == owner[c]
        moved == BucketsOfChunk(c, from)
    IN  /\ moves < MaxMoves
        /\ r # from
        /\ bucket' = [i \in DOMAIN bucket |->
                        IF i \in moved THEN Relocate(bucket[i], r)
                        ELSE bucket[i]]
        /\ owner' = [owner EXCEPT ![c] = r]
        /\ moves' = moves + 1
        /\ migrated' = migrated \cup moved
        /\ UNCHANGED <<docMeta, open>>

\* Mutant: only the buckets open in the donor's catalog are moved.
MoveChunkOpenOnly(c, r) ==
    LET from  == owner[c]
        moved == {i \in BucketsOfChunk(c, from) : i = open[from][bucket[i].meta]}
    IN  /\ moves < MaxMoves
        /\ r # from
        /\ bucket' = [i \in DOMAIN bucket |->
                        IF i \in moved THEN Relocate(bucket[i], r)
                        ELSE bucket[i]]
        /\ open' = [open EXCEPT ![from] =
                      [m \in Meta |-> IF m \in c THEN NoBucket ELSE open[from][m]]]
        /\ owner' = [owner EXCEPT ![c] = r]
        /\ moves' = moves + 1
        /\ migrated' = migrated \cup moved
        /\ UNCHANGED docMeta

\* moveChunk of c to shard r, with _waitForDelete: the chunk's buckets are
\* copied to r and deleted from the donor, whose catalog forgets them; the
\* recipient's catalog is not told about them, and the routing table now
\* sends c to r.
MoveChunk(c, r) ==
    LET from  == owner[c]
        moved == BucketsOfChunk(c, from)
    IN  /\ moves < MaxMoves
        /\ r # from
        /\ bucket' = [i \in DOMAIN bucket |->
                        IF i \in moved THEN Relocate(bucket[i], r)
                        ELSE bucket[i]]
        /\ open' = [open EXCEPT ![from] =
                      [m \in Meta |-> IF m \in c THEN NoBucket ELSE open[from][m]]]
        /\ owner' = [owner EXCEPT ![c] = r]
        /\ moves' = moves + 1
        /\ migrated' = migrated \cup moved
        /\ UNCHANGED docMeta

\* The workload, like the test's, is finite: it ends once every insert and
\* every moveChunk it may issue has been issued.
WorkloadDone ==
    /\ Len(docMeta) = MaxDocs
    /\ moves = MaxMoves
    /\ UNCHANGED vars

Next ==
    \/ \E m \in Meta : Insert(m)
    \/ \E c \in Chunk, r \in Shard : MoveChunk(c, r)
    \/ WorkloadDone

Spec == Init /\ [][Next]_vars

-----------------------------------------------------------------------------
(***************************************************************************)
(* Queries                                                                 *)
(***************************************************************************)

\* A query with the shard key of meta value m is routed to the owner of
\* m's chunk and reads the buckets of m there.
FindByShardKey(m) ==
    UNION {bucket[i].docs : i \in {j \in DOMAIN bucket :
              bucket[j].meta = m /\ bucket[j].shard = owner[ChunkOf(m)]}}

\* find({}) reads every shard, each returning only the buckets of chunks it
\* owns (orphans are filtered).
FindAll ==
    UNION {bucket[i].docs : i \in {j \in DOMAIN bucket :
              bucket[j].shard = owner[ChunkOf(bucket[j].meta)]}}

-----------------------------------------------------------------------------
(***************************************************************************)
(* Properties                                                              *)
(***************************************************************************)

TypeOK ==
    /\ owner \in [Chunk -> Shard]
    /\ bucket \in Seq(BucketRec)
    /\ open \in [Shard -> [Meta -> 0..Len(bucket)]]
    /\ docMeta \in Seq(Meta)
    /\ Len(docMeta) <= MaxDocs
    /\ moves \in 0..MaxMoves
    /\ migrated \subseteq DOMAIN bucket

\* Once a bucket has been moved by a migration it never takes another
\* measurement, on whichever shard it lives and however often its chunk
\* moves again (the test's "migrated buckets cannot be modified").
MigratedBucketsFrozen ==
    [][\A i \in migrated : bucket'[i].docs = bucket[i].docs]_vars

\* Every measurement ever inserted is returned by find({}) and by the
\* query on its shard key, after any sequence of inserts and migrations.
FindsEveryDocument ==
    /\ FindAll = 1..Len(docMeta)
    /\ \A m \in Meta : FindByShardKey(m) = {d \in 1..Len(docMeta) : docMeta[d] = m}

\* A shard holds at most one bucket per meta value that it opened itself
\* and that was never migrated: inserts join the open bucket instead of
\* opening another (the test's bucket counts per shard).
OneLiveBucketPerKey ==
    \A s \in Shard, m \in Meta :
        Cardinality({i \in DOMAIN bucket \ migrated :
                        bucket[i].shard = s /\ bucket[i].meta = m}) <= 1

=============================================================================
