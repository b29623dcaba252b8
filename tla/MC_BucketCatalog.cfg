CONSTANTS
    Shard = {s1, s2}
    Primary = s1
    Meta = {0, 1}
    Chunk <- MCChunk
    MaxDocs = 4
    MaxMoves = 3
SPECIFICATION Spec
INVARIANTS
    TypeOK
    FindsEveryDocument
    OneLiveBucketPerKey
PROPERTIES
    MigratedBucketsFrozen
