------------------------- MODULE MC_BucketCatalog -------------------------
(***************************************************************************)
(* A small instance of BucketCatalog: two shards, two meta values each in  *)
(* a chunk of its own (the test's split point separates them).             *)
(***************************************************************************)
EXTENDS BucketCatalog

MCChunk == {{0}, {1}}
=============================================================================
