# Time-series updates, sharded inserts and remote-wait accounting: TLA+ models

This directory holds TLA+ models of the behaviour exercised by three tests of
the repository:

- `src/jstests/core/timeseries/timeseries_update.js` covers multi-updates on a time-series collection.
- `src/jstests/sharding/timeseries_insert.js` covers inserts into a sharded time-series collection across chunk migration.
- `src/jstests/sharding/log_remote_op_wait.js` covers the `remoteOpWaitMillis` figure of the slow-query log.

The TLC configurations check the models on small instances. TLAPS proves the
main type and safety facts of the update model, the bucket catalog and the
remote-wait accounting for every value of their constants.

## Inventory of the system

| Part | State | Operations | Interacts with |
|---|---|---|---|
| Legality validator | none (pure check) | accept or reject a statement: `multi:false`, replacement or pipeline update, a field other than the metaField in the query or update, `$jsonSchema` naming other fields, `upsert:true`, collection without metaField | the update router |
| Predicate translator | none | rewrites a query on the metaField into a query on bucket `meta` | the update router, collation |
| Update router | the batch, its cursor, the reply (`n`, first error) | match the statement's buckets; write them one by one; stop (ordered) or go on (unordered) after a failure | the bucket store, migrations |
| Bucket catalog and migration | per-shard open bucket per meta; the buckets and the shard holding each; the routing table | insert a measurement; `moveChunk` with `_waitForDelete`; targeted and scatter `find` | mongos routing, the update router (a migrated bucket is immutable) |
| Array-filter evaluator | none | `$set`, `$inc` and `$unset` through `$[i]` filters on an array in the meta | the update router |
| Remote-wait accounting | the clock, the outstanding shard requests, the blocked interval, the accumulated wait, the log | begin a command, block on a missing response, take a response, end and log | the shards |

What makes these parts hard to test:

- A migration can make a bucket immutable between the moment an update matches the bucket and the moment it writes it. This race comes from the spec (§5); no test in `src/` drives an update against a migration.
- The statements of a batch chain: each one matches on the values written by the ones before it.
- Ordered and unordered batches report failures differently.
- A moved chunk leaves a stale catalog behind on the donor.
- Shard responses overlap while the merger is blocked.
- `$unset` through `$[i]` must leave a null in the array, never a hole in its positions.

## Modules

| Module | Models | Run by |
|---|---|---|
| `TimeseriesUpdate` | legality validator, abstracted predicate matching, update router, migrations racing the update | `MC_TimeseriesUpdate` |
| `TimeseriesUpdateProofs` | TLAPS proofs about `TimeseriesUpdate` | `tlapm` |
| `UpdateOutcomeProofs` | TLAPS proof that the batch's result is the sequential application of its legal statements | `tlapm` |
| `IntervalInduction` | the least-number principle and induction over an interval of naturals, stated for sets so that the provers can use them | `tlapm` |
| `ArrayFilters` | the array-filter evaluator: position resolution, `$set`/`$inc`/`$unset` through `$[i]`, queries on array meta | `MC_ArrayFilters` |
| `ArrayFiltersProofs` | TLAPS proofs that the evaluator meets its contract, keeps lengths, leaves nulls in place and keeps elements typed | `tlapm` |
| `BucketCatalog` | per-shard bucket catalogs, insert routing, `moveChunk`, queries | `MC_BucketCatalog` |
| `BucketCatalogProofs` | TLAPS proofs about `BucketCatalog`: types, one live bucket per key, frozen migrated buckets | `tlapm` |
| `BucketCatalogViewProofs` | TLAPS proofs of what queries see | `tlapm` |
| `RemoteOpWait` | the merging node's remote-wait accounting and its log line | `MC_RemoteOpWait` |
| `RemoteOpWaitProofs` | TLAPS proof of the logged-wait bound | `tlapm` |

### TimeseriesUpdate

**Data abstraction:**

- A bucket's meta value is a member of the small set `Meta`.
- A statement is a record. Its query is reduced to two things: the fields it names, which legality depends on, and the set of meta values it selects, which decides matching. This is where collation and `let` variables end up.
- Its update is reduced to three things:
  - its form: operators, replacement or pipeline;
  - the fields it writes;
  - the function it applies to the meta value.
- The statement also has its `multi` and `upsert` flags.
- A statement is legal when all of these hold: it is `multi:true`, the collection has a metaField, the query and the update touch only the metaField, the update is an operator update, and it is not an upsert. `Legal` is the conjunction of these conditions.

**State and actions.** The command's state is the batch (`updates`, `ordered`), the statement cursor `stmt`, a `phase` and the pending matched buckets. The reply is `n` and `failed`, the index of the first failed statement or 0. The actions are:

- `MatchStatement` evaluates the query on the *current* meta values.
- `RejectStatement` fails an illegal statement. An ordered batch then stops. An unordered batch goes on with the next statement.
- `ApplyBucket` writes one matched bucket. It re-checks that the bucket is still mutable at the write.
- `SkipImmutable` drops a bucket that has become immutable.
- `EndStatement` moves on to the next statement.
- `Finish` replies.
- `Migrate` is the environment: a chunk migration makes a bucket immutable at any moment.

The ghost variables `meta0`, `ran` and `writes` record history for the properties.

### ArrayFilters

This module models the arrayDoc tests (`timeseries_update.js` lines 702–788).

**Data.** A bucket's meta is an array. Each element is a tagged variant: a number, a sub-document `{a, c}`, or the `Null` placeholder.

**Statements.** A statement has three parts:
- a query: comparisons on the metaField. An array matches a comparison when one of its elements does.
- a modifier at `$[i]`: `$set`, `$set` of sub-field `c`, `$inc`, or `$unset`.
- an array filter: comparisons on the element or on its field `a`, combined by `$and` or `$or`.

**Comparison.** Comparison follows the query language's type bracketing: a number compares only with a number. Null, a missing field and a sub-document never satisfy `$gt`, `$gte` or `$lt`.

**Evaluator.** `ApplyArrayFilter` resolves the positions on the array as it was before the statement. It then rewrites them one at a time, in index order, as a recursive function over the index. `$unset` writes `Null` at the position.

**Actions.**
- `Update(s)` applies one `multi:true` statement to every bucket its query selects.
- `Done` ends the batch.

### BucketCatalog

**State:**

- `owner` is the routing table, from chunk to shard.
- `bucket` is the sequence of buckets: meta, shard and measurement ids.
- `open` is each shard's catalog, from meta value to its open bucket.
- `docMeta` holds the inserted measurements.
- `moves` counts the migrations.
- `migrated` is a history variable: the buckets some migration has moved.

**Actions:**

- `Insert(m)` routes to `owner[ChunkOf(m)]`. There it joins the open bucket or opens and registers a new one.
- `MoveChunk(c, r)` moves every bucket of `c` held by the donor to `r`. The donor's catalog forgets the chunk. The recipient's catalog is not told of the moved buckets, so they never take another measurement. Then the routing table changes.

**Queries:**

- `FindByShardKey` is a targeted query.
- `FindAll` is a scatter query that filters out orphans.

### RemoteOpWait

A merging node runs one command at a time.

- `Begin(c)` sends the command to both shards and resets the wait.
- `Block` is the merger waiting on a missing result.
- `Respond(s)` is one shard's response. If the merger was blocked, it wakes up and adds the time it was blocked.
- `Tick` advances a millisecond clock.
- `End` logs `remoteOpWaitMillis`, which is present only for aggregate, getMore, change streams and `$mergeCursors`, together with the duration.

## Runs

| Run | Checks | Shows |
|---|---|---|
| `update_core` | `TypeOK`, `SequentialOutcome`, `ReplyIsExact`, `RequestTerminates` | Batches of up to 3 statements are legal or illegal, ordered or unordered, over two buckets that may migrate at any point. They produce the result of applying the legal statements in order, and the reply holds the exact count and the first failure. The request always replies. |
| `catalog_migration` | `TypeOK`, `FindsEveryDocument`, `OneLiveBucketPerKey`, `MigratedBucketsFrozen` | Up to 4 inserts interleave with up to 3 migrations between two shards. No measurement is lost to either query kind. A migrated bucket never takes a measurement. No shard opens two live buckets for a meta value. |
| `array_filters` | `TypeOK` | Chains of up to three arrayFilters statements run on two buckets, each holding any short array of numbers or sub-documents. The statements are the four from the test plus a `$set` on small numbers. Every meta array stays an array of elements whose positions are `1..n`: `$unset` leaves a null in place and never a hole. |
| `remote_op_wait` | `TypeOK`, `RemoteWaitWithinDuration` | Two commands of any kind, whose shard responses arrive in any order relative to blocking, log a remote wait that is within the duration, and they log it only for aggregations. |

**Why these bounds are enough:**

- **`update_core`: two buckets, two meta values, six statement kinds, batches of up to three.**
  - A statement can match both buckets.
  - A migration can fall between the writes to the two buckets.
  - A chained statement can see an earlier statement's write: "0→1" followed by "1→0" differs from the snapshot result.
  - An illegal statement can sit between two legal ones, in both ordered and unordered batches.
- **`catalog_migration`: two shards, two chunks, three moves.**
  - A chunk can move away and back. That is the case where a stale donor catalog would reuse a migrated bucket.
  - Four inserts place measurements before and after each move.
- **`array_filters`: two buckets, arrays of length up to 3 over {1, 4, 7, 11} or up to 2 sub-documents, up to three statements.**
  - Every filter of the test selects some element and skips another.
  - 7 is the element the test's `$unset` filter (`i < 5` or `i > 10`) leaves between unset positions, as in `[null, null, 7, null, null]`. Without it every position would be unset and no hole could appear.
- **`remote_op_wait`: clock bound 4, two shards, two commands.**
  - Blocking can happen before, between and after the two responses.
  - A second command can inherit the first command's wait.

Every mutant listed in `PROJECT.json` makes its run fail. These are the plausible code errors:

- a match on stale values;
- an ordered batch that goes on after a failure;
- an unordered batch that gets stuck on the failed statement;
- a failure index that is off by one;
- a new bucket that is never registered;
- a bucket id that is off by one;
- a donor catalog that is not cleared;
- a migration that moves only the open buckets;
- a remote wait that is not reset;
- an `$unset` that deletes the array's key, as for a document field, and leaves a hole;
- a block start that is stamped late.

**Fairness.** `TimeseriesUpdate` assumes weak fairness of `Process`, the update command's own steps. The command runs on one thread that loops over statements and buckets until it replies. Nothing in it waits on another actor: a migration only makes a bucket immutable, and the command then skips that bucket. Migrations get no fairness. `RequestTerminates` is the only liveness property. The other modules have no liveness properties and no fairness.

## Proofs (checked by `tlapm`)

### `TimeseriesUpdateProofs`

- **`TypeCorrect`: `Spec => []TypeOK`.**
  - `TypeOK` alone is not inductive. A write records `<<stmt, b>>`, which is typed only because in the `apply` phase `stmt` indexes an existing statement.
  - The inductive invariant `TypeInv` adds `phase = "apply" => stmt <= Len(updates)`.
  - The lemma `BatchIsSeq` shows that a batch drawn by `Init` is a sequence of length 1..`MaxStmts`.
- **`CountIsBucketWrites`: `Spec => [](n = Cardinality(writes))`.**
  - This is the count part of `ReplyIsExact`.
  - The inductive invariant `CountInv` states four things:
    - `writes` is finite;
    - every write belongs to a statement no later than `stmt`, and one strictly earlier outside the `apply` phase;
    - no pending bucket has already been written by the current statement;
    - so each `ApplyBucket` adds a new pair, and the cardinality grows by exactly one (`FS_AddElement`).

- **`ReplyExact`: `Spec => []ReplyIsExact`.**
  - The inductive invariant `ReplyInv` ties `ran`, `failed` and `ordered` to the legality of the statements examined so far.
    - In the `apply` phase, the current statement is legal.
    - `ran` is the set of legal statements before `stmt`, plus `stmt` while it is being applied.
    - An ordered batch is `done` only at its end or at an illegal statement, and every statement before `stmt` was legal.
    - If `failed = 0`, every statement examined is legal. Otherwise `failed` is an examined illegal statement, and every statement before it is legal.
  - Keeping `failed` as the witness of the first illegal statement avoids an argument about the least element of a set.
  - `ReplyFromInv` then derives the reply clauses, and `CountInv` gives the count.
  - TLC checked `ReplyInv` on the `update_core` instance before it was proved.

The proofs rest on the assumptions `StmtAssumption`, `MaxStmtsAssumption` and `BucketAssumption`. TLC evaluates these on every run.

### `IntervalInduction` and `UpdateOutcomeProofs`

The library's induction theorems take a predicate as an operator parameter, which the installed provers cannot instantiate. `IntervalInduction` restates induction for a set instead:

- `LeastNat`: a non-empty set of naturals has a least element. It comes from `WFMin` and `NatLessThanWellFounded` of `WellFoundedInduction`.
- `IntervalInduct`: a set that contains `a` and, with `k - 1`, each `k` of `(a+1)..N`, contains `a..N`. The least element outside the set would have its predecessor inside.

A proof uses it by naming the set of indices where the claim holds, `{k \in 0..N : ...}`.

- **`SequentialOutcomeHolds`: `Spec => []SequentialOutcome`**, for batches of any length and any interleaving of migrations.
  - `SequentialMeta` is a recursive function over the statements. TLAPS reads it as the `CHOOSE` of a function satisfying its equation (`SequentialIsChoose`).
  - `SeqEq(g, b)` is that equation over the current `ran`.
  - Its solutions are unique (`SeqUnique`), and constant past the last statement that ran (`SeqTail`). Both follow from `IntervalInduct`.
  - The inductive invariant `OutInv == TypeInv /\ RanBound /\ SeqInv` has three parts:
    - `RanBound`: `ran` holds only statements already processed, the current one included while it is applied.
    - `SeqInv`: every mutable bucket has some solution `g` of the equation whose value at the last processed statement is the bucket's meta.
    - While the current statement is applied, a still-pending bucket carries the value before it, and the statement matches it (`CurOK`).
  - A step of `MatchBuckets` or `ApplyBucket` extends `g` with an explicit witness `[k |-> IF k < stmt THEN g[k] ELSE v]` (`MatchSeqInv`). A migration only removes a bucket from the quantifier.
  - At the reply, uniqueness identifies `g` with `SequentialMeta`.
  - TLC checked the invariant first, with the reference function as the witness: 135,356 distinct states on the `update_core` instance.

### `BucketCatalogProofs`

- **`CatalogTypeCorrect`: `Spec => []TypeOK`.**
  - `ChunkOfType` shows that `ChunkOf` picks a chunk containing the meta value. It follows from `ChunkAssumption`: the chunks cover `Meta`.
  - `AddDocFacts` and `RelocateFacts` state what the two record updates keep. Zenon proves them, because the SMT backend does not take record `EXCEPT`.
- **`OneLiveBucket`: `Spec => []OneLiveBucketPerKey`**, and **`MigratedBucketsStayFrozen`: `Spec => MigratedBucketsFrozen`.**
  - Both rest on the inductive invariant `CatInv == TypeOK /\ OpenShape /\ LiveOpen`.
  - `OpenShape`: a shard's catalog entry for `m` points at a bucket on that shard, with meta `m`, that was never migrated.
  - `LiveOpen`: every bucket that was never migrated is its shard's entry for its meta value.
  - The invariants themselves are not inductive. An insert that opens a bucket needs `LiveOpen` to know that no other live bucket has the same key. A migration needs `OpenShape` to know that the entries it keeps point at buckets it does not move.
  - From `LiveOpen`, the live buckets of a key form a subset of `{open[s][m]}`, so there is at most one (`FS_Subset`). From `OpenShape`, an insert never joins a migrated bucket.

### `BucketCatalogViewProofs`

- **`EveryDocumentFound`: `Spec => []FindsEveryDocument`.**
  - The inductive invariant is `ViewInv == CatInv /\ Placed /\ DocsKnown /\ DocsStored`.
  - `Placed`: every bucket sits on the shard that owns its meta value's chunk. A migration moves exactly the buckets of the chunk it hands over, so this survives every `MoveChunk`.
  - `DocsKnown`: every document id in a bucket is an inserted document with the bucket's meta value.
  - `DocsStored`: every inserted document is in some bucket.
  - The query routed to the owner of a key's chunk therefore sees all the buckets of that key (`OwnedBucketsAreAll`), and `find({})` sees every document.
  - TLC checked `ViewInv` on the `catalog_migration` instance before it was proved.

### `ArrayFiltersProofs`

- **The evaluator meets its contract** (`EvaluatorMeetsContract`, a lemma). `ContractResult`, defined in this module, is the test's `resultDocList` as a positional map. The claim is `ApplyArrayFilter(arr, s) = ContractResult(arr, s)`, for every statement and every array of any length. The proof has three parts:
  - TLAPS reads the evaluator's loop `upto` as the `CHOOSE` of a function satisfying its defining equation (`ApplyIsChoose`).
  - Such a function exists for every length. `Partial(arr, s, k)`, the array with its first `k` positions rewritten as the contract says, satisfies the equation (`PartialStep`, `PartialIsUpto`). This needs no induction.
  - Two functions satisfying the equation agree at `Len(arr)` (`UptoUnique`). This is by `IntervalInduct` over the set of positions where they agree.
- **`ArrayTypeCorrect`: `IncSelectsNumbers => (Spec => []TypeOK)`.**
  - `IncSelectsNumbers` says every element an `$inc` statement's filter selects is a number. `$inc` of a sub-document or a null is a type error that the server reports and the model leaves out (see Not modelled). Without the hypothesis, `Modify` reads the field `v` that only a number has.
  - The test's `$inc` filter `{i: {$gt: 6, $lt: 15}}` is an `$and` of comparisons of the element itself, which only a number satisfies. The other statements are unrestricted.
  - `ModifyInElem` and `ContractInElem` show that a statement maps sequences of elements to sequences of elements. With the lemma above, so does the evaluator.
  - The inductive invariant `TInv` says every meta array is a sequence of elements. `SeqIsArray` turns that into `TypeOK`'s form, `meta[b] \in [1..Cardinality(DOMAIN meta[b]) -> Elem]`, which TLC can evaluate on a function with a hole where `Seq(Elem)` cannot.
  - Proving this exposed an overlap in `Modify`'s `CASE`: a `$set` of the element also satisfied the guard of the `$set` of field `c`. The guard now names field `"c"`. TLC evaluated the first arm either way, so no run changed.

### `RemoteOpWaitProofs`

- **`RemoteWaitBounded`: `Spec => []RemoteWaitWithinDuration`**, for any set of shards and any response order.
  - The inductive invariant adds `WaitBound` to the log property.
  - While a command runs, its accumulated wait plus the interval it is currently blocked in is at most `now - start`.
  - Between commands nothing is outstanding and the merger is not blocked.
  - `End` logs only when the merger is not blocked, so the logged wait is at most the duration.

**Only model-checked:**

- `RequestTerminates`, because the provers do not handle liveness.
- `TypeOK` of `ArrayFilters` without the hypothesis `IncSelectsNumbers`. The `array_filters` run checks it for the test's statements.
- `TypeOK` of `RemoteOpWait` is proved only as part of the inductive invariant; `RemoteWaitBounded` is the listed theorem.

## Not modelled

- The textual predicate rewriting, collation and `let` substitution. They are abstracted to the set of meta values a query selects.
- Modifier type errors, such as `$inc` on a non-number or `$set` of a field of a number. The test never triggers them, and under type bracketing the test's filters never resolve such an element.
- Bucket roll-over by time span or size.
- The clone, catch-up and commit phases of a migration. The test runs `moveChunk` synchronously, with `_waitForDelete`, and inserts only afterwards, and the spec leaves the migration orchestrator outside its scope.
- Stale mongos routing and its retry. The test inserts through the mongos that ran `moveChunk`, whose routing is fresh.
- Sub-millisecond rounding of `remoteOpWaitMillis` and the duration. The code that rounds them is not in the repository's sources.
- Log-line parsing and `explain()` shape checks. These are text processing.

## Plan

What is left that the sources support:

1. Compose the update router with the catalog, so that the update's immutability re-check is the recipient catalog's "not registered" rule.
2. Model the modifier type error (`$inc` of a non-number fails the statement) as an error path of the array-filter update, so that `IncSelectsNumbers` becomes part of the model rather than a hypothesis of `ArrayTypeCorrect`.
