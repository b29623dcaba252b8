-------------------------- MODULE TimeseriesUpdate --------------------------
(***************************************************************************)
(* The multi-update command on a time-series collection, as exercised by   *)
(* jstests/core/timeseries/timeseries_update.js.                           *)
(*                                                                         *)
(* A request carries an ordered list of update statements.  Each statement *)
(* is first checked for legality (multi:true, an update document, only the *)
(* metaField touched by query and update, no upsert, a collection that has *)
(* a metaField); an illegal statement fails with InvalidOptions and, in    *)
(* ordered mode, ends the request.  A legal statement matches every bucket *)
(* whose meta value satisfies its query and then rewrites the meta of each *)
(* matched bucket, one bucket at a time, counting one per bucket.          *)
(*                                                                         *)
(* Buckets may be migrated (made immutable) by the chunk migration at any  *)
(* moment, also between the match of a statement and the write of one of  *)
(* its buckets: a matched bucket that is immutable when its turn comes is  *)
(* skipped and not counted.                                                *)
(*                                                                         *)
(* Data is abstracted: a meta value is a member of the small set Meta, a   *)
(* query is the set of fields it names and the set of meta values it       *)
(* selects (collation and let-variables only change that set), an update   *)
(* is its form, the set of fields it touches and its effect on a meta      *)
(* value.                                                                  *)
(***************************************************************************)
EXTENDS Naturals, Sequences, FiniteSets

CONSTANTS
    Bucket,     \* identifiers of the buckets of the collection
    Meta,       \* the meta values a bucket can carry
    Stmt,       \* the update statements a request may carry
    MaxStmts    \* the longest update list of a request

\* The field names a query or an update can refer to: the metaField
\* ("tag" in the test), the timeField and a measurement field.
MetaField == "tag"
Field == {MetaField, "time", "measurement"}

\* An update is an update document ("ops", field operators such as $set),
\* a replacement document or an aggregation pipeline.
UpdateForm == {"ops", "replacement", "pipeline"}

StmtType ==
    [q      : [refs : SUBSET Field, sel : SUBSET Meta],
     u      : [form : UpdateForm, paths : SUBSET Field, f : [Meta -> Meta]],
     multi  : BOOLEAN,
     upsert : BOOLEAN]

ASSUME StmtAssumption == Stmt \subseteq StmtType
ASSUME MaxStmtsAssumption == MaxStmts \in Nat \ {0}
ASSUME BucketAssumption == IsFiniteSet(Bucket)

VARIABLES
    hasMetaField, \* the collection was created with a metaField
    meta,         \* meta value of each bucket
    mutable,      \* FALSE once the bucket has been migrated away
    updates,      \* the request's update list
    ordered,      \* the request's ordered flag
    stmt,         \* index of the statement being executed
    phase,        \* "next": about to validate updates[stmt]; "apply": writing
                  \* its matched buckets; "done": the reply has been sent
    pending,      \* matched buckets of the current statement not yet written
    n,            \* the reply's count of modified buckets
    failed,       \* index of the first failed statement, 0 if none
    \* history, kept only to state properties:
    meta0,        \* meta of every bucket when the request arrived
    ran,          \* indices of the statements that passed validation
    writes        \* the <<statement, bucket>> pairs that were written

vars == <<hasMetaField, meta, mutable, updates, ordered, stmt, phase,
          pending, n, failed, meta0, ran, writes>>

-----------------------------------------------------------------------------
(***************************************************************************)
(* Legality of a statement.  Every rule yields InvalidOptions.            *)
(***************************************************************************)

\* Only fields under the metaField may be named.
OnMetaField(fields) == fields \subseteq {MetaField}

\* The query, including the fields a $jsonSchema requires or describes.
LegalQuery(s) == OnMetaField(s.q.refs)

\* Update documents only; replacement documents (even {}) and pipelines
\* are refused, and so is any operator on a field outside the metaField.
LegalUpdate(s) == s.u.form = "ops" /\ OnMetaField(s.u.paths)

\* upsert:true is refused even when nothing matches.
NoUpsert(s) == ~s.upsert

\* A collection without a metaField accepts no update at all.
CollectionAcceptsUpdates == hasMetaField

Legal(s) ==
    /\ s.multi
    /\ CollectionAcceptsUpdates
    /\ LegalQuery(s)
    /\ LegalUpdate(s)
    /\ NoUpsert(s)

\* The query selects a bucket by its current meta value.
Matches(s, m) == m \in s.q.sel

-----------------------------------------------------------------------------
Batches == UNION {[1..k -> Stmt] : k \in 1..MaxStmts}

Init ==
    /\ hasMetaField \in BOOLEAN
    /\ meta \in [Bucket -> Meta]
    /\ mutable \in [Bucket -> BOOLEAN]
    /\ updates \in Batches
    /\ ordered \in BOOLEAN
    /\ stmt = 1
    /\ phase = "next"
    /\ pending = {}
    /\ n = 0
    /\ failed = 0
    /\ meta0 = meta
    /\ ran = {}
    /\ writes = {}

\* Mutant: the statement is matched against the meta values the request
\* found on arrival instead of the current ones.
MatchStatementStale ==
    /\ phase = "next"
    /\ stmt <= Len(updates)
    /\ Legal(updates[stmt])
    /\ pending' = {b \in Bucket : Matches(updates[stmt], meta0[b])}
    /\ phase' = "apply"
    /\ ran' = ran \cup {stmt}
    /\ UNCHANGED <<hasMetaField, meta, mutable, updates, ordered, stmt, n,
                   failed, meta0, writes>>

\* A legal statement matches every bucket, mutable or not, whose meta
\* value satisfies the query as it stands now (after earlier statements).
MatchStatement ==
    /\ phase = "next"
    /\ stmt <= Len(updates)
    /\ Legal(updates[stmt])
    /\ pending' = {b \in Bucket : Matches(updates[stmt], meta[b])}
    /\ phase' = "apply"
    /\ ran' = ran \cup {stmt}
    /\ UNCHANGED <<hasMetaField, meta, mutable, updates, ordered, stmt, n,
                   failed, meta0, writes>>

\* Mutant: the ordered flag is ignored, a failure never stops the batch.
RejectStatementIgnoresOrdered ==
    /\ phase = "next"
    /\ stmt <= Len(updates)
    /\ ~Legal(updates[stmt])
    /\ failed' = IF failed = 0 THEN stmt ELSE failed
    /\ phase' = "next" /\ stmt' = stmt + 1
    /\ UNCHANGED <<hasMetaField, meta, mutable, updates, ordered, pending, n,
                   meta0, ran, writes>>

\* Mutant: an unordered request does not move past a failed statement.
RejectStatementStuck ==
    /\ phase = "next"
    /\ stmt <= Len(updates)
    /\ ~Legal(updates[stmt])
    /\ failed' = IF failed = 0 THEN stmt ELSE failed
    /\ IF ordered
         THEN phase' = "done" /\ stmt' = stmt
         ELSE phase' = "next" /\ stmt' = stmt
    /\ UNCHANGED <<hasMetaField, meta, mutable, updates, ordered, pending, n,
                   meta0, ran, writes>>

\* Mutant: the failed statement's index is recorded one too high.
RejectStatementOffByOne ==
    /\ phase = "next"
    /\ stmt <= Len(updates)
    /\ ~Legal(updates[stmt])
    /\ failed' = IF failed = 0 THEN stmt + 1 ELSE failed
    /\ IF ordered
         THEN phase' = "done" /\ stmt' = stmt
         ELSE phase' = "next" /\ stmt' = stmt + 1
    /\ UNCHANGED <<hasMetaField, meta, mutable, updates, ordered, pending, n,
                   meta0, ran, writes>>

\* An illegal statement fails; an ordered request stops there, an
\* unordered one goes on with the next statement.  The reply reports the
\* first failure.
RejectStatement ==
    /\ phase = "next"
    /\ stmt <= Len(updates)
    /\ ~Legal(updates[stmt])
    /\ failed' = IF failed = 0 THEN stmt ELSE failed
    /\ IF ordered
         THEN phase' = "done" /\ stmt' = stmt
         ELSE phase' = "next" /\ stmt' = stmt + 1
    /\ UNCHANGED <<hasMetaField, meta, mutable, updates, ordered, pending, n,
                   meta0, ran, writes>>

\* A matched bucket that is still mutable gets the update applied to its
\* meta value and counts one, however many measurements it holds.
ApplyBucket(b) ==
    /\ phase = "apply"
    /\ b \in pending
    /\ mutable[b]
    /\ meta' = [meta EXCEPT ![b] = updates[stmt].u.f[meta[b]]]
    /\ n' = n + 1
    /\ writes' = writes \cup {<<stmt, b>>}
    /\ pending' = pending \ {b}
    /\ UNCHANGED <<hasMetaField, mutable, updates, ordered, stmt, phase,
                   failed, meta0, ran>>

\* A matched bucket that was migrated meanwhile is skipped silently.
SkipImmutable(b) ==
    /\ phase = "apply"
    /\ b \in pending
    /\ ~mutable[b]
    /\ pending' = pending \ {b}
    /\ UNCHANGED <<hasMetaField, meta, mutable, updates, ordered, stmt, phase,
                   n, failed, meta0, ran, writes>>

\* All matched buckets handled: go on with the next statement.
EndStatement ==
    /\ phase = "apply"
    /\ pending = {}
    /\ phase' = "next"
    /\ stmt' = stmt + 1
    /\ UNCHANGED <<hasMetaField, meta, mutable, updates, ordered, pending, n,
                   failed, meta0, ran, writes>>

\* Every statement handled: the reply is sent.
Finish ==
    /\ phase = "next"
    /\ stmt > Len(updates)
    /\ phase' = "done"
    /\ UNCHANGED <<hasMetaField, meta, mutable, updates, ordered, stmt,
                   pending, n, failed, meta0, ran, writes>>

\* The chunk migration takes a bucket away: it becomes immutable for good.
Migrate(b) ==
    /\ mutable[b]
    /\ mutable' = [mutable EXCEPT ![b] = FALSE]
    /\ UNCHANGED <<hasMetaField, meta, updates, ordered, stmt, phase,
                   pending, n, failed, meta0, ran, writes>>

\* The request's own steps, as opposed to the migration's.
Process ==
    \/ MatchStatement
    \/ RejectStatement
    \/ \E b \in Bucket : ApplyBucket(b) \/ SkipImmutable(b)
    \/ EndStatement
    \/ Finish

\* Once the reply is sent the request takes no more steps.
Terminated == phase = "done" /\ UNCHANGED vars

Next ==
    \/ Process
    \/ \E b \in Bucket : Migrate(b)
    \/ Terminated

Spec == Init /\ [][Next]_vars /\ WF_vars(Process)

-----------------------------------------------------------------------------
(***************************************************************************)
(* Properties                                                              *)
(***************************************************************************)

TypeOK ==
    /\ hasMetaField \in BOOLEAN
    /\ meta \in [Bucket -> Meta]
    /\ mutable \in [Bucket -> BOOLEAN]
    /\ updates \in Seq(Stmt)
    /\ ordered \in BOOLEAN
    /\ stmt \in 1..(Len(updates) + 1)
    /\ phase \in {"next", "apply", "done"}
    /\ pending \subseteq Bucket
    /\ n \in Nat
    /\ failed \in 0..Len(updates)
    /\ meta0 \in [Bucket -> Meta]
    /\ ran \subseteq 1..Len(updates)
    /\ writes \subseteq (1..Len(updates)) \X Bucket

\* The meta a bucket would carry if the statements that ran were applied
\* one after the other, each matched against the result of the previous.
SequentialMeta(b) ==
    LET r[k \in 0..Len(updates)] ==
          IF k = 0 THEN meta0[b]
          ELSE IF k \in ran /\ Matches(updates[k], r[k - 1])
               THEN updates[k].u.f[r[k - 1]]
               ELSE r[k - 1]
    IN  r[Len(updates)]

\* When the reply is sent, every bucket that is still mutable (and so was
\* mutable throughout) carries exactly the meta the sequential execution
\* of the executed statements gives it: a later statement sees the writes
\* of the earlier ones, and no bucket is written twice by one statement.
SequentialOutcome ==
    phase = "done" =>
        \A b \in Bucket : mutable[b] => meta[b] = SequentialMeta(b)

\* The statements that must have run: in ordered mode those before the
\* first illegal one, in unordered mode every legal one.
FirstIllegal ==
    IF \E k \in 1..Len(updates) : ~Legal(updates[k])
    THEN CHOOSE k \in 1..Len(updates) :
            /\ ~Legal(updates[k])
            /\ \A j \in 1..(k - 1) : Legal(updates[j])
    ELSE 0

ExpectedRan ==
    IF ordered /\ FirstIllegal # 0
    THEN 1..(FirstIllegal - 1)
    ELSE {k \in 1..Len(updates) : Legal(updates[k])}

\* The reply: the statements executed are exactly those the ordered flag
\* allows, the reported failure is the first illegal statement, and the
\* count n is the number of bucket writes, one per bucket and statement.
ReplyIsExact ==
    phase = "done" =>
        /\ ran = ExpectedRan
        /\ failed = FirstIllegal
        /\ n = Cardinality(writes)

\* Every request is answered: the command never hangs, whatever the
\* migrations do meanwhile.
RequestTerminates == <>(phase = "done")

=============================================================================
