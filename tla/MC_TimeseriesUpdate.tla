------------------------ MODULE MC_TimeseriesUpdate ------------------------
(***************************************************************************)
(* A small instance of TimeseriesUpdate: two buckets, meta values 0 and 1, *)
(* and four statements taken from timeseries_update.js.                   *)
(***************************************************************************)
EXTENDS TimeseriesUpdate, TLC

MCBucket == {"b1", "b2"}
MCMeta == {0, 1}

SetTo(v) == [m \in MCMeta |-> v]

\* {q: {tag: 0}, u: {$set: {tag: 1}}, multi: true}
SetZeroToOne ==
    [q |-> [refs |-> {"tag"}, sel |-> {0}],
     u |-> [form |-> "ops", paths |-> {"tag"}, f |-> SetTo(1)],
     multi |-> TRUE, upsert |-> FALSE]

\* {q: {tag: 1}, u: {$set: {tag: 0}}, multi: true}: chained after the
\* previous one it matches what that one wrote.
SetOneToZero ==
    [q |-> [refs |-> {"tag"}, sel |-> {1}],
     u |-> [form |-> "ops", paths |-> {"tag"}, f |-> SetTo(0)],
     multi |-> TRUE, upsert |-> FALSE]

\* {q: {}, u: {$set: {tag: 1}}, multi: true}: the empty query.
SetAllToOne ==
    [q |-> [refs |-> {}, sel |-> MCMeta],
     u |-> [form |-> "ops", paths |-> {"tag"}, f |-> SetTo(1)],
     multi |-> TRUE, upsert |-> FALSE]

\* {q: {tag: 0}, u: {$set: {tag: 1, f3: "f3"}}, multi: true}: touches a
\* measurement field as well, InvalidOptions.
SetMetaAndField ==
    [q |-> [refs |-> {"tag"}, sel |-> {0}],
     u |-> [form |-> "ops", paths |-> {"tag", "measurement"}, f |-> SetTo(1)],
     multi |-> TRUE, upsert |-> FALSE]

\* The first statement with upsert:true, InvalidOptions.
UpsertZeroToOne == [SetZeroToOne EXCEPT !.upsert = TRUE]

\* The first statement with multi:false, InvalidOptions.
SingleZeroToOne == [SetZeroToOne EXCEPT !.multi = FALSE]

MCStmt == {SetZeroToOne, SetOneToZero, SetAllToOne, SetMetaAndField,
           UpsertZeroToOne, SingleZeroToOne}

=============================================================================
