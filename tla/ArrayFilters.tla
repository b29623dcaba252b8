---------------------------- MODULE ArrayFilters ----------------------------
(***************************************************************************)
(* Multi-updates through arrayFilters on a metaField that holds an array,  *)
(* as exercised by jstests/core/timeseries/timeseries_update.js (the       *)
(* arrayDoc tests).                                                        *)
(*                                                                         *)
(* The meta value of a bucket is an array whose elements are numbers or    *)
(* sub-documents {a, c}.  A statement has a query on the metaField (an     *)
(* array matches a comparison when one of its elements does), a modifier   *)
(* applied at the positional marker $[i] ($set, $set of the sub-field      *)
(* "c", $inc or $unset), and an array filter on i: comparisons on the      *)
(* element or on its sub-field "a", combined by $and or $or.               *)
(*                                                                         *)
(* The evaluator resolves the positions whose element satisfies the filter *)
(* and then rewrites them one at a time, in index order; $unset leaves a   *)
(* null placeholder in place.                                              *)
(***************************************************************************)
EXTENDS Naturals, Sequences, SequencesExt

CONSTANTS
    Bucket,     \* the buckets of the collection
    Num,        \* the numbers stored in the initial arrays
    Stmt,       \* the array-filter statements a batch may contain
    MaxSteps    \* bound on the number of statements applied

ASSUME BoundsAssumption == MaxSteps \in Nat /\ Num \subseteq Nat

\* The elements of a meta array, a tagged variant: a number, a
\* sub-document {a, c}, or the null placeholder $unset leaves.
NumElem(n) == [kind |-> "num", v |-> n]
Null == [kind |-> "null"]
SubDoc == [kind : {"doc"}, a : Num, c : Num]

\* A comparison of the element (path "") or of its field "a" with a number.
Term == [path : {"", "a"}, op : {"gt", "gte", "lt"}, val : Nat]

\* An array filter: its comparisons combined by $and or $or.
Filter == [conj : {"and", "or"}, terms : SUBSET Term]

\* A statement: the query's comparisons, the modifier and the filter.
StmtType == [q : SUBSET Term, op : {"set", "inc", "unset"},
             field : {"", "c"}, val : Nat, filter : Filter]

ASSUME StmtAssumption == Stmt \subseteq StmtType

VARIABLES
    meta,       \* the meta array of each bucket
    steps       \* the number of statements applied

vars == <<meta, steps>>

-----------------------------------------------------------------------------
(***************************************************************************)
(* Matching                                                                *)
(***************************************************************************)

\* The value a comparison reads: the element itself or its field "a"; a
\* number or a null has no field "a".
Operand(t, e) ==
    IF t.path = "" THEN e
    ELSE IF e.kind = "doc" THEN NumElem(e.a)
    ELSE Null

\* Comparison of query language values: a number compares only with a
\* number; null, a missing field and a sub-document never satisfy $gt,
\* $gte or $lt against a number.
Compare(t, e) ==
    LET x == Operand(t, e)
    IN  /\ x.kind = "num"
        /\ \/ t.op = "gt"  /\ x.v > t.val
           \/ t.op = "gte" /\ x.v >= t.val
           \/ t.op = "lt"  /\ x.v < t.val

\* The array filter holds for element e.
Holds(f, e) ==
    IF f.conj = "and" THEN \A t \in f.terms : Compare(t, e)
                      ELSE \E t \in f.terms : Compare(t, e)

\* The query selects a bucket whose array has, for each comparison, an
\* element satisfying it ({} selects every bucket).
QueryMatches(q, arr) ==
    \A t \in q : \E i \in DOMAIN arr : Compare(t, arr[i])

\* The positions $[i] resolves to.
ResolvePositions(arr, f) == {i \in DOMAIN arr : Holds(f, arr[i])}

-----------------------------------------------------------------------------
(***************************************************************************)
(* Rewriting                                                               *)
(***************************************************************************)

\* The element after $set or $inc at its position.
Modify(e, s) ==
    CASE s.op = "set" /\ s.field = ""  -> NumElem(s.val)
      [] s.op = "set" /\ s.field = "c" -> [e EXCEPT !.c = s.val]
      [] s.op = "inc"                  -> NumElem(e.v + s.val)

\* Mutant: $unset deletes the array's key k, as it deletes a field of a
\* document, and leaves a hole at k instead of renumbering or a null.
UnsetAtDeletes(arr, k) == [i \in DOMAIN arr \ {k} |-> arr[i]]

\* $unset of an array position: a null placeholder keeps the length.
UnsetAt(arr, k) == ReplaceAt(arr, k, Null)

\* The rewrite of position k.
RewriteAt(arr, k, s) ==
    IF s.op = "unset" THEN UnsetAt(arr, k)
                      ELSE ReplaceAt(arr, k, Modify(arr[k], s))

\* The evaluator: resolve the positions on the array as it was, then
\* rewrite them one at a time in index order.
ApplyArrayFilter(arr, s) ==
    LET P == ResolvePositions(arr, s.filter)
        upto[k \in 0..Len(arr)] ==
            IF k = 0 THEN arr
            ELSE IF k \in P THEN RewriteAt(upto[k - 1], k, s)
            ELSE upto[k - 1]
    IN  upto[Len(arr)]

-----------------------------------------------------------------------------
\* The initial arrays: numbers (arrayDoc1..3) or sub-documents.
InitArrays == (BoundedSeq({NumElem(n) : n \in Num}, 3) \cup BoundedSeq(SubDoc, 2)) \ {<<>>}

Init ==
    /\ meta \in [Bucket -> InitArrays]
    /\ steps = 0

\* A multi:true statement: every bucket the query selects has its array
\* rewritten at the positions the filter resolves.
Update(s) ==
    /\ steps < MaxSteps
    /\ meta' = [b \in Bucket |->
                  IF QueryMatches(s.q, meta[b]) THEN ApplyArrayFilter(meta[b], s)
                  ELSE meta[b]]
    /\ steps' = steps + 1

\* The batch is over.
Done ==
    /\ steps = MaxSteps
    /\ UNCHANGED vars

Next == (\E s \in Stmt : Update(s)) \/ Done

Spec == Init /\ [][Next]_vars

-----------------------------------------------------------------------------
(***************************************************************************)
(* Properties                                                              *)
(***************************************************************************)

Elem == [kind : {"num"}, v : Nat] \cup {Null} \cup [kind : {"doc"}, a : Nat, c : Nat]

\* Every meta array is an array (its positions are 1..n, with no hole) of
\* numbers, sub-documents and null placeholders, and the batch is within
\* its bound: $unset through $[i] must keep the array's positions.
TypeOK ==
    /\ DOMAIN meta = Bucket
    /\ \A b \in Bucket : meta[b] \in [1..Cardinality(DOMAIN meta[b]) -> Elem]
    /\ steps \in 0..MaxSteps

=============================================================================
