------------------------- MODULE ArrayFiltersProofs -------------------------
(***************************************************************************)
(* Proofs about the array-filter evaluator of ArrayFilters, for every set  *)
(* of buckets, numbers and statements and every bound on the batch: the    *)
(* meta arrays stay arrays of elements (ArrayTypeCorrect).                 *)
(*                                                                         *)
(* The evaluator ApplyArrayFilter is a recursive function over the         *)
(* positions 0..Len(arr) (upto), which TLAPS sees as the CHOOSE of a       *)
(* function satisfying its defining equation.  That such a function        *)
(* exists needs no induction: Partial(arr, s, k), the array with its first *)
(* k positions rewritten as the contract says, is one, for every length.  *)
(* That every solution is that one is an induction on k (UptoUnique,     *)
(* with IntervalInduct), so the evaluator meets its contract on arrays of  *)
(* every length.  The contract, a positional map over the array, is then  *)
(* what the type argument is made on.                                      *)
(***************************************************************************)
EXTENDS ArrayFilters, SequenceTheorems, FiniteSetTheorems, IntervalInduction, TLAPS

\* The evaluator's contract, the resultDocList of the test: every element
\* the filter selects rewritten in place and no other.
ContractResult(arr, s) ==
    [i \in DOMAIN arr |->
        IF ~Holds(s.filter, arr[i]) THEN arr[i]
        ELSE IF s.op = "unset" THEN Null
        ELSE Modify(arr[i], s)]

\* The defining equation of the evaluator's loop, for array arr.
IsUpto(f, arr, s) ==
    f = [k \in 0..Len(arr) |->
           IF k = 0 THEN arr
           ELSE IF k \in ResolvePositions(arr, s.filter)
                THEN RewriteAt(f[k - 1], k, s)
                ELSE f[k - 1]]

\* The array after the loop has handled positions 1..k.
Partial(arr, s, k) ==
    [i \in DOMAIN arr |-> IF i <= k THEN ContractResult(arr, s)[i] ELSE arr[i]]

LEMMA ApplyIsChoose ==
    ASSUME NEW arr, NEW s
    PROVE  ApplyArrayFilter(arr, s) = (CHOOSE f : IsUpto(f, arr, s))[Len(arr)]
BY DEF ApplyArrayFilter, IsUpto

\* The partial rewrites, pointwise.
LEMMA PartialFacts ==
    ASSUME NEW S, NEW arr \in Seq(S), NEW s, NEW k \in Int
    PROVE  /\ Partial(arr, s, k) =
                 [i \in 1..Len(arr) |->
                    IF i <= k THEN ContractResult(arr, s)[i] ELSE arr[i]]
           /\ DOMAIN Partial(arr, s, k) = 1..Len(arr)
           /\ \A i \in 1..Len(arr) :
                 Partial(arr, s, k)[i] =
                    IF i <= k THEN ContractResult(arr, s)[i] ELSE arr[i]
<1>1. DOMAIN arr = 1..Len(arr)
    BY LenProperties
<1>. QED
    BY <1>1 DEF Partial

\* One more position handled: the element at k is rewritten if the filter
\* resolves it, and no other element changes.
LEMMA PartialStep ==
    ASSUME NEW S, NEW arr \in Seq(S), NEW s, NEW k \in 1..Len(arr)
    PROVE  Partial(arr, s, k) =
              IF k \in ResolvePositions(arr, s.filter)
              THEN RewriteAt(Partial(arr, s, k - 1), k, s)
              ELSE Partial(arr, s, k - 1)
<1> DEFINE old == Partial(arr, s, k - 1)
           new == Partial(arr, s, k)
<1>1. Len(arr) \in Nat /\ k - 1 \in Int /\ k \in Int
    BY LenProperties
<1>2. /\ DOMAIN old = 1..Len(arr) /\ DOMAIN new = 1..Len(arr)
      /\ \A i \in 1..Len(arr) :
            old[i] = IF i <= k - 1 THEN ContractResult(arr, s)[i] ELSE arr[i]
      /\ \A i \in 1..Len(arr) :
            new[i] = IF i <= k THEN ContractResult(arr, s)[i] ELSE arr[i]
    BY <1>1, PartialFacts
<1>3. \A i \in 1..Len(arr) \ {k} : new[i] = old[i]
    BY <1>1, <1>2
<1>4. old[k] = arr[k] /\ new[k] = ContractResult(arr, s)[k]
    BY <1>1, <1>2
<1>7. /\ old = [i \in 1..Len(arr) |->
                  IF i <= k - 1 THEN ContractResult(arr, s)[i] ELSE arr[i]]
      /\ new = [i \in 1..Len(arr) |->
                  IF i <= k THEN ContractResult(arr, s)[i] ELSE arr[i]]
    BY <1>1, PartialFacts
<1>5. CASE k \in ResolvePositions(arr, s.filter)
    <2> DEFINE v == IF s.op = "unset" THEN Null ELSE Modify(arr[k], s)
    <2>1. ContractResult(arr, s)[k] = v
        <3>1. Holds(s.filter, arr[k])
            BY <1>5 DEF ResolvePositions
        <3>2. DOMAIN arr = 1..Len(arr)
            BY LenProperties
        <3>. QED
            BY <3>1, <3>2 DEF ContractResult
    <2>2. RewriteAt(old, k, s) = [old EXCEPT ![k] = v]
        BY <1>4 DEF RewriteAt, UnsetAt, ReplaceAt
    <2>3. new = [old EXCEPT ![k] = v]
        BY <1>1, <1>7, <2>1
    <2>. QED
        BY <1>5, <2>2, <2>3
<1>6. CASE k \notin ResolvePositions(arr, s.filter)
    <2>1. ContractResult(arr, s)[k] = arr[k]
        <3>1. ~Holds(s.filter, arr[k])
            BY <1>6 DEF ResolvePositions
        <3>2. DOMAIN arr = 1..Len(arr)
            BY LenProperties
        <3>. QED
            BY <3>1, <3>2 DEF ContractResult
    <2>2. new = old
        BY <1>1, <1>7, <2>1
    <2>. QED
        BY <1>6, <2>2
<1>. QED
    BY <1>5, <1>6

\* The partial rewrites satisfy the loop's equation, for every length.
LEMMA PartialIsUpto ==
    ASSUME NEW S, NEW arr \in Seq(S), NEW s
    PROVE  IsUpto([k \in 0..Len(arr) |-> Partial(arr, s, k)], arr, s)
<1> DEFINE W == [k \in 0..Len(arr) |-> Partial(arr, s, k)]
<1>1. Len(arr) \in Nat /\ DOMAIN arr = 1..Len(arr)
    BY LenProperties
<1>2. W[0] = arr
    <2>1. Partial(arr, s, 0) = [i \in 1..Len(arr) |-> arr[i]]
        BY <1>1, PartialFacts
    <2>. QED
        BY <1>1, <2>1
<1>3. ASSUME NEW k \in 1..Len(arr)
      PROVE  W[k] = IF k \in ResolvePositions(arr, s.filter)
                    THEN RewriteAt(W[k - 1], k, s)
                    ELSE W[k - 1]
    <2>1. W[k] = Partial(arr, s, k) /\ W[k - 1] = Partial(arr, s, k - 1)
        BY <1>1
    <2>2. Partial(arr, s, k) =
            IF k \in ResolvePositions(arr, s.filter)
            THEN RewriteAt(Partial(arr, s, k - 1), k, s)
            ELSE Partial(arr, s, k - 1)
        BY PartialStep
    <2>. QED
        BY <2>1, <2>2
<1>4. ASSUME NEW k \in 0..Len(arr)
      PROVE  W[k] = IF k = 0 THEN arr
                    ELSE IF k \in ResolvePositions(arr, s.filter)
                         THEN RewriteAt(W[k - 1], k, s)
                         ELSE W[k - 1]
    <2>1. CASE k = 0
        BY <1>2, <2>1
    <2>2. CASE k # 0
        <3>1. k \in 1..Len(arr)
            BY <1>1, <2>2
        <3>. QED
            BY <2>2, <3>1, <1>3
    <2>. QED
        BY <2>1, <2>2
<1>. QED
    BY <1>4 DEF IsUpto

\* Two functions satisfying the loop's equation agree at its end: induction
\* over the positions.
LEMMA UptoUnique ==
    ASSUME NEW S, NEW arr \in Seq(S), NEW s, NEW f, NEW g,
           IsUpto(f, arr, s), IsUpto(g, arr, s)
    PROVE  f[Len(arr)] = g[Len(arr)]
<1> DEFINE Step(h, k) == IF k \in ResolvePositions(arr, s.filter)
                         THEN RewriteAt(h, k, s) ELSE h
<1>1. Len(arr) \in Nat
    BY LenProperties
<1>3. /\ f[0] = arr
      /\ \A k \in 1..Len(arr) : f[k] = Step(f[k - 1], k)
    <2>1. f[0] = arr
        BY <1>1 DEF IsUpto
    <2>2. ASSUME NEW k \in 1..Len(arr) PROVE f[k] = Step(f[k - 1], k)
        <3>1. k \in 0..Len(arr) /\ k # 0
            BY <1>1
        <3>. QED
            BY <3>1 DEF IsUpto
    <2>. QED
        BY <2>1, <2>2
<1>4. /\ g[0] = arr
      /\ \A k \in 1..Len(arr) : g[k] = Step(g[k - 1], k)
    <2>1. g[0] = arr
        BY <1>1 DEF IsUpto
    <2>2. ASSUME NEW k \in 1..Len(arr) PROVE g[k] = Step(g[k - 1], k)
        <3>1. k \in 0..Len(arr) /\ k # 0
            BY <1>1
        <3>. QED
            BY <3>1 DEF IsUpto
    <2>. QED
        BY <2>1, <2>2
<1> DEFINE P == {k \in 0..Len(arr) : f[k] = g[k]}
<1>5. 0 \in P
    BY <1>1, <1>3, <1>4
<1>6. ASSUME NEW k \in 1..Len(arr), k - 1 \in P PROVE k \in P
    <2>1. f[k - 1] = g[k - 1]
        BY <1>6
    <2>2. f[k] = Step(f[k - 1], k) /\ g[k] = Step(g[k - 1], k)
        BY <1>3, <1>4
    <2>. QED
        BY <1>1, <2>1, <2>2
<1>7. \A k \in (0 + 1)..Len(arr) : k - 1 \in P => k \in P
    BY <1>6
<1> HIDE DEF P
<1>8. 0..Len(arr) \subseteq P
    BY <1>1, <1>5, <1>7, IntervalInduct
<1>. QED
    BY <1>1, <1>8 DEF P

\* The evaluator meets its contract on every array.
LEMMA EvaluatorMeetsContract ==
    ASSUME NEW S, NEW arr \in Seq(S), NEW s
    PROVE  ApplyArrayFilter(arr, s) = ContractResult(arr, s)
<1> DEFINE W == [k \in 0..Len(arr) |-> Partial(arr, s, k)]
<1>1. \E f : IsUpto(f, arr, s)
    BY PartialIsUpto
<1>2. IsUpto(CHOOSE f : IsUpto(f, arr, s), arr, s)
    BY <1>1
<1>3. ApplyArrayFilter(arr, s) = Partial(arr, s, Len(arr))
    <2>1. IsUpto(W, arr, s)
        BY PartialIsUpto
    <2>2. (CHOOSE f : IsUpto(f, arr, s))[Len(arr)] = W[Len(arr)]
        BY <1>2, <2>1, UptoUnique
    <2>3. Len(arr) \in 0..Len(arr)
        BY LenProperties
    <2>. QED
        BY <2>2, <2>3, ApplyIsChoose
<1>4. Len(arr) \in Nat /\ DOMAIN arr = 1..Len(arr)
    BY LenProperties
<1>. QED
    BY <1>3, <1>4 DEF Partial, ContractResult

-----------------------------------------------------------------------------
(***************************************************************************)
(* Types.  $inc of an element that is not a number is a type error the    *)
(* server reports (it cannot increment a sub-document or a null) and the   *)
(* model does not model: Modify reads the field v, which only a number    *)
(* has.  TypeOK is proved for the batches whose $inc filters select        *)
(* numbers only, as the test's {i: {$gt: 6, $lt: 15}} does; every other    *)
(* statement ($set, $set of "c", $unset) is unrestricted.                  *)
(***************************************************************************)

\* Every element an $inc statement's array filter selects is a number.
IncSelectsNumbers ==
    \A s \in Stmt : s.op = "inc" =>
        \A e \in Elem : Holds(s.filter, e) => e.kind = "num"

\* $set and $inc of an element give an element, when $inc is given a number.
LEMMA ModifyInElem ==
    ASSUME NEW s \in StmtType, s.op # "unset", NEW e \in Elem,
           s.op = "inc" => e.kind = "num"
    PROVE  Modify(e, s) \in Elem
<1>1. CASE s.op = "set" /\ s.field = ""
    <2>1. Modify(e, s) = NumElem(s.val)
        BY <1>1, Zenon DEF Modify
    <2>2. s.val \in Nat
        BY DEF StmtType
    <2>. QED
        BY <2>1, <2>2 DEF Elem, NumElem
<1>2. CASE s.op = "set" /\ s.field = "c"
    <2>1. Modify(e, s) = [e EXCEPT !.c = s.val]
        BY <1>2, Zenon DEF Modify
    <2>2. s.val \in Nat
        BY DEF StmtType
    <2>3. CASE e \in [kind : {"num"}, v : Nat]
        <3>1. [e EXCEPT !.c = s.val] = e
            BY <2>3, Zenon
        <3>. QED
            BY <2>1, <3>1 DEF Elem
    <2>4. CASE e = Null
        <3>1. [e EXCEPT !.c = s.val] = e
            BY <2>4, Zenon DEF Null
        <3>. QED
            BY <2>1, <3>1 DEF Elem
    <2>5. CASE e \in [kind : {"doc"}, a : Nat, c : Nat]
        <3>1. [e EXCEPT !.c = s.val] \in [kind : {"doc"}, a : Nat, c : Nat]
            BY <2>2, <2>5, Zenon
        <3>. QED
            BY <2>1, <3>1 DEF Elem
    <2>. QED
        BY <2>3, <2>4, <2>5 DEF Elem
<1>3. CASE s.op = "inc"
    <2>1. e.kind = "num"
        BY <1>3
    <2>2. e # Null /\ e \notin [kind : {"doc"}, a : Nat, c : Nat]
        BY <2>1 DEF Null
    <2>3. e \in [kind : {"num"}, v : Nat]
        BY <2>2 DEF Elem
    <2>4. Modify(e, s) = NumElem(e.v + s.val)
        BY <1>3, Zenon DEF Modify
    <2>5. e.v \in Nat /\ s.val \in Nat
        BY <2>3, Zenon DEF StmtType
    <2>. QED
        BY <2>4, <2>5 DEF Elem, NumElem
<1>. QED
    BY <1>1, <1>2, <1>3 DEF StmtType

\* The contract's array of an array of elements is an array of elements.
LEMMA ContractInElem ==
    ASSUME IncSelectsNumbers, NEW s \in Stmt, NEW a \in Seq(Elem)
    PROVE  ContractResult(a, s) \in Seq(Elem)
<1>1. ASSUME NEW i \in DOMAIN a PROVE ContractResult(a, s)[i] \in Elem
    <2>1. a[i] \in Elem /\ s \in StmtType
        BY StmtAssumption
    <2>2. CASE Holds(s.filter, a[i]) /\ s.op # "unset"
        BY <2>1, <2>2, ModifyInElem DEF IncSelectsNumbers, ContractResult
    <2>3. CASE s.op = "unset"
        BY <2>1, <2>3 DEF ContractResult, Elem
    <2>. QED
        BY <2>1, <2>2, <2>3 DEF ContractResult
<1>2. Len(a) \in Nat /\ DOMAIN a = 1..Len(a)
    BY LenProperties
<1>3. ContractResult(a, s) \in [1..Len(a) -> Elem]
    BY <1>1, <1>2 DEF ContractResult
<1>. QED
    BY <1>2, <1>3 DEF Seq

\* The arrays a bucket starts with are arrays of elements.
LEMMA InitArraysInElem ==
    ASSUME NEW a \in InitArrays
    PROVE  a \in Seq(Elem)
<1>1. {NumElem(n) : n \in Num} \subseteq Elem /\ SubDoc \subseteq Elem
    <2>1. ASSUME NEW n \in Num PROVE NumElem(n) \in [kind : {"num"}, v : Nat]
        BY BoundsAssumption DEF NumElem
    <2>2. SubDoc \subseteq [kind : {"doc"}, a : Nat, c : Nat]
        BY BoundsAssumption DEF SubDoc
    <2>. QED
        BY <2>1, <2>2 DEF Elem
<1>2. PICK m \in 0..3 : a \in [1..m -> Elem]
    BY <1>1 DEF InitArrays, BoundedSeq, SeqOf
<1>. QED
    BY <1>2 DEF Seq

\* A sequence is an array in TypeOK's sense: its positions are 1..n for
\* its n elements.
LEMMA SeqIsArray ==
    ASSUME NEW S, NEW a \in Seq(S)
    PROVE  a \in [1..Cardinality(DOMAIN a) -> S]
<1>1. Len(a) \in Nat /\ DOMAIN a = 1..Len(a)
    BY LenProperties
<1>2. Cardinality(1..Len(a)) = Len(a)
    BY <1>1, FS_Interval
<1>3. a \in [1..Len(a) -> S]
    BY <1>1
<1>. QED
    BY <1>1, <1>2, <1>3

\* The invariant behind TypeOK: every meta array is a sequence of elements.
TInv ==
    /\ meta \in [Bucket -> Seq(Elem)]
    /\ steps \in 0..MaxSteps

LEMMA InitTInv == Init => TInv
<1> SUFFICES ASSUME Init PROVE TInv
    OBVIOUS
<1>1. meta \in [Bucket -> Seq(Elem)]
    BY InitArraysInElem DEF Init
<1>2. 0 \in 0..MaxSteps
    BY BoundsAssumption
<1>. QED
    BY <1>1, <1>2 DEF Init, TInv

LEMMA NextTInv ==
    ASSUME IncSelectsNumbers
    PROVE  TInv /\ [Next]_vars => TInv'
<1> SUFFICES ASSUME TInv, [Next]_vars PROVE TInv'
    OBVIOUS
<1>1. ASSUME NEW s \in Stmt, Update(s) PROVE TInv'
    <2>1. ASSUME NEW b \in Bucket PROVE meta'[b] \in Seq(Elem)
        <3>1. meta[b] \in Seq(Elem)
            BY DEF TInv
        <3>2. ApplyArrayFilter(meta[b], s) = ContractResult(meta[b], s)
            BY <3>1, EvaluatorMeetsContract
        <3>3. ContractResult(meta[b], s) \in Seq(Elem)
            BY <3>1, ContractInElem
        <3>. QED
            BY <1>1, <3>1, <3>2, <3>3 DEF Update
    <2>2. meta' \in [Bucket -> Seq(Elem)]
        BY <1>1, <2>1 DEF Update
    <2>3. steps' \in 0..MaxSteps
        BY <1>1, BoundsAssumption DEF Update, TInv
    <2>. QED
        BY <2>2, <2>3 DEF TInv
<1>2. ASSUME UNCHANGED vars PROVE TInv'
    BY <1>2 DEF vars, TInv
<1>. QED
    BY <1>1, <1>2 DEF Next, Done

LEMMA TInvTypeOK == TInv => TypeOK
<1> SUFFICES ASSUME TInv PROVE TypeOK
    OBVIOUS
<1>1. ASSUME NEW b \in Bucket
      PROVE  meta[b] \in [1..Cardinality(DOMAIN meta[b]) -> Elem]
    BY SeqIsArray DEF TInv
<1>. QED
    BY <1>1 DEF TInv, TypeOK

\* Every meta array stays an array, positions 1..n with no hole, of
\* numbers, sub-documents and null placeholders through any batch: $unset
\* through $[i] leaves a null in place rather than deleting the position.
\* It holds when no $inc statement selects an element that is not a number.
THEOREM ArrayTypeCorrect ==
    ASSUME IncSelectsNumbers
    PROVE  Spec => []TypeOK
<1>1. Spec => []TInv
    BY InitTInv, NextTInv, PTL DEF Spec
<1>. QED
    BY <1>1, TInvTypeOK, PTL

=============================================================================
