------------------------ MODULE UpdateOutcomeProofs ------------------------
(***************************************************************************)
(* The outcome of the multi-update command: when the reply is sent, every *)
(* bucket that stayed mutable carries the meta value that applying the     *)
(* executed statements one after the other gives (SequentialOutcome), for  *)
(* batches of any length.                                                  *)
(*                                                                         *)
(* SequentialMeta(b) is a recursive function over the statements, which    *)
(* TLAPS sees as the CHOOSE of a function g satisfying its equation        *)
(* (SeqEq).  The invariant SeqInv says that some such g exists and that    *)
(* the bucket's meta is g at the statements processed so far; induction    *)
(* over the statements (IntervalInduction) shows that every solution of    *)
(* the equation is the same and that it no longer changes past the last   *)
(* statement that ran.                                                     *)
(***************************************************************************)
EXTENDS TimeseriesUpdateProofs, IntervalInduction

\* The equation of SequentialMeta's loop for bucket b, over the current
\* set ran of the statements that passed validation.
SeqEq(g, b) ==
    g = [k \in 0..Len(updates) |->
           IF k = 0 THEN meta0[b]
           ELSE IF k \in ran /\ Matches(updates[k], g[k - 1])
                THEN updates[k].u.f[g[k - 1]]
                ELSE g[k - 1]]

\* The statements whose effect a bucket that is not waiting for its write
\* already shows: the current one once its buckets are being written.
Processed == IF phase = "apply" THEN stmt ELSE stmt - 1

\* Only processed statements have run, and the one being applied has.
RanBound ==
    /\ ran \subseteq 1..Processed
    /\ phase = "apply" => stmt \in ran

\* The meta of mutable bucket b against a solution g of the equation: a
\* matched bucket waiting for its write still shows the statements before
\* the current one, and the current one selects it; any other shows the
\* processed statements.
CurOK(g, b) ==
    IF phase = "apply" /\ b \in pending
    THEN meta[b] = g[stmt - 1] /\ Matches(updates[stmt], meta[b])
    ELSE meta[b] = g[Processed]

SeqInv == \A b \in Bucket : mutable[b] => \E g : SeqEq(g, b) /\ CurOK(g, b)

OutInv == TypeInv /\ RanBound /\ SeqInv

-----------------------------------------------------------------------------
(***************************************************************************)
(* The equation's solutions.                                               *)
(***************************************************************************)

LEMMA SequentialIsChoose ==
    ASSUME NEW b
    PROVE  SequentialMeta(b) = (CHOOSE g : SeqEq(g, b))[Len(updates)]
BY DEF SequentialMeta, SeqEq

\* A solution of the equation, pointwise.
LEMMA SeqEqAt ==
    ASSUME NEW b, NEW g, SeqEq(g, b), NEW k \in 0..Len(updates)
    PROVE  g[k] = IF k = 0 THEN meta0[b]
                  ELSE IF k \in ran /\ Matches(updates[k], g[k - 1])
                       THEN updates[k].u.f[g[k - 1]]
                       ELSE g[k - 1]
BY DEF SeqEq

\* Any two solutions are the same function (induction on k).
LEMMA SeqUnique ==
    ASSUME NEW b, NEW g, NEW h, SeqEq(g, b), SeqEq(h, b),
           Len(updates) \in Nat
    PROVE  \A k \in 0..Len(updates) : g[k] = h[k]
<1> DEFINE P == {k \in 0..Len(updates) : g[k] = h[k]}
<1>1. 0 \in P
    BY SeqEqAt
<1>2. ASSUME NEW k \in 1..Len(updates), k - 1 \in P PROVE k \in P
    <2>1. k - 1 \in 0..Len(updates) /\ g[k - 1] = h[k - 1]
        BY <1>2
    <2>. QED
        BY <1>2, <2>1, SeqEqAt
<1>3. \A k \in (0 + 1)..Len(updates) : k - 1 \in P => k \in P
    BY <1>2
<1>4. 0..Len(updates) \subseteq P
    BY <1>1, <1>3, IntervalInduct, Zenon
<1>. QED
    BY <1>4

\* Past the last statement that ran a solution stays constant.
LEMMA SeqTail ==
    ASSUME NEW b, NEW g, SeqEq(g, b), Len(updates) \in Nat,
           NEW a \in 0..Len(updates),
           \A k \in (a + 1)..Len(updates) : k \notin ran
    PROVE  g[Len(updates)] = g[a]
<1> DEFINE P == {k \in 0..Len(updates) : g[k] = g[a]}
<1>1. a \in P
    OBVIOUS
<1>2. ASSUME NEW k \in (a + 1)..Len(updates), k - 1 \in P PROVE k \in P
    <2>1. k \in 0..Len(updates) /\ k # 0 /\ k \notin ran
        BY <1>2
    <2>2. g[k] = g[k - 1]
        BY <2>1, SeqEqAt
    <2>. QED
        BY <1>2, <2>1, <2>2
<1>3. \A k \in (a + 1)..Len(updates) : k - 1 \in P => k \in P
    BY <1>2
<1> HIDE DEF P
<1>4. a..Len(updates) \subseteq P
    <2>1. a \in Nat
        OBVIOUS
    <2>. QED
        BY <1>1, <1>3, <2>1, IntervalInduct
<1>5. Len(updates) \in a..Len(updates)
    OBVIOUS
<1>. QED
    BY <1>4, <1>5 DEF P

\* The equation mentions only updates, ran and meta0.
LEMMA SeqEqStable ==
    ASSUME NEW b, NEW g, UNCHANGED <<updates, ran, meta0>>
    PROVE  SeqEq(g, b)' = SeqEq(g, b)
BY DEF SeqEq

-----------------------------------------------------------------------------
LEMMA InitOutInv == Init => OutInv
<1> SUFFICES ASSUME Init PROVE OutInv
    OBVIOUS
<1>1. TypeInv
    BY InitTypeInv
<1>2. RanBound
    BY DEF Init, RanBound
<1>3. ASSUME NEW b \in Bucket
      PROVE  \E g : SeqEq(g, b) /\ CurOK(g, b)
    <2> DEFINE g == [k \in 0..Len(updates) |-> meta0[b]]
    <2>1. SeqEq(g, b)
        BY DEF Init, SeqEq
    <2>2. Len(updates) \in Nat
        BY <1>1, LenProperties DEF TypeInv, TypeOK
    <2>3. CurOK(g, b)
        BY <2>2 DEF Init, CurOK, Processed
    <2>. QED
        BY <2>1, <2>3
<1>. QED
    BY <1>1, <1>2, <1>3 DEF OutInv, SeqInv

LEMMA NextRanBound == TypeInv /\ RanBound /\ [Next]_vars => RanBound'
<1> SUFFICES ASSUME TypeInv, RanBound, [Next]_vars PROVE RanBound'
    OBVIOUS
<1>0. stmt \in 1..(Len(updates) + 1) /\ Len(updates) \in Nat
    BY LenProperties DEF TypeInv, TypeOK
<1>1. CASE MatchStatement
    BY <1>0, <1>1 DEF MatchStatement, RanBound, Processed
<1>2. CASE RejectStatement
    BY <1>0, <1>2 DEF RejectStatement, RanBound, Processed
<1>3. ASSUME NEW c \in Bucket, ApplyBucket(c) \/ SkipImmutable(c)
      PROVE  RanBound'
    BY <1>3 DEF ApplyBucket, SkipImmutable, RanBound, Processed
<1>4. CASE EndStatement
    BY <1>0, <1>4 DEF EndStatement, RanBound, Processed
<1>5. CASE Finish
    BY <1>5 DEF Finish, RanBound, Processed
<1>6. ASSUME NEW c \in Bucket, Migrate(c) PROVE RanBound'
    BY <1>6 DEF Migrate, RanBound, Processed
<1>7. CASE Terminated \/ UNCHANGED vars
    BY <1>7 DEF Terminated, vars, RanBound, Processed
<1>. QED
    BY <1>1, <1>2, <1>3, <1>4, <1>5, <1>6, <1>7 DEF Next, Process

\* A statement is matched: the witness follows the old solution up to the
\* statement before and takes the statement's effect from there on.
LEMMA MatchSeqInv ==
    ASSUME OutInv, MatchStatement, NEW b \in Bucket, mutable[b]
    PROVE  \E g2 : SeqEq(g2, b)' /\ CurOK(g2, b)'
<1>1. PICK g : SeqEq(g, b) /\ CurOK(g, b)
    BY DEF OutInv, SeqInv
<1>2. /\ Len(updates) \in Nat /\ stmt \in 1..Len(updates)
      /\ ran \subseteq 1..(stmt - 1) /\ meta[b] = g[stmt - 1]
    BY <1>1, LenProperties
       DEF OutInv, TypeInv, TypeOK, MatchStatement, RanBound, Processed, CurOK
<1> DEFINE s == updates[stmt]
           v == IF Matches(s, g[stmt - 1]) THEN s.u.f[g[stmt - 1]] ELSE g[stmt - 1]
           g2 == [k \in 0..Len(updates) |-> IF k < stmt THEN g[k] ELSE v]
<1>3. ASSUME NEW k \in 0..Len(updates)
      PROVE  g2[k] = IF k = 0 THEN meta0[b]
                     ELSE IF k \in ran' /\ Matches(updates[k], g2[k - 1])
                          THEN updates[k].u.f[g2[k - 1]]
                          ELSE g2[k - 1]
    <2>1. ran' = ran \cup {stmt} /\ meta0' = meta0 /\ updates' = updates
        BY DEF MatchStatement
    <2>2. CASE k < stmt
        <3>1. g2[k] = g[k] /\ (k # 0 => g2[k - 1] = g[k - 1])
            BY <1>2, <2>2
        <3>2. k \in ran' <=> k \in ran
            BY <1>2, <2>1, <2>2
        <3>3. g[k] = IF k = 0 THEN meta0[b]
                     ELSE IF k \in ran /\ Matches(updates[k], g[k - 1])
                          THEN updates[k].u.f[g[k - 1]]
                          ELSE g[k - 1]
            BY <1>1, SeqEqAt
        <3>. QED
            BY <3>1, <3>2, <3>3
    <2>3. CASE k = stmt
        <3>1. /\ g2[k] = v /\ g2[k - 1] = g[stmt - 1] /\ k # 0
              /\ k \in ran' /\ updates[k] = s
            BY <1>2, <2>1, <2>3
        <3>. QED
            BY <3>1
    <2>4. CASE k > stmt
        <3>1. k \notin ran' /\ g2[k] = v /\ g2[k - 1] = v /\ k # 0
            BY <1>2, <2>1, <2>4
        <3>. QED
            BY <3>1
    <2>5. k < stmt \/ k = stmt \/ k > stmt
        BY <1>2
    <2>. QED
        BY <2>2, <2>3, <2>4, <2>5, Zenon
\* The witness, as a constant: priming a formula about g2 would prime the
\* state variables g2 is written with.
<1>4. PICK h : h = g2
    OBVIOUS
<1>5. SeqEq(h, b)'
    <2>1. updates' = updates /\ meta0' = meta0
        BY DEF MatchStatement
    <2>2. h = [k \in 0..Len(updates) |->
                 IF k = 0 THEN meta0[b]
                 ELSE IF k \in ran' /\ Matches(updates[k], h[k - 1])
                      THEN updates[k].u.f[h[k - 1]]
                      ELSE h[k - 1]]
        BY <1>3, <1>4
    <2>. QED
        BY <2>1, <2>2 DEF SeqEq
<1>6. CurOK(h, b)'
    <2>1. /\ phase' = "apply" /\ stmt' = stmt /\ meta' = meta /\ updates' = updates
          /\ (b \in pending' <=> Matches(s, meta[b]))
        BY DEF MatchStatement
    <2>2. h[stmt - 1] = g[stmt - 1] /\ h[stmt] = v
        BY <1>2, <1>4
    <2>. QED
        BY <1>2, <2>1, <2>2 DEF CurOK, Processed
<1>. QED
    BY <1>5, <1>6

LEMMA NextSeqInv == OutInv /\ [Next]_vars => SeqInv'
<1> SUFFICES ASSUME OutInv, [Next]_vars, NEW b \in Bucket, mutable'[b]
             PROVE  \E g : SeqEq(g, b)' /\ CurOK(g, b)'
    BY DEF SeqInv
<1>0. /\ Len(updates) \in Nat /\ stmt \in 1..(Len(updates) + 1)
      /\ meta \in [Bucket -> Meta] /\ mutable \in [Bucket -> BOOLEAN]
      /\ (phase = "apply" => stmt <= Len(updates))
      /\ RanBound
    BY LenProperties DEF OutInv, TypeInv, TypeOK
<1>1. mutable[b]
    BY <1>0 DEF Next, Process, MatchStatement, RejectStatement, ApplyBucket,
                SkipImmutable, EndStatement, Finish, Migrate, Terminated, vars
<1>2. PICK g : SeqEq(g, b) /\ CurOK(g, b)
    BY <1>1 DEF OutInv, SeqInv
<1>3. CASE MatchStatement
    BY <1>1, <1>3, MatchSeqInv
<1>4. CASE RejectStatement
    <2>1. SeqEq(g, b)'
        BY <1>2, <1>4, SeqEqStable DEF RejectStatement
    <2>2. stmt \in 1..Len(updates) /\ stmt \notin ran /\ meta[b] = g[stmt - 1]
        BY <1>0, <1>2, <1>4 DEF RejectStatement, RanBound, Processed, CurOK
    <2>3. g[stmt] = g[stmt - 1]
        BY <1>2, <2>2, SeqEqAt
    <2>4. CurOK(g, b)'
        BY <1>4, <2>2, <2>3 DEF RejectStatement, CurOK, Processed
    <2>. QED
        BY <2>1, <2>4
<1>5. ASSUME NEW c \in Bucket, ApplyBucket(c) PROVE \E h : SeqEq(h, b)' /\ CurOK(h, b)'
    <2>1. SeqEq(g, b)'
        BY <1>2, <1>5, SeqEqStable DEF ApplyBucket
    <2>2. CASE c = b
        <3>1. /\ stmt \in 1..Len(updates) /\ stmt \in ran
              /\ meta[b] = g[stmt - 1] /\ Matches(updates[stmt], meta[b])
            BY <1>0, <1>2, <1>5, <2>2 DEF ApplyBucket, RanBound, CurOK
        <3>2. g[stmt] = updates[stmt].u.f[g[stmt - 1]]
            BY <1>2, <3>1, SeqEqAt
        <3>3. /\ meta'[b] = updates[stmt].u.f[meta[b]] /\ b \notin pending'
              /\ phase' = "apply" /\ stmt' = stmt /\ updates' = updates
            BY <1>0, <1>5, <2>2 DEF ApplyBucket
        <3>. QED
            BY <2>1, <3>1, <3>2, <3>3 DEF CurOK, Processed
    <2>3. CASE c # b
        <3>1. /\ meta'[b] = meta[b] /\ (b \in pending' <=> b \in pending)
              /\ phase' = phase /\ stmt' = stmt /\ updates' = updates
            BY <1>0, <1>5, <2>3 DEF ApplyBucket
        <3>. QED
            BY <1>2, <2>1, <3>1 DEF CurOK, Processed
    <2>. QED
        BY <2>2, <2>3
<1>6. ASSUME NEW c \in Bucket, SkipImmutable(c) PROVE \E h : SeqEq(h, b)' /\ CurOK(h, b)'
    <2>1. SeqEq(g, b)'
        BY <1>2, <1>6, SeqEqStable DEF SkipImmutable
    <2>2. /\ meta'[b] = meta[b] /\ (b \in pending' <=> b \in pending)
          /\ phase' = phase /\ stmt' = stmt /\ updates' = updates
        BY <1>1, <1>6 DEF SkipImmutable
    <2>. QED
        BY <1>2, <2>1, <2>2 DEF CurOK, Processed
<1>7. CASE EndStatement
    <2>1. SeqEq(g, b)'
        BY <1>2, <1>7, SeqEqStable DEF EndStatement
    <2>2. meta[b] = g[stmt]
        BY <1>2, <1>7 DEF EndStatement, CurOK, Processed
    <2>. QED
        BY <1>0, <1>7, <2>1, <2>2 DEF EndStatement, CurOK, Processed
<1>8. CASE Finish
    <2>1. SeqEq(g, b)'
        BY <1>2, <1>8, SeqEqStable DEF Finish
    <2>. QED
        BY <1>2, <1>8, <2>1 DEF Finish, CurOK, Processed
<1>9. ASSUME NEW c \in Bucket, Migrate(c) PROVE \E h : SeqEq(h, b)' /\ CurOK(h, b)'
    <2>1. SeqEq(g, b)'
        BY <1>2, <1>9, SeqEqStable DEF Migrate
    <2>. QED
        BY <1>2, <1>9, <2>1 DEF Migrate, CurOK, Processed
<1>10. CASE Terminated \/ UNCHANGED vars
    <2>1. SeqEq(g, b)'
        BY <1>2, <1>10, SeqEqStable DEF Terminated, vars
    <2>. QED
        BY <1>2, <1>10, <2>1 DEF Terminated, vars, CurOK, Processed
<1>. QED
    BY <1>3, <1>4, <1>5, <1>6, <1>7, <1>8, <1>9, <1>10 DEF Next, Process

LEMMA NextOutInv == OutInv /\ [Next]_vars => OutInv'
BY NextTypeInv, NextRanBound, NextSeqInv DEF OutInv

\* When the reply is sent, the solution of the equation stays at its value
\* after the last processed statement, and it is the one SequentialMeta
\* chooses.
LEMMA OutcomeFromInv == OutInv => SequentialOutcome
<1> SUFFICES ASSUME OutInv, phase = "done", NEW b \in Bucket, mutable[b]
             PROVE  meta[b] = SequentialMeta(b)
    BY DEF SequentialOutcome
<1>1. /\ Len(updates) \in Nat /\ stmt \in 1..(Len(updates) + 1)
      /\ ran \subseteq 1..(stmt - 1)
    BY LenProperties DEF OutInv, TypeInv, TypeOK, RanBound, Processed
<1>2. PICK g : SeqEq(g, b) /\ CurOK(g, b)
    BY DEF OutInv, SeqInv
<1>3. meta[b] = g[stmt - 1]
    BY <1>2 DEF CurOK, Processed
<1>4. g[Len(updates)] = g[stmt - 1]
    <2>1. stmt - 1 \in 0..Len(updates)
          /\ \A k \in (stmt - 1 + 1)..Len(updates) : k \notin ran
        BY <1>1
    <2>. QED
        BY <1>1, <1>2, <2>1, SeqTail
<1> DEFINE h == CHOOSE f : SeqEq(f, b)
<1>5. SeqEq(h, b)
    BY <1>2
<1>6. h[Len(updates)] = g[Len(updates)]
    BY <1>1, <1>2, <1>5, SeqUnique
<1>. QED
    BY <1>3, <1>4, <1>6, SequentialIsChoose

\* When the reply is sent, every bucket that stayed mutable carries the
\* meta the executed statements give when applied one after the other,
\* each matched against the result of the previous ones, for batches of
\* any length: the update command writes a bucket once per statement that
\* selects it, in statement order, even while migrations run.
THEOREM SequentialOutcomeHolds == Spec => []SequentialOutcome
<1>1. Spec => []OutInv
    BY InitOutInv, NextOutInv, PTL DEF Spec
<1>. QED
    BY <1>1, OutcomeFromInv, PTL

=============================================================================
