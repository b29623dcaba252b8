----------------------- MODULE TimeseriesUpdateProofs -----------------------
(***************************************************************************)
(* Proofs about the multi-update command of TimeseriesUpdate, for every    *)
(* set of buckets, meta values and statements and every batch length.      *)
(***************************************************************************)
EXTENDS TimeseriesUpdate, SequenceTheorems, FiniteSetTheorems, TLAPS

(***************************************************************************)
(* TypeOK is not inductive by itself: a bucket write records the pair      *)
(* <<stmt, b>>, which is typed only because a statement is being applied   *)
(* when stmt is the index of an existing statement.                        *)
(***************************************************************************)
TypeInv ==
    /\ TypeOK
    /\ phase = "apply" => stmt <= Len(updates)

\* A batch drawn by Init is a non-empty sequence of statements.
LEMMA BatchIsSeq ==
    ASSUME NEW u \in Batches
    PROVE  /\ u \in Seq(Stmt)
           /\ Len(u) \in 1..MaxStmts
<1>1. PICK k \in 1..MaxStmts : u \in [1..k -> Stmt]
    BY DEF Batches
<1>2. k \in Nat
    BY <1>1, MaxStmtsAssumption
<1>3. u \in Seq(Stmt)
    BY <1>1, <1>2, SeqDef
<1>4. Len(u) = k
    BY <1>1, <1>2, <1>3, LenProperties
<1>. QED
    BY <1>1, <1>3, <1>4

LEMMA InitTypeInv == Init => TypeInv
<1> SUFFICES ASSUME Init PROVE TypeInv
    OBVIOUS
<1>1. updates \in Seq(Stmt) /\ Len(updates) \in 1..MaxStmts
    BY BatchIsSeq DEF Init
<1>. QED
    BY <1>1 DEF Init, TypeInv, TypeOK

LEMMA NextTypeInv == TypeInv /\ [Next]_vars => TypeInv'
<1> SUFFICES ASSUME TypeInv, [Next]_vars PROVE TypeInv'
    OBVIOUS
<1>. USE DEF TypeInv, TypeOK
<1>1. Len(updates) \in Nat
    BY LenProperties
<1>2. CASE MatchStatement
    BY <1>1, <1>2 DEF MatchStatement
<1>3. CASE RejectStatement
    BY <1>1, <1>3 DEF RejectStatement
<1>4. ASSUME NEW b \in Bucket, ApplyBucket(b) PROVE TypeInv'
    <2>1. stmt \in 1..Len(updates)
        BY <1>1, <1>4 DEF ApplyBucket
    <2>2. updates[stmt] \in StmtType
        BY <2>1, ElementOfSeq, StmtAssumption
    <2>3. updates[stmt].u.f[meta[b]] \in Meta
        BY <2>2 DEF StmtType
    <2>. QED
        BY <1>1, <1>4, <2>1, <2>3 DEF ApplyBucket
<1>5. ASSUME NEW b \in Bucket, SkipImmutable(b) PROVE TypeInv'
    BY <1>5 DEF SkipImmutable
<1>6. CASE EndStatement
    BY <1>1, <1>6 DEF EndStatement
<1>7. CASE Finish
    BY <1>7 DEF Finish
<1>8. ASSUME NEW b \in Bucket, Migrate(b) PROVE TypeInv'
    BY <1>8 DEF Migrate
<1>9. CASE Terminated \/ UNCHANGED vars
    BY <1>9 DEF Terminated, vars
<1>. QED
    BY <1>2, <1>3, <1>4, <1>5, <1>6, <1>7, <1>8, <1>9 DEF Next, Process

\* The type invariant holds in every reachable state.
THEOREM TypeCorrect == Spec => []TypeOK
<1>1. Spec => []TypeInv
    BY InitTypeInv, NextTypeInv, PTL DEF Spec
<1>. QED
    BY <1>1, PTL DEF TypeInv

(***************************************************************************)
(* The reply's count.  n is incremented once per bucket write; that it is  *)
(* the number of distinct <<statement, bucket>> writes needs that a write  *)
(* is never repeated: while a statement is applied its pending buckets     *)
(* have not been written by it, and statements before it are finished.     *)
(***************************************************************************)
CountInv ==
    /\ IsFiniteSet(writes)
    /\ n = Cardinality(writes)
    /\ \A w \in writes : w[1] <= stmt
    /\ phase = "next" => \A w \in writes : w[1] < stmt
    /\ phase = "apply" => \A b \in pending : <<stmt, b>> \notin writes

LEMMA InitCountInv == Init => CountInv
BY FS_EmptySet DEF Init, CountInv

LEMMA NextCountInv == TypeInv /\ CountInv /\ [Next]_vars => CountInv'
<1> SUFFICES ASSUME TypeInv, CountInv, [Next]_vars PROVE CountInv'
    OBVIOUS
<1>. USE DEF CountInv
<1>1. /\ stmt \in Nat
      /\ \A w \in writes : w[1] \in Nat
    BY LenProperties DEF TypeInv, TypeOK
<1>2. CASE MatchStatement
    BY <1>1, <1>2 DEF MatchStatement
<1>3. CASE RejectStatement
    BY <1>1, <1>3 DEF RejectStatement
<1>4. ASSUME NEW b \in Bucket, ApplyBucket(b) PROVE CountInv'
    <2>1. <<stmt, b>> \notin writes
        BY <1>4 DEF ApplyBucket
    <2>2. IsFiniteSet(writes') /\ Cardinality(writes') = Cardinality(writes) + 1
        BY <1>4, <2>1, FS_AddElement DEF ApplyBucket
    <2>. QED
        BY <1>1, <1>4, <2>2 DEF ApplyBucket
<1>5. ASSUME NEW b \in Bucket, SkipImmutable(b) PROVE CountInv'
    BY <1>5 DEF SkipImmutable
<1>6. CASE EndStatement
    BY <1>1, <1>6 DEF EndStatement
<1>7. CASE Finish
    BY <1>7 DEF Finish
<1>8. ASSUME NEW b \in Bucket, Migrate(b) PROVE CountInv'
    BY <1>8 DEF Migrate
<1>9. CASE Terminated \/ UNCHANGED vars
    BY <1>9 DEF Terminated, vars
<1>. QED
    BY <1>2, <1>3, <1>4, <1>5, <1>6, <1>7, <1>8, <1>9 DEF Next, Process

\* The count n the reply reports is, at every moment, the number of
\* distinct bucket writes made so far (the last conjunct of ReplyIsExact).
THEOREM CountIsBucketWrites == Spec => [](n = Cardinality(writes))
<1>1. Spec => [](TypeInv /\ CountInv)
    BY InitTypeInv, InitCountInv, NextTypeInv, NextCountInv, PTL DEF Spec
<1>. QED
    BY <1>1, PTL DEF CountInv

-----------------------------------------------------------------------------
(***************************************************************************)
(* The reply's statements.  Which statements ran and which failure is      *)
(* reported is decided by the prefix of the batch the loop has examined:   *)
(* stmt - 1 statements while the loop runs, and one more when an ordered   *)
(* request stops at an illegal statement.  ReplyInv says that ran holds    *)
(* the legal statements of that prefix (and the one being applied), that  *)
(* an ordered request has met no illegal statement before stmt, and that   *)
(* failed is the first illegal statement of the prefix.  It is needed     *)
(* because ReplyIsExact speaks only of the final state, which the loop     *)
(* reaches through states where the batch is half examined.               *)
(***************************************************************************)
Examined == IF phase = "done" /\ stmt <= Len(updates) THEN stmt ELSE stmt - 1

ReplyInv ==
    /\ phase = "apply" => Legal(updates[stmt])
    /\ ran = {k \in 1..(stmt - 1) : Legal(updates[k])}
               \cup (IF phase = "apply" THEN {stmt} ELSE {})
    /\ phase = "done" =>
          \/ stmt = Len(updates) + 1
          \/ ordered /\ ~Legal(updates[stmt])
    /\ ordered => \A k \in 1..(stmt - 1) : Legal(updates[k])
    /\ failed = 0 => \A k \in 1..Examined : Legal(updates[k])
    /\ failed # 0 => /\ failed \in 1..Examined
                     /\ ~Legal(updates[failed])
                     /\ \A j \in 1..(failed - 1) : Legal(updates[j])

\* FirstIllegal is the illegal statement that every earlier one precedes
\* legally, and 0 when there is none.
LEMMA FirstIllegalIs ==
    ASSUME TypeInv, NEW k \in 1..Len(updates), ~Legal(updates[k]),
           \A j \in 1..(k - 1) : Legal(updates[j])
    PROVE  FirstIllegal = k
<1>1. Len(updates) \in Nat
    BY LenProperties DEF TypeInv, TypeOK
<1> DEFINE c == CHOOSE i \in 1..Len(updates) :
                    /\ ~Legal(updates[i])
                    /\ \A j \in 1..(i - 1) : Legal(updates[j])
<1>2. c \in 1..Len(updates) /\ ~Legal(updates[c])
      /\ \A j \in 1..(c - 1) : Legal(updates[j])
    OBVIOUS
<1>3. c = k
    BY <1>1, <1>2
<1>. QED
    BY <1>3 DEF FirstIllegal

LEMMA NoIllegal ==
    ASSUME \A k \in 1..Len(updates) : Legal(updates[k])
    PROVE  FirstIllegal = 0
BY DEF FirstIllegal

LEMMA InitReplyInv == Init => ReplyInv
BY DEF Init, ReplyInv, Examined

LEMMA NextReplyInv == TypeInv /\ ReplyInv /\ [Next]_vars => ReplyInv'
<1> SUFFICES ASSUME TypeInv, ReplyInv, [Next]_vars PROVE ReplyInv'
    OBVIOUS
<1>1. /\ Len(updates) \in Nat
      /\ stmt \in 1..(Len(updates) + 1)
      /\ phase \in {"next", "apply", "done"}
    BY LenProperties DEF TypeInv, TypeOK
<1>2. UNCHANGED <<hasMetaField, updates, ordered>>
    BY DEF Next, Process, MatchStatement, RejectStatement, ApplyBucket,
           SkipImmutable, EndStatement, Finish, Migrate, Terminated, vars
<1>3. \A k : Legal(updates[k])' = Legal(updates[k])
    BY <1>2 DEF Legal, CollectionAcceptsUpdates
<1>4. CASE MatchStatement
    BY <1>1, <1>3, <1>4 DEF MatchStatement, ReplyInv, Examined
<1>5. CASE RejectStatement /\ ordered
    <2>1. stmt <= Len(updates) /\ ~Legal(updates[stmt])
          /\ phase' = "done" /\ stmt' = stmt /\ UNCHANGED ran
        BY <1>5 DEF RejectStatement
    <2>2. failed = 0
        BY <1>1, <1>5, <2>1 DEF ReplyInv, Examined, RejectStatement
    <2>3. failed' = stmt
        BY <1>5, <2>2 DEF RejectStatement
    <2>. QED
        BY <1>1, <1>2, <1>3, <1>5, <2>1, <2>2, <2>3 DEF ReplyInv, Examined
<1>6. CASE RejectStatement /\ ~ordered
    <2>1. stmt <= Len(updates) /\ ~Legal(updates[stmt])
          /\ phase = "next" /\ phase' = "next" /\ stmt' = stmt + 1
          /\ UNCHANGED ran
          /\ failed' = IF failed = 0 THEN stmt ELSE failed
        BY <1>6 DEF RejectStatement
    <2>. QED
        BY <1>1, <1>2, <1>3, <1>6, <2>1 DEF ReplyInv, Examined
<1>7. ASSUME NEW b \in Bucket, ApplyBucket(b) \/ SkipImmutable(b)
      PROVE  ReplyInv'
    <2>1. UNCHANGED <<phase, stmt, ran, failed>>
        BY <1>7 DEF ApplyBucket, SkipImmutable
    <2>. QED
        BY <1>2, <1>3, <2>1 DEF ReplyInv, Examined
<1>8. CASE EndStatement
    <2>1. phase = "apply" /\ phase' = "next" /\ stmt' = stmt + 1
          /\ UNCHANGED <<ran, failed>>
        BY <1>8 DEF EndStatement
    <2>2. stmt <= Len(updates)
        BY <2>1 DEF TypeInv
    <2>. QED
        BY <1>1, <1>2, <1>3, <2>1, <2>2 DEF ReplyInv, Examined
<1>9. CASE Finish
    <2>1. phase = "next" /\ phase' = "done" /\ stmt > Len(updates)
          /\ UNCHANGED <<stmt, ran, failed>>
        BY <1>9 DEF Finish
    <2>. QED
        BY <1>1, <1>2, <1>3, <2>1 DEF ReplyInv, Examined
<1>10. CASE (\E b \in Bucket : Migrate(b)) \/ Terminated \/ UNCHANGED vars
    <2>1. UNCHANGED <<phase, stmt, ran, failed>>
        BY <1>10 DEF Migrate, Terminated, vars
    <2>. QED
        BY <1>2, <1>3, <2>1 DEF ReplyInv, Examined
<1>. QED
    BY <1>4, <1>5, <1>6, <1>7, <1>8, <1>9, <1>10 DEF Next, Process


\* In a state where the reply has been sent, the invariants give the reply.
LEMMA ReplyFromInv ==
    ASSUME TypeInv, CountInv, ReplyInv, phase = "done"
    PROVE  ReplyIsExact
<1>1. Len(updates) \in Nat /\ stmt \in 1..(Len(updates) + 1)
    BY LenProperties DEF TypeInv, TypeOK
<1>2. n = Cardinality(writes)
    BY DEF CountInv
<1>3. CASE stmt = Len(updates) + 1
    <2>1. ran = {k \in 1..Len(updates) : Legal(updates[k])}
        BY <1>1, <1>3 DEF ReplyInv
    <2>2. CASE failed = 0
        <3>1. \A k \in 1..Len(updates) : Legal(updates[k])
            BY <1>1, <1>3, <2>2 DEF ReplyInv, Examined
        <3>2. FirstIllegal = 0
            BY <3>1, NoIllegal
        <3>. QED
            BY <1>2, <2>1, <2>2, <3>2 DEF ReplyIsExact, ExpectedRan
    <2>3. CASE failed # 0
        <3>1. /\ failed \in 1..Len(updates)
              /\ ~Legal(updates[failed])
              /\ \A j \in 1..(failed - 1) : Legal(updates[j])
            BY <1>1, <1>3, <2>3 DEF ReplyInv, Examined
        <3>2. FirstIllegal = failed
            BY <3>1, FirstIllegalIs
        <3>3. ~ordered
            BY <1>3, <3>1 DEF ReplyInv
        <3>. QED
            BY <1>2, <2>1, <3>2, <3>3 DEF ReplyIsExact, ExpectedRan
    <2>. QED
        BY <2>2, <2>3
<1>4. CASE stmt # Len(updates) + 1
    <2>1. /\ stmt \in 1..Len(updates)
          /\ ordered /\ ~Legal(updates[stmt])
          /\ \A k \in 1..(stmt - 1) : Legal(updates[k])
        BY <1>1, <1>4 DEF ReplyInv
    <2>2. FirstIllegal = stmt
        BY <2>1, FirstIllegalIs
    <2>3. ran = 1..(stmt - 1)
        BY <1>1, <2>1 DEF ReplyInv
    <2>4. failed = stmt
        <3>1. failed # 0
            BY <2>1 DEF ReplyInv, Examined
        <3>2. failed \in 1..stmt /\ ~Legal(updates[failed])
              /\ \A j \in 1..(failed - 1) : Legal(updates[j])
            BY <2>1, <3>1 DEF ReplyInv, Examined
        <3>. QED
            BY <1>1, <2>1, <3>2
    <2>. QED
        BY <1>2, <2>1, <2>2, <2>3, <2>4 DEF ReplyIsExact, ExpectedRan
<1>. QED
    BY <1>3, <1>4

\* The reply is exact (checked by TLC as ReplyIsExact): once it is sent,
\* the statements executed are those the ordered flag allows, the failure
\* reported is the first illegal statement, and n counts the bucket writes.
THEOREM ReplyExact == Spec => []ReplyIsExact
<1>1. Init => TypeInv /\ CountInv /\ ReplyInv
    BY InitTypeInv, InitCountInv, InitReplyInv
<1>2. TypeInv /\ CountInv /\ ReplyInv /\ [Next]_vars
        => (TypeInv /\ CountInv /\ ReplyInv)'
    BY NextTypeInv, NextCountInv, NextReplyInv
<1>3. TypeInv /\ CountInv /\ ReplyInv => ReplyIsExact
    BY ReplyFromInv DEF ReplyIsExact
<1>. QED
    BY <1>1, <1>2, <1>3, PTL DEF Spec

=============================================================================
