------------------------- MODULE RemoteOpWaitProofs -------------------------
(***************************************************************************)
(* Proofs about the remote-wait accounting of RemoteOpWait, for every set  *)
(* of shards and every bound on the clock and on the commands.             *)
(***************************************************************************)
EXTENDS RemoteOpWait, SequenceTheorems, TLAPS

(***************************************************************************)
(* RemoteWaitWithinDuration is about the log only; it is kept by End       *)
(* because, while a command runs, the wait it has accumulated plus the     *)
(* interval it is blocked in is at most the time since it began; and       *)
(* between commands nothing is outstanding and the merger is not blocked.  *)
(***************************************************************************)
WaitBound ==
    /\ cmd = None => outstanding = {} /\ ~blocked
    /\ cmd # None /\ ~blocked => remoteWait <= now - start
    /\ cmd # None /\ blocked => remoteWait + (now - blockStart) <= now - start

WaitInv == TypeOK /\ WaitBound /\ RemoteWaitWithinDuration

LEMMA InitWaitInv == Init => WaitInv
<1> SUFFICES ASSUME Init PROVE WaitInv
    OBVIOUS
<1>1. log \in Seq(LogLine) /\ Len(log) = 0
    BY EmptySeq DEF Init
<1>2. TypeOK
    <2>1. now \in 0..MaxTime /\ start \in 0..now /\ blockStart \in 0..now
        BY BoundsAssumption DEF Init
    <2>2. cmd \in Cmd \cup {None}
        BY DEF Init
    <2>3. outstanding \subseteq Shard /\ blocked \in BOOLEAN /\ remoteWait \in Nat
        BY DEF Init
    <2>. QED
        BY <1>1, <2>1, <2>2, <2>3 DEF TypeOK
<1>3. WaitBound
    BY DEF Init, WaitBound
<1>4. RemoteWaitWithinDuration
    BY <1>1 DEF RemoteWaitWithinDuration
<1>. QED
    BY <1>2, <1>3, <1>4 DEF WaitInv

LEMMA NextWaitInv == WaitInv /\ [Next]_vars => WaitInv'
<1> SUFFICES ASSUME WaitInv, [Next]_vars PROVE WaitInv'
    OBVIOUS
<1>. USE DEF WaitInv, TypeOK, WaitBound
<1>1. Len(log) \in Nat /\ MaxTime \in Nat /\ MaxCmds \in Nat /\ None \notin Cmd
    BY LenProperties, BoundsAssumption DEF None, Cmd
<1>2. ASSUME NEW c \in Cmd, Begin(c) PROVE WaitInv'
    <2>1. cmd = None /\ ~blocked /\ ~blocked'
        BY <1>2 DEF Begin
    <2>2. TypeOK'
        BY <1>1, <1>2 DEF Begin
    <2>3. WaitBound'
        BY <1>1, <1>2, <2>1 DEF Begin
    <2>4. RemoteWaitWithinDuration'
        BY <1>2 DEF Begin, RemoteWaitWithinDuration
    <2>. QED
        BY <2>2, <2>3, <2>4
<1>3. CASE Block
    BY <1>1, <1>3 DEF Block, RemoteWaitWithinDuration
<1>4. ASSUME NEW s \in Shard, Respond(s) PROVE WaitInv'
    <2>1. cmd # None
        BY <1>4 DEF Respond
    <2>2. CASE blocked
        <3>1. /\ blocked' = FALSE
              /\ remoteWait' = remoteWait + (now - blockStart)
              /\ outstanding' \subseteq Shard
              /\ UNCHANGED <<now, cmd, start, blockStart, log>>
            BY <1>4, <2>2 DEF Respond
        <3>2. remoteWait' \in Nat /\ remoteWait' <= now - start
            BY <1>1, <2>1, <2>2, <3>1
        <3>3. TypeOK'
            BY <3>1, <3>2
        <3>4. WaitBound'
            BY <2>1, <3>1, <3>2
        <3>5. RemoteWaitWithinDuration'
            BY <3>1 DEF RemoteWaitWithinDuration
        <3>. QED
            BY <3>3, <3>4, <3>5
    <2>3. CASE ~blocked
        BY <1>1, <1>4, <2>1, <2>3 DEF Respond, RemoteWaitWithinDuration
    <2>. QED
        BY <2>2, <2>3
<1>5. CASE Tick
    BY <1>1, <1>5 DEF Tick, RemoteWaitWithinDuration
<1>6. CASE End
    <2> DEFINE line == [cmd          |-> cmd,
                        reported     |-> cmd \in ReportsRemoteOpWait,
                        remoteOpWait |-> remoteWait,
                        duration     |-> now - start]
    <2>1. log' = Append(log, line) /\ cmd # None /\ ~blocked
        BY <1>6 DEF End
    <2>2. line \in LogLine /\ line.remoteOpWait <= line.duration
        BY <1>1, <2>1 DEF LogLine
    <2>3. /\ log' \in Seq(LogLine)
          /\ Len(log') = Len(log) + 1
          /\ \A i \in 1..Len(log) : log'[i] = log[i]
          /\ log'[Len(log) + 1] = line
        BY <2>1, <2>2, AppendProperties
    <2>4. RemoteWaitWithinDuration'
        <3> SUFFICES ASSUME NEW i \in 1..Len(log')
                     PROVE  /\ log'[i].reported <=> log'[i].cmd \in ReportsRemoteOpWait
                            /\ log'[i].reported => log'[i].remoteOpWait <= log'[i].duration
            BY DEF RemoteWaitWithinDuration
        <3>1. CASE i \in 1..Len(log)
            <4>1. log'[i] = log[i]
                BY <2>3, <3>1
            <4>2. /\ log[i].reported <=> log[i].cmd \in ReportsRemoteOpWait
                  /\ log[i].reported => log[i].remoteOpWait <= log[i].duration
                BY <3>1 DEF RemoteWaitWithinDuration
            <4>. QED
                BY <4>1, <4>2
        <3>2. CASE i = Len(log) + 1
            <4>1. log'[i] = line
                BY <2>3, <3>2
            <4>2. /\ line.reported <=> line.cmd \in ReportsRemoteOpWait
                  /\ line.remoteOpWait <= line.duration
                BY <2>2
            <4>. QED
                BY <4>1, <4>2, Zenon
        <3>. QED
            BY <1>1, <2>3, <3>1, <3>2
    <2>. QED
        BY <1>6, <2>3, <2>4 DEF End
<1>7. CASE AllLogged \/ UNCHANGED vars
    BY <1>7 DEF AllLogged, vars, RemoteWaitWithinDuration
<1>. QED
    BY <1>2, <1>3, <1>4, <1>5, <1>6, <1>7 DEF Next

\* Every logged remoteOpWaitMillis is at most the command's duration and
\* appears exactly for the aggregation commands, for any number of shards
\* and any order of their responses (checked by TLC on two shards).
THEOREM RemoteWaitBounded == Spec => []RemoteWaitWithinDuration
<1>1. Spec => []WaitInv
    BY InitWaitInv, NextWaitInv, PTL DEF Spec
<1>. QED
    BY <1>1, PTL DEF WaitInv

-----------------------------------------------------------------------------
\* Every reachable state of the remote-wait accounting is well typed: the
\* clock stays in bounds, a command's start and a block's start are never
\* in the future, and every log line is a well-formed line.
THEOREM WaitTypeCorrect == Spec => []TypeOK
<1>1. Spec => []WaitInv
    BY InitWaitInv, NextWaitInv, PTL DEF Spec
<1>. QED
    BY <1>1, PTL DEF WaitInv

=============================================================================
