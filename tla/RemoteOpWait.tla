---------------------------- MODULE RemoteOpWait ----------------------------
(***************************************************************************)
(* The remoteOpWaitMillis figure of the slow-query log, as exercised by    *)
(* jstests/sharding/log_remote_op_wait.js.                                 *)
(*                                                                         *)
(* A merging node (mongos, or a shard running $mergeCursors) runs one      *)
(* command at a time.  It sends requests to the targeted shards, and when  *)
(* it needs a result that has not arrived it blocks until a response comes *)
(* in; the time it spends blocked is added to the command's remote wait.   *)
(* When the command ends a log line is written with its duration and, for  *)
(* aggregations (aggregate, a getMore on an aggregation cursor, a change   *)
(* stream, a $mergeCursors on a shard), remoteOpWaitMillis.  find and      *)
(* listCollections log no remoteOpWaitMillis.                              *)
(*                                                                         *)
(* Time is a clock of whole milliseconds that advances by Tick.            *)
(***************************************************************************)
EXTENDS Naturals, Sequences

CONSTANTS
    Shard,      \* the shards a command targets
    MaxTime,    \* bound on the clock
    MaxCmds     \* bound on the number of commands run

ASSUME BoundsAssumption == MaxTime \in Nat /\ MaxCmds \in Nat

\* The commands of the test.
Cmd == {"aggregate", "getMore", "watch", "mergeCursors", "find",
        "listCollections"}

\* The commands whose log line carries remoteOpWaitMillis.
ReportsRemoteOpWait == {"aggregate", "getMore", "watch", "mergeCursors"}

None == "none"

VARIABLES
    now,          \* the merging node's clock, in milliseconds
    cmd,          \* the command running, or None
    start,        \* the clock when it started
    outstanding,  \* the shards whose response has not arrived
    blocked,      \* the merger is blocked waiting for a response
    blockStart,   \* the clock when it blocked
    remoteWait,   \* the command's accumulated remote wait
    log           \* the log lines written so far

vars == <<now, cmd, start, outstanding, blocked, blockStart, remoteWait, log>>

\* A log line; "reported" tells whether remoteOpWaitMillis appears in it.
LogLine == [cmd : Cmd, reported : BOOLEAN, remoteOpWait : Nat, duration : Nat]

-----------------------------------------------------------------------------
Init ==
    /\ now = 0
    /\ cmd = None
    /\ start = 0
    /\ outstanding = {}
    /\ blocked = FALSE
    /\ blockStart = 0
    /\ remoteWait = 0
    /\ log = <<>>

\* Mutant: the remote wait is not reset when a new command starts.
BeginNoReset(c) ==
    /\ cmd = None
    /\ Len(log) < MaxCmds
    /\ cmd' = c
    /\ start' = now
    /\ outstanding' = Shard
    /\ UNCHANGED <<now, blocked, blockStart, remoteWait, log>>

\* A command arrives and its requests go out to every shard (the test's
\* pipelines and queries target both shards).
Begin(c) ==
    /\ cmd = None
    /\ Len(log) < MaxCmds
    /\ cmd' = c
    /\ start' = now
    /\ remoteWait' = 0
    /\ outstanding' = Shard
    /\ UNCHANGED <<now, blocked, blockStart, log>>

\* Mutant: the block start is stamped one millisecond late.
BlockLate ==
    /\ cmd # None
    /\ outstanding # {}
    /\ ~blocked
    /\ blocked' = TRUE
    /\ blockStart' = now + 1
    /\ UNCHANGED <<now, cmd, start, outstanding, remoteWait, log>>

\* The merger needs the next result and none has arrived: it blocks.
Block ==
    /\ cmd # None
    /\ outstanding # {}
    /\ ~blocked
    /\ blocked' = TRUE
    /\ blockStart' = now
    /\ UNCHANGED <<now, cmd, start, outstanding, remoteWait, log>>

\* A shard's response arrives; a blocked merger wakes up and adds the time
\* it was blocked to the remote wait.
Respond(s) ==
    /\ s \in outstanding
    /\ outstanding' = outstanding \ {s}
    /\ IF blocked
         THEN /\ blocked' = FALSE
              /\ remoteWait' = remoteWait + (now - blockStart)
         ELSE UNCHANGED <<blocked, remoteWait>>
    /\ UNCHANGED <<now, cmd, start, blockStart, log>>

\* A millisecond passes, the merger blocked or working.
Tick ==
    /\ now < MaxTime
    /\ now' = now + 1
    /\ UNCHANGED <<cmd, start, outstanding, blocked, blockStart, remoteWait, log>>

\* Every response is in: the command ends and writes its log line.
End ==
    /\ cmd # None
    /\ outstanding = {}
    /\ ~blocked
    /\ log' = Append(log,
                [cmd          |-> cmd,
                 reported     |-> cmd \in ReportsRemoteOpWait,
                 remoteOpWait |-> remoteWait,
                 duration     |-> now - start])
    /\ cmd' = None
    /\ UNCHANGED <<now, start, outstanding, blocked, blockStart, remoteWait>>

\* The run, like the test, ends: every command has been logged.
AllLogged ==
    /\ cmd = None
    /\ Len(log) = MaxCmds
    /\ UNCHANGED vars

Next ==
    \/ \E c \in Cmd : Begin(c)
    \/ Block
    \/ \E s \in Shard : Respond(s)
    \/ Tick
    \/ End
    \/ AllLogged

Spec == Init /\ [][Next]_vars

-----------------------------------------------------------------------------
TypeOK ==
    /\ now \in 0..MaxTime
    /\ cmd \in Cmd \cup {None}
    /\ start \in 0..now
    /\ outstanding \subseteq Shard
    /\ blocked \in BOOLEAN
    /\ blockStart \in 0..now
    /\ remoteWait \in Nat
    /\ log \in Seq(LogLine)

\* Every logged remoteOpWaitMillis is at most the command's duration,
\* however the responses of the shards overlap (assert.lte in the test),
\* and it is logged exactly for the aggregation commands.
RemoteWaitWithinDuration ==
    \A i \in 1..Len(log) :
        /\ log[i].reported <=> log[i].cmd \in ReportsRemoteOpWait
        /\ log[i].reported => log[i].remoteOpWait <= log[i].duration

=============================================================================
