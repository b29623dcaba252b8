CONSTANTS
    Shard = {s1, s2}
    MaxTime = 4
    MaxCmds = 2
SPECIFICATION Spec
INVARIANTS
    TypeOK
    RemoteWaitWithinDuration
