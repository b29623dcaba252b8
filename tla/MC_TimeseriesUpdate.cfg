CONSTANTS
    Bucket <- MCBucket
    Meta <- MCMeta
    Stmt <- MCStmt
    MaxStmts = 3
SPECIFICATION Spec
INVARIANTS
    TypeOK
    SequentialOutcome
    ReplyIsExact
PROPERTIES
    RequestTerminates
