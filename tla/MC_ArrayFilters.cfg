CONSTANTS
    Bucket = {b1, b2}
    Num <- MCNum
    Stmt <- MCStmt
    MaxSteps = 3
SPECIFICATION Spec
INVARIANTS TypeOK
