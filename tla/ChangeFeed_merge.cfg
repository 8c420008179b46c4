\* Every row is the account's: a merge, one other write and the pull.
SPECIFICATION Spec
CONSTANTS
    Project = {p1}
    Memo = {m1, m2}
    Own = {p1}
    Thread = {t1}
    BatchLimit = 2
    MaxSeq = 3
INVARIANT MergesArrive
CHECK_DEADLOCK FALSE
