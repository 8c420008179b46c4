\* One project of the account and one of somebody else, two memos, one merge at a time.
SPECIFICATION Spec
CONSTANTS
    Project = {p1, p2}
    Memo = {m1, m2}
    Own = {p1}
    Thread = {t1}
    BatchLimit = 2
    MaxSeq = 4
INVARIANTS
    TypeOK
    
    DeferredExplained
 
CHECK_DEADLOCK FALSE
