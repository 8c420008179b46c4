SPECIFICATION Spec
CONSTANTS
    Project = {p1, p2}
    Memo = {m1, m2}
    User = {u1, u2}
    Admin = {u1}
    ServiceOwner = {u1}
    Title = {x}
    Thread = {t1, t2}
    MaxBody = 1
    MaxVersions = 2
    MaxRequests = 2
INVARIANTS
    TypeOK
    OwnersStay
PROPERTIES
    NothingErased
    
    ProjectMergeComplete
CHECK_DEADLOCK FALSE
SYMMETRY Symmetry
