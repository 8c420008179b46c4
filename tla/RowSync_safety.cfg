\* A memo created on either node; four writes, one lost connection, one row
\* whose application raises; a batch of three can hold a version whose memo fails.
SPECIFICATION Spec
CONSTANTS
    Memo = {m1}
    Bootstrapped = {}
    MaxEdits = 4
    MaxAborts = 1
    MaxFailures = 1
    BatchLimit = 3
    Gaps = {0, 1}
    Skew = 0
INVARIANTS
    TypeOK
    OnePayloadPerSeq
    AppliedOnce
    NothingStranded
    SettledAgree
PROPERTIES
    NoRegression
    ExactlyOnce
