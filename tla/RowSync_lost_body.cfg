\* An edit while the push of the previous one is on its way.
SPECIFICATION Spec
CONSTANTS
    Memo = {m1}
    Bootstrapped = {m1}
    MaxEdits = 4
    MaxAborts = 0
    MaxFailures = 0
    BatchLimit = 2
    Gaps = {1}
    Skew = 0
PROPERTY NothingLost
