\* A memo created and edited twice between two cycles.
SPECIFICATION FairSpec
CONSTANTS
    Memo = {m1}
    Bootstrapped = {}
    MaxEdits = 3
    MaxAborts = 0
    MaxFailures = 0
    BatchLimit = 4
    Gaps = {1}
    Skew = 0
PROPERTY EventuallySettled
