\* Two memos, so that a pulled batch may hold two conflicts; three writes, by clocks two
\* ticks apart, and one lost connection, then everything must settle.
SPECIFICATION FairSpec
CONSTANTS
    Memo = {m1, m2}
    Bootstrapped = {m1, m2}
    MaxEdits = 3
    MaxAborts = 1
    MaxFailures = 0
    BatchLimit = 2
    Gaps = {1}
    Skew = 2
INVARIANTS
    BatchOrderIrrelevant
    
    SettledAgree
PROPERTY EventuallySettled
