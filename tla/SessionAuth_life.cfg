\* Two threads, one socket, three refresh tokens, one failed database call or one restart.
SPECIFICATION Spec
CONSTANTS
    Workers = {t1, t2}
    Sockets = {s1}
    MaxTokens = 3
    MaxRequests = 2
    MaxTroubles = 1
INVARIANTS
    TypeOK
    LoggedOutStaysOut
    NoSpentToken
    RowFollowsMemory
    
    SocketsWatched
SYMMETRY WorkerSymmetry
CHECK_DEADLOCK FALSE
