\* Persistent sessions, no failed database call, no restart.
SPECIFICATION Spec
CONSTANTS
    Workers = {t1}
    Sockets = {s1}
    MaxTokens = 2
    MaxRequests = 2
    MaxTroubles = 0
INVARIANT LogoutErasesAll
CHECK_DEADLOCK FALSE
