\* One tab of the laptop with two calls under way, one tab of the server.
SPECIFICATION Spec
CONSTANTS
    Tab = {a1}
    Seat = {b1}
    NoOwner = NoOwner
    TTL = 3
    Validity = 2
    Timeout = 1
    MaxTime = 6
    MaxGrants = 2
    MaxCalls = 2
    MaxOutages = 1
INVARIANTS
    TypeOK
    
    
PROPERTY RegistriesFenced
