\* Two writes and three events, with a poll interval longer than the back-off.
SPECIFICATION FairSpec
CONSTANTS
    Backoff = 1
    Poll = 2
    MaxWrites = 2
    MaxEvents = 3
INVARIANTS
    TypeOK
    AnnouncementKept
PROPERTIES
    
    OfflineNoticed
CHECK_DEADLOCK FALSE
