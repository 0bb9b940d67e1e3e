CONSTANTS
    Pushers = {p1, p2}
    Consumer = c
    NoOne = none
    MaxItems = 3
SPECIFICATION FairSpec
INVARIANTS
    NoLostWakeup
    PollingNeverWaits
PROPERTIES
    IsAtomicQueue
    MessagesAreTaken
CHECK_DEADLOCK FALSE
