\* Three seats, and a client too many.
CONSTANTS
    Clients = {c1, c2, c3, c4}
    Seats = 3
    Nobody = nobody
SPECIFICATION FairSpec
INVARIANTS
    SeatsAgree
    TableCloses
    NoListRace
    OpenAreListed
    BroadcastReaches
PROPERTIES
    LeaverIsAwaited
    EnoughCome
CHECK_DEADLOCK FALSE
