\* Players who only answer a Sync.
CONSTANTS
    NumPlayers = 3
    MapOrder <- ReverseOrder
    InitialMoney = 2500
    InitialBet = 50
    UInt8 = 4
    DeckSize = 11
    DrawChoices = 1
    MaxHands = 2
    KeysUsed = {"Fold", "Call", "Raise"}
    Impatient = {}
    MaxBet = 100
    MaxPot = 1300
    MaxInbox = 1
    MaxStray = 0
SPECIFICATION Spec
INVARIANTS
    TypeOK
    BetNeverExceedsCurrent
    Handoff
    NoConcurrentHandler
    ActsInTurn
    RoundEndsEven
    BetsAreBacked
    PotCoversPayments
    UpdatesAreNotLost
    ShowdownIsComplete
PROPERTY
    ImplementsAtomicTable
CHECK_DEADLOCK FALSE
