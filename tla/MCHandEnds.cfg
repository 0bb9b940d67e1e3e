\* Nobody folds: a hand ends.
CONSTANTS
    NumPlayers = 3
    MapOrder <- ReverseOrder
    InitialMoney = 2500
    InitialBet = 50
    UInt8 = 4
    DeckSize = 11
    DrawChoices = 1
    MaxHands = 1
    KeysUsed = {"Call", "Raise"}
    Impatient = {}
    MaxBet = 400
    MaxPot = 10000
    MaxInbox = 1
    MaxStray = 0
SPECIFICATION FairSpec
PROPERTY
    HandEnds
CHECK_DEADLOCK FALSE
