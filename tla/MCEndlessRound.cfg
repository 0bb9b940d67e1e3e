\* A fold below the current bet.
CONSTANTS
    NumPlayers = 3
    MapOrder <- ReverseOrder
    InitialMoney = 2500
    InitialBet = 50
    UInt8 = 4
    DeckSize = 11
    DrawChoices = 1
    MaxHands = 1
    KeysUsed = {"Fold"}
    Impatient = {}
    MaxBet = 100
    MaxPot = 1300
    MaxInbox = 1
    MaxStray = 0
SPECIFICATION FairSpec
PROPERTY
    BettingRoundEnds
CHECK_DEADLOCK FALSE
