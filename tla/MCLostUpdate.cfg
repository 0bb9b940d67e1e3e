\* One key out of turn while the blinds are collected.
CONSTANTS
    NumPlayers = 3
    MapOrder <- ReverseOrder
    InitialMoney = 2500
    InitialBet = 50
    UInt8 = 4
    DeckSize = 11
    DrawChoices = 1
    MaxHands = 1
    KeysUsed = {"Call"}
    Impatient = {1}
    MaxBet = 100
    MaxPot = 1300
    MaxInbox = 1
    MaxStray = 1
SPECIFICATION Spec
INVARIANT
    UpdatesAreNotLost
CHECK_DEADLOCK FALSE
