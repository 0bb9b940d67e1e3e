\* A folded player takes part in the showdown.
CONSTANTS
    NumPlayers = 3
    MapOrder <- ReverseOrder
    InitialMoney = 2500
    InitialBet = 50
    UInt8 = 4
    DeckSize = 11
    DrawChoices = 1
    MaxHands = 1
    KeysUsed = {"Call", "Fold"}
    Impatient = {}
    MaxBet = 100
    MaxPot = 1300
    MaxInbox = 1
    MaxStray = 0
SPECIFICATION Spec
INVARIANT
    FoldedNeverWins
CHECK_DEADLOCK FALSE
