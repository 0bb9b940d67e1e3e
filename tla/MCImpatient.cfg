\* One player presses one key out of turn.
CONSTANTS
    NumPlayers = 3
    MapOrder <- ReverseOrder
    InitialMoney = 2500
    InitialBet = 50
    UInt8 = 4
    DeckSize = 11
    DrawChoices = 1
    MaxHands = 1
    KeysUsed = {"Ping", "Fold", "Call", "Raise"}
    Impatient = {1}
    MaxBet = 100
    MaxPot = 250
    MaxInbox = 2
    MaxStray = 1
SPECIFICATION Spec
INVARIANTS
    TurnsInOrder
    EveryoneActs
CHECK_DEADLOCK FALSE
