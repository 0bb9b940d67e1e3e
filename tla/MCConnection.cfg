CONSTANT
    MaxSends <- FewSends
SPECIFICATION FairSpec
INVARIANTS
    OneWriteInFlight
    InOrder
    TextArrives
    Streams
PROPERTIES
    Arrives
    QuitIsNoticed
CHECK_DEADLOCK FALSE
