\* The second distribution and its comment.
CONSTANTS
    RowCount = 3
    RowSize = 2
    HandValues = {1, 2}
    TableSize = 8
    Modulus = 8
    RANK_COUNT = 6
    Deck <- MCDeck
    Bytes = {0, 1}
    Sizes = {1, 2}
    Lengths = {0, 1, 3}
    MaxBody = 3
    Pieces <- MCPieces
    MaxPieces = 4
    Cards = {0, 1, 2, 3, 4, 5}
    Ranges <- MCRanges
    Limits = {0, 1, 2, 4, 8}
    MaxPlayers = 3
    HalfBits = 4
    RngBits = 4
    LcgA = 21
    LcgC = 217
    ChunkBits = 3
    MaxRange = 24
SPECIFICATION Spec
INVARIANT
    DrawsWithoutBias
CHECK_DEADLOCK FALSE
