CONSTANTS
    World = 2
    Msgs <- UniformMsgs
    WordsPerBlock = 1
    MinNb = 2
    MaxNb = 2
    MaxBlocks = 2
    SeqMod = 8
    Resident = 2
    SpinsOut = FALSE
    Alive = {0, 1}
SPECIFICATION FairSpec
INVARIANTS
    TypeOK
    SumsThisCall
    NoScratchRace
    RankParity
    AtMostOneCallAhead
PROPERTIES
    AllCallsReturn
    ImplementsCollectiveSum
