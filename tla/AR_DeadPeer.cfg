CONSTANTS
    World = 3
    Msgs <- OneCallMsgs
    WordsPerBlock = 1
    MinNb = 1
    MaxNb = 1
    MaxBlocks = 1
    SeqMod = 8
    Resident = 1
    SpinsOut = TRUE
    Alive = {0, 1}
SPECIFICATION FairForAlive
PROPERTIES
    AliveCallsReturn
