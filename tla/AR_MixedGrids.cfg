CONSTANTS
    World = 2
    Msgs <- MixedMsgs
    WordsPerBlock = 2
    MinNb = 1
    MaxNb = 2
    MaxBlocks = 2
    SeqMod = 8
    Resident = 2
    SpinsOut = FALSE
    Alive = {0, 1}
SPECIFICATION Spec
INVARIANTS
    NoScratchRace
