CONSTANTS
    World = 2
    NSpec = 3
    MaxSteps = 2
    Kinds = {"matcher", "local"}
    Req = {a, b, c}
    Lengths = {3, 23}
    Block = 4
    Cap = 7
    Big = 8
    Width = 1
    Pruned = 1
    Sync = TRUE
SPECIFICATION MCFairSpec
CHECK_DEADLOCK FALSE
INVARIANTS
    Rendezvous
    DraftsAgree
PROPERTIES
    LoopsEnd
    PassedOverForTails
    BigStepsRunAlone
    PromptsFinish
