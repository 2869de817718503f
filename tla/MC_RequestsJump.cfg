CONSTANTS
    Focus = {"state"}
    Req = {r1, r2}
    Tok = {a, b}
    NRows = 2
    MaxLen = 4
    MinMatch = 1
    MaxMatch = 2
    Shift = 4
    NSpec = 2
    GlReq = {r1, r2}
    Block = {b1, b2, b3}
    Null = null
    BlockSize = 4
    GlNSpec = 3
    MaxT = 4
    Length = 9
    Prompts = {1, 5, 9}
    HitReach = 2
    GbGroups = 2
    GbBatches <- Batches
    GbMaxBatch = 7
    GbShare = TRUE
    GbSteps = 2
SPECIFICATION MCSpec
SYMMETRY Alike
INVARIANTS
    StartsFromContext
