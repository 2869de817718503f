CONSTANTS
    Focus = {"verify head"}
    DgRanks = {0, 1}
    DgKeys <- GraphKeys
    DgAddresses = {11, 12}
    DgUnsafe = {1}
    DgPasses = 5
    PrRows = {1, 2, 3, 4, 5, 6, 10}
    PrSizes = {5, 10}
    HdModes <- HeadModes
    VhRequests <- AdjustingRequests
    VhSlots <- Slots
    VhRerank = 80
    VhMaxRows = 32
    VhWidths = {1, 8, 17}
    UaBatches <- AttnBatches
    UaContexts = {1, 4096, 131072}
    UaShapes <- AttnShapes
    UaEnv <- AttnEnv
    GsEnvs <- StepEnvs
    GsReqs = {1, 2}
    GsSpec = 2
    GsPrompts = {4}
    GsHeads = 24
    GsItems = 32
    GsPadding = {1}
    GsTurns = 2
    GsSteps = 3
    KgBuckets <- KvModels
    KgEnvs <- KvEnvs
    KgPool = 10412
    SpPatches <- Patches
    SpPristine <- OldFiles
    SpLines <- InOrder
    SpBaked <- Baked
    SpLaunch <- AtLaunch
    SpStarts = 3
    BdEnvs <- BlockEnvs
    BdSlots = {1, 2}
    BdSpec = 2
    BdTopK = 2
    BdVocab = 5
    BdTp = 2
    BdHeads <- BlockHeads
    BdPage = 2
    BdStride = 6
    BdBlocks = 8
    BdWindow = 2
    BdPrompts = {5}
    BdTaps = 3
    BdTurns = 2
    BdPasses = 2
    RaModels <- R4dModels
    RaBatches <- R4dBatches
    RaGraphs <- R4dGraphs
    RaMaxSeqs = 5
    RaMaxLen = 256
    RaGqa = 6
    RaRows = 64
    RaTarget = 8
    RaSteps = 1
    FuSeqs = {1, 2}
    FuH = 2
    FuHg = 1
    FuWarps = 2
    FuMaxWG = 2
    FuResident = 2
    FuPads = {0, 3}
    FuLaunches = 2
SPECIFICATION MCSpec
CHECK_DEADLOCK FALSE
INVARIANTS
    FastIsExact
