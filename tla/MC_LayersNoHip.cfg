CONSTANTS
    Focus = {"rotated stream"}
    MlEnvs <- ServingEnvs
    MlShapes <- Shapes
    MlRows <- LinearRows
    WhLayers <- HookLayers
    WhMeasured <- Measured
    WhRows = {1, 8, 16, 130}
    WhMaxRows = 64
    WhInstalls = 2
    DfModels <- DenseModels
    DfRows = {1, 6, 16, 17, 32, 64, 65, 80, 81, 1025, 4096}
    DfAlign = 16
    DfPlan <- DensePlan
    DfLanes <- ExpertLanes
    EsLayers <- EschaLayers
    EsRanks = 2
    EsIds = {"name", "index"}
    RlModes <- RotModes
    RlShapes <- RotShapes
    RlRows = {1, 64, 65, 513, 514}
    RqEnvs <- RequantEnvs
    RqLayers <- RequantLayers
    RqChunk = 2
    TpEnvs <- PadEnvs
    TpModels <- PadModels
    TpRenamed <- Renamed
    TpHooks = 2
    FsDepth = 3
    FsLayers <- StreamLayers
    FsSwitches <- StreamSwitches
    RsDepth = 3
    RsLayers <- LayersWithoutHip
    RsSwitches <- RotSwitches
    AoRows = {1, 3, 5}
    AoMinM = 3
    AoSlices = 2
    AoCalls = 3
    TrAddrs = {a, b}
    TrSites <- Sites
    TrRows = {16, 1024, 2048}
    TrMin = 513
    SkThreads = {0, 1}
    SkSplits = {2, 4}
    SkSlabs = {3}
    SkLaunches = 2
    AuEnvs <- RoundEnvs
    AuConfigs <- RoundConfigs
    AuModules <- RoundModules
    AuRows = {1, 16, 40, 63, 65, 112, 128, 129, 2048}
SPECIFICATION MCSpec
CHECK_DEADLOCK FALSE
INVARIANTS
    StreamWhole
