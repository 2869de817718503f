CONSTANTS
    NSpec = 3
    Tau = 50
    Scale = 100
    Confs = {60, 90}
    Schedule <- CapAtTwo
    MaxBatch = 2
    MaxSteps = 2
    NoSlot = NoSlot
    DwRequests = {r1, r2}
    DwFull = 2
    DwModes = {"async", "sync"}
    DwKnobs <- Knobs
    DwSteps = 7
SPECIFICATION MCSpec
CHECK_DEADLOCK FALSE
INVARIANTS
    BatchIndependent
    NoWastedForward
    AgreementStops
    WidthEarned
PROPERTIES
    DecisionFrozen
    ImplementsInline
    PinIsPending
