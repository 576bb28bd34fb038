SPECIFICATION AlgorithmsSpec
CONSTANTS
    Tocs <- MCTocs
    Bytes <- MCBytes
    MaxLen = 5
    Packets <- MCPackets
    Buffers <- MCBuffers
    MaxHeld = 2
    CaptureLen = 2
    MaxPageLen = 3
    SourceLen = 11
    MaxPatterns = 2
    MaxInt = 7
    PieceSizes = {0, 1, 2, 5, 7}
    MaxPieces = 4
    Frames <- MCFrames
    BandJobs <- MCJobs
    SplitBands = {0, 12, 17}
    BudgetSteps = {1, 4, 9}
    CutAngles <- MCAngles
    Models <- MCModels
    EnergyValues <- MCEnergies
    Angles <- MCResolutions
    MaxN = 5
    MaxK = 5
    DurationCap = 40
    Received <- MCReceived
    LostSizes = {3}
    Watched = 20
    Ends = {19, 21}
    f1 = f1
    ShapeBands = {0, 8, 15, 19}
    Pulses = {1}
    TfFrames <- MCTfFrames
    Importances = {13, 52}
    MaxMeasured = 3
    NlsfRange = 14
    Distances <- MCDistances
    StabilizeLoops = 20
    Filters = {f1, off}
    Off = off
    Kinds <- MCKinds
    Layouts <- MCLayouts
    MaxCalls = 2
    Contours = {1, 11, 33, 34}
    MidLag = 5
    FrameLengths = {1, 10, 20}
    MaxMs = 22
CHECK_DEADLOCK FALSE
INVARIANTS
    ParsesLayout
    FramesKept
    ScanExact
    CeilingHolds
    AllocationExact
    FoldsFromCoded
    BandsInBudget
    SymbolsRoundTrip
    FramesContinue
    Transparent
    TfCheapest
    NlsfApart
    HistoryReaches
    ResamplerExact
