SPECIFICATION StreamFairSpec
CONSTANTS
    MaxSegmentLen = 2
    MaxPageSegments = 2
    StreamSerial = 1
    PreSkip = 1
    TagLens <- MCTagLens
    PacketLens <- MCLossyPacketLens
    Durations <- MCDurations
    SourceLens <- MCSourceLens
    MaxPackets = 3
    MaxFails = 1
    AudioLimit = 6
    HeaderKeep = 3
    ForeignPages <- MCForeign
    MaxGaps = 1
CHECK_DEADLOCK FALSE
INVARIANTS
    WellFormed
    SegmentsInOrder
    ClosedIsComplete
    WholePacketsSurvive
    DurationExact
PROPERTY
    ReadsToEnd
