SPECIFICATION StreamSpec
CONSTANTS
    MaxSegmentLen = 2
    MaxPageSegments = 2
    StreamSerial = 1
    PreSkip = 1
    TagLens <- MCTagLens
    PacketLens <- MCPacketLens
    Durations <- MCTwoDurations
    SourceLens <- MCSourceLens
    MaxPackets = 3
    MaxFails = 0
    AudioLimit = 6
    HeaderKeep = 3
    ForeignPages <- MCForeign
    MaxGaps = 0
CHECK_DEADLOCK FALSE
INVARIANT
    GranulesExact
PROPERTY
    DeliversPackets
