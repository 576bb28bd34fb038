SPECIFICATION EncodingSpec
CONSTANTS
    MaxSegmentLen = 2
    MaxPageSegments = 2
    StreamSerial = 1
    PreSkip = 3
    TagLens <- MCTagLens
    PacketLens <- MCPacketLens
    Durations <- MCDurations
    SourceLens <- MCSourceLens
    MaxPackets = 9
    MaxFails = 1
    FrameLen = 3
    RateRatio = 2
    BytesPerSample = 2
    CallSizes <- MCCallSizes
    MaxBytes = 14
    MaxResets = 1
    Kinds <- MCKinds
    Buffers = {2, 4, 13}
    Targets = {0, 500}
    MaxBoosts = 2
    Topics = {"container"}
CHECK_DEADLOCK FALSE
INVARIANT
    SourceIsConsumed
