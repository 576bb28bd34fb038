SPECIFICATION DecoderFairSpec
CONSTANTS
    Eos = Eos
    NoEos = NoEos
    Chained = Chained
    Cut = Cut
    BadPacket = BadPacket
    Huge = Huge
    HugeNoEos = HugeNoEos
    OnTags = OnTags
    OverClaim = OverClaim
    MaxSegmentLen = 2
    MaxPageSegments = 2
    Serial = 1
    ScanWindow = 5
    AudioLimit = 6
    PreRoll = 2
    SampleBytes = 2
    ReadSizes = {3}
    Targets = {1, 5, 12}
    MaxFaults = 1
    MaxResets = 1
    Files <- MCFiles
    Played <- MCPlayed
    NextFiles <- MCNextFiles
INVARIANTS
    IndexExact
PROPERTIES
    ReadsInPlace
    SeekReaches
    CallsReturn
