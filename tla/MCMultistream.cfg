SPECIFICATION Spec
CONSTANTS
    Fs = 48000
    Configs <- MCConfigs
INVARIANTS
    PacketsAsAsked
    InputContinues
    DtxBounded
    ChannelsKept
PROPERTIES
    DecisionsFollowRate
