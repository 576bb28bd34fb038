SPECIFICATION CodingSpec
CONSTANTS
    ApiRate = 48
    ApiChannels = 2
    SilkMode = SilkMode
    Hybrid = Hybrid
    CeltMode = CeltMode
    NoMode = NoMode
    Packets <- MCPackets
    Capacities <- MCCapacities
    SymBits = 2
    CodeBits = 8
    WindowSize = 8
    UintBits = 2
    Sym = 4
    Bot = 32
    Symbols <- MCSymbols
    Storages <- MCStorages
    Inputs <- MCInputs
    Tails <- MCTails
    Patches <- MCPatches
    Trials = {1}
    MaxSymbols = 4
    MaxTrial = 3
    MaxTell = 6
    Topics = {"decoder"}
CHECK_DEADLOCK FALSE
INVARIANT
    DiscardsCelt
