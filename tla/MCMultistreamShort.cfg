SPECIFICATION Spec
CONSTANTS
    Fs = 48000
    Configs <- MCShortConfigs
INVARIANT
    AtLeastTwoBytes
