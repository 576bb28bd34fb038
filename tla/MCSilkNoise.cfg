\* A good frame of one length, then a concealed one of another.
SPECIFICATION PitchSpec
CONSTANTS
    Contours = {1, 11}
    MidLag = 5
INVARIANT NoiseFromLastTwo
CHECK_DEADLOCK FALSE
