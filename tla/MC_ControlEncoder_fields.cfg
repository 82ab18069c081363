\* The same model, checking the numeric fields against spec sections 4.7 and 6.
CONSTANTS
    HZ = 4
    Ages <- MC_Ages
    FrameLens <- MC_FrameLens
    MaxLens <- MC_MaxLens
    EchoLens <- MC_EchoLens
    ErrDataLens <- MC_ErrDataLens
    Slots <- MC_Slots

SPECIFICATION Spec
INVARIANT EncodingAsSpecified
