\* Every sender, against a packet store of two buffers and failing allocations.
CONSTANTS
    HZ = 4
    Ages <- MC_Ages
    FrameLens <- MC_FrameLens
    MaxLens <- MC_MaxLens
    EchoLens <- MC_EchoLens
    ErrDataLens <- MC_ErrDataLens
    Slots <- MC_Slots

SPECIFICATION Spec
INVARIANT TypeOK
