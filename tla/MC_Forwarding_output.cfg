\* The same model, checking that each output is made on the ports the spec names.
CONSTANTS
    e1 = e1
    e2 = e2
    lo = lo
    none = none
    MaxPorts = 3
    Devs <- MC_Devs
    LocalDev <- lo
    NoDev <- none
    MaxPortMods = 2
    Mtu <- MC_Mtu
    Frames <- MC_Frames

SPECIFICATION Spec
INVARIANT OutputAsSpecified
