\* One frame's output on a datapath with two port slots and the local port,
\* against up to two PORT_MODs and one DEL_PORT unlink.
CONSTANTS
    e1 = e1
    e2 = e2
    lo = lo
    none = none
    MaxPorts = 3
    Devs <- MC_Devs
    LocalDev <- lo
    NoDev <- none
    MaxPortMods = 2
    Mtu <- MC_Mtu
    Frames <- MC_Frames

SPECIFICATION Spec
INVARIANT TypeOK NoTransmitOnIngress FloodHonoursNoFlood EligiblePortsServedOnce OrigConsumedOnce
