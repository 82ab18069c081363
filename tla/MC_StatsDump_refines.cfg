\* A full port stats dump against the abstract reply promise.
CONSTANTS
    MaxPorts = 4
    Cap = 2
    MaxChurn = 0
    MaxFrags = 4
    NTables = 2
    FlowPos = 2
    BigFlows <- MC_BigFlows
    InitFlows <- MC_InitFlows
    Requests <- MC_FullDump

SPECIFICATION Spec

PROPERTY ImplementsStatsReply
