\* Stats requests, a vendor request and one without its OPENFLOW attribute.
CONSTANTS
    MaxPorts = 4
    Cap = 2
    MaxChurn = 0
    MaxFrags = 4
    NTables = 2
    FlowPos = 2
    BigFlows <- MC_BigFlows
    InitFlows <- MC_InitFlows
    Requests <- MC_NullDerefRequests

SPECIFICATION Spec

INVARIANT NoNullDeref
