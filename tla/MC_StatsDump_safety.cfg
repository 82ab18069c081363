\* The dump engine's own bookkeeping: every dump ends and releases its state.
CONSTANTS
    MaxPorts = 4
    Cap = 2
    MaxChurn = 2
    MaxFrags = 4
    NTables = 2
    FlowPos = 2
    BigFlows <- MC_BigFlows
    InitFlows <- MC_InitFlows
    Requests <- MC_Requests

SPECIFICATION Spec

INVARIANT TypeOK
INVARIANT StateReleased
PROPERTY DumpEnds
PROPERTY PromiseKeptOnFirstDatapath
