\* Safety of port and datapath lifecycle under concurrent receive contexts.
CONSTANTS
    DpIds <- MC_DpIds
    MaxPorts = 2
    Devs = {e1, e2}
    Readers = {r1, r2}
    NoDev = NoDev
    AddDpFaults <- MC_BenignFaults
    IdxAttrs <- MC_IdxAttrs
    NameAttrs <- MC_NameAttrs

SPECIFICATION Spec
SYMMETRY MC_Symmetry

INVARIANT TypeOK
INVARIANT NoUseAfterFree
INVARIANT PortTablesConsistent
INVARIANT DeleteNotifiedAfterPacketIns
