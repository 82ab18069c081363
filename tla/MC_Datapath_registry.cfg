\* ADD_DP, DEL_DP and port requests whose DP_IDX attribute is 0xffffffff
\* are answered otherwise than the spec's registry contract says.
CONSTANTS
    DpIds <- MC_DpIds
    MaxPorts = 3
    Devs = {e1, e2}
    Readers = {r1, r2}
    NoDev = NoDev
    AddDpFaults <- MC_NoFault
    IdxAttrs <- MC_IdxAttrs
    NameAttrs <- MC_NameAttrs

SPECIFICATION Spec
SYMMETRY MC_Symmetry
INVARIANT RegistryAsSpecified
