\* A PACKET_IN names a port the controller has not been told of, or the
\* wrong port; the error paths of new_dp leak the local port or dereference
\* an ERR_PTR.
CONSTANTS
    DpIds <- MC_DpIds
    MaxPorts = 3
    Devs = {e1, e2}
    Readers = {r1, r2}
    NoDev = NoDev
    AddDpFaults <- MC_AllFaults
    IdxAttrs <- MC_IdxAttrs
    NameAttrs <- MC_NameAttrs

SPECIFICATION Spec
SYMMETRY MC_Symmetry
INVARIANT LifecycleAsSpecified
