\* A SIGKILL sent before the maintenance thread calls allow_signal is lost and DEL_DP never returns.
CONSTANTS
    DpIds <- MC_DpIds
    MaxPorts = 3
    Devs = {e1, e2}
    Readers = {r1, r2}
    NoDev = NoDev
    AddDpFaults <- MC_NoFault
    IdxAttrs <- MC_IdxAttrs
    NameAttrs <- MC_NameAttrs

SPECIFICATION Spec

PROPERTY DelDpCompletes
