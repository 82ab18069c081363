---------------------------- MODULE MC_Datapath ----------------------------
(* Instantiates the datapath lifecycle model for TLC: two datapath indices *)
(* (so the registry can fill up), two attachable devices, two port numbers *)
(* (so the port table can fill up) and two softirq receive contexts.       *)
EXTENDS Datapath

MC_DpIds == 0 .. 1

\* No failure injected into new_dp.
MC_NoFault == {"none"}

\* The failure points of new_dp whose unwinding completes.
MC_BenignFaults == {"none", "kzalloc", "dev_setup", "chain", "kthread"}

\* Every failure point of new_dp.
MC_AllFaults == NewDpFaults

\* Only the kthread_run failure, whose unwinding skips the local port.
MC_KthreadFault == {"none", "kthread"}

\* DP_IDX attributes: none, each index, the first one out of range, and
\* 0xffffffff, which an int reads as -1.
MC_IdxAttrs == {Absent, U32(FALSE, 0), U32(FALSE, 1), U32(FALSE, 2), U32Max}

\* DP_NAME attributes: none, a name no datapath has, each datapath's name.
MC_NameAttrs == {NoName, OtherName, 0, 1}

\* Devices and receive contexts are interchangeable: nothing in the model
\* orders them or treats one of them specially.
MC_Symmetry == Permutations(Devs) \cup Permutations(Readers)

=============================================================================
