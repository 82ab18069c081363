------------------------------ MODULE Datapath ------------------------------
(***************************************************************************)
(* The datapath lifecycle of src/datapath/datapath.c: the registry dps[],  *)
(* each datapath's port table ports[] and port_list, the br_port back      *)
(* pointer of every attached device, the per-datapath maintenance thread,  *)
(* and the data-plane receive contexts that read all of these under        *)
(* rcu_read_lock while the control path changes them.                      *)
(*                                                                         *)
(* Control commands (Generic Netlink doit handlers) are serialized by      *)
(* genl_mutex and additionally take rtnl_lock and dp_mutex, so at most one *)
(* command is in progress: it is the record adm.  A command is split into  *)
(* steps only where another thread can observe an intermediate state: at   *)
(* every synchronize_rcu, at kthread_stop, and between publishing a new    *)
(* port and announcing it.                                                 *)
(***************************************************************************)
EXTENDS Integers, Sequences, SequencesExt, FiniteSets

CONSTANTS
    DpIds,        \* datapath indices 0 .. DP_MAX-1
    MaxPorts,     \* DP_MAX_PORTS: port numbers are 1 .. MaxPorts-1
    Devs,         \* host Ethernet interfaces that may be attached
    Readers,      \* data-plane receive contexts (one per CPU softirq)
    NoDev,        \* a null net_device pointer
    AddDpFaults,  \* failure points of new_dp injected in this model
    IdxAttrs,     \* DP_IDX attributes requests carry (see U32 below)
    NameAttrs     \* DP_NAME attributes requests carry (see NoName below)

DP_MAX == Cardinality(DpIds)
PortNos == 1 .. MaxPorts - 1
OFPP_LOCAL == 65534

NewDpFaults == {"none", "kzalloc", "dev_setup", "chain", "local_port", "kthread"}

ASSUME /\ DpIds = 0 .. DP_MAX - 1
       /\ MaxPorts \in Nat \ {0, 1}
       /\ NoDev \notin Devs
       /\ "none" \in AddDpFaults /\ AddDpFaults \subseteq NewDpFaults

NoPort == [dp |-> -1, no |-> 0]

\* A u32 netlink attribute value hi * 2^31 + lo, kept in two parts because
\* TLC's integers stop below 2^31; Absent is a request without the
\* attribute.  U32Max is 0xffffffff.
U32(hi, lo) == [hi |-> hi, lo |-> lo]
Absent == U32(FALSE, -1)
U32Max == U32(TRUE, 2^30 - 1 + 2^30)

\* A DP_NAME attribute: the device name of registered datapath d is d;
\* NoName is a request without the attribute, OtherName a name no
\* datapath's device has.  Device names are unique (register_netdevice).
NoName == -1
OtherName == -2

ASSUME /\ IdxAttrs \subseteq {Absent} \cup [hi : BOOLEAN, lo : 0 .. 2^30 - 1 + 2^30]
       /\ NameAttrs \subseteq {NoName, OtherName} \cup DpIds

VARIABLES
    dps,        \* dps[d]: the registry slot of index d is non-null
    dpLive,     \* dpLive[d]: the struct datapath of index d is allocated
    slots,      \* slots[d][n]: the device of dp->ports[n], or NoDev
    portList,   \* portList[d]: port numbers on dp->port_list, head first
    port,       \* port[e]: the allocated net_bridge_port of device e
    brPort,     \* brPort[e]: e->br_port is non-null
    notified,   \* notified[e]: last PortStatus multicast for port[e]
    maint,      \* maint[d]: program counter of dp_maint_func
    sigPending, \* sigPending[d]: SIGKILL is pending for the thread
    shouldStop, \* shouldStop[d]: kthread_stop has been called
    adm,        \* the control command in progress
    result,     \* history: what the last command returned, when it was ADD_DP
    rd,         \* rd[r]: the ingress device of the frame r forwards, or NoDev
    gpWait,     \* readers the pending synchronize_rcu waits for
    pktIn,      \* history: the last PACKET_IN multicast
    oops,       \* history: NULL or ERR_PTR dereferences
    leaked      \* history: a port object left allocated and unreachable

vars == <<dps, dpLive, slots, portList, port, brPort, notified, maint,
          sigPending, shouldStop, adm, result, rd, gpWait, pktIn, oops,
          leaked>>

\* The return value of a command is abstracted to success or failure, and
\* kept only for ADD_DP.
NoResult == [op |-> "none", dp |-> -1, ok |-> FALSE]
NoPktIn == [inPort |-> 0, status |-> "none"]
AdmIdle == [op |-> "idle", pc |-> "none", dp |-> 0, dev |-> NoDev, no |-> 0]

TypeOK ==
    /\ dps \in [DpIds -> BOOLEAN]
    /\ dpLive \in [DpIds -> BOOLEAN]
    /\ slots \in [DpIds -> [PortNos -> Devs \cup {NoDev}]]
    /\ portList \in [DpIds -> Seq(PortNos \cup {OFPP_LOCAL})]
    /\ port \in [Devs -> [dp : DpIds, no : PortNos] \cup {NoPort}]
    /\ brPort \in [Devs -> BOOLEAN]
    /\ notified \in [Devs -> {"none", "add", "delete"}]
    /\ maint \in [DpIds -> {"none", "start", "init", "loop", "dying"}]
    /\ sigPending \in [DpIds -> BOOLEAN]
    /\ shouldStop \in [DpIds -> BOOLEAN]
    /\ adm.op \in {"idle", "crashed", "DelDp", "AddPort", "DelPort"}
    /\ adm.dp \in DpIds /\ adm.dev \in Devs \cup {NoDev}
    /\ adm.no \in PortNos \cup {0, OFPP_LOCAL}
    /\ result.ok \in BOOLEAN
    /\ rd \in [Readers -> Devs \cup {NoDev}]
    /\ gpWait \subseteq Readers
    /\ oops \subseteq {"xmit_null_br_port", "del_err_ptr"}
    /\ leaked \in BOOLEAN

-----------------------------------------------------------------------------
(* Read-copy-update.  synchronize_rcu waits for the read-side critical     *)
(* sections that began before it; a reader leaving its section removes    *)
(* itself from the set the pending grace period waits for.                 *)

ActiveReaders == {r \in Readers : rd[r] # NoDev}

GraceElapsed == gpWait = {}

Done(err) ==
    /\ result' = NoResult
    /\ adm' = AdmIdle

\* A command that returns err before changing anything.
Fail(op, d, err) ==
    /\ result' = IF op = "AddDp" THEN [op |-> op, dp |-> IF err = "OK" THEN d ELSE -1,
                                        ok |-> err = "OK"]
                 ELSE NoResult
    /\ UNCHANGED <<dps, dpLive, slots, portList, port, brPort, notified,
                   maint, sigPending, shouldStop, adm, rd, gpWait, pktIn,
                   oops, leaked>>

-----------------------------------------------------------------------------
(* Registry and datapath creation.                                         *)

\* nla_get_u32 stored in an int: a value of 2^31 or more reads as the
\* negative int of the same bits.
ToInt(a) == IF a.hi THEN a.lo - 2^30 - 2^30 ELSE a.lo

\* The int dp_idx of dp_genl_add and lookup_dp: -1 without the attribute.
AttrIdx(a) == IF a = Absent THEN -1 ELSE ToInt(a)

\* What a registry lookup or allocation yields: a datapath index, or an
\* error.
Found(d) == [dp |-> d, err |-> "OK"]
Err(e) == [dp |-> -1, err |-> e]

\* dp_get_by_idx: a registered datapath at an index in range.
DpGetByIdx(i) == 0 <= i /\ i < DP_MAX /\ dps[i]

\* dp_get_by_name: the registered datapath whose device has the name.
DpGetByName(n) == n \in DpIds /\ dps[n]

\* lookup_dp: by index when the request has one (and then a name given too
\* must be that datapath's), else by name, else -EINVAL.
LookupDp(a, n) ==
    LET i == AttrIdx(a) IN
    CASE i # -1 /\ ~DpGetByIdx(i)       -> Err("ENOENT")
      [] i # -1 /\ n # NoName /\ n # i   -> Err("EINVAL")
      [] i # -1                          -> Found(i)
      [] n # NoName /\ DpGetByName(n)    -> Found(n)
      [] n # NoName                      -> Err("ENOENT")
      [] OTHER                           -> Err("EINVAL")

\* gen_dp_idx: the lowest free index, or -1.
GenDpIdx ==
    LET free == {i \in DpIds : ~dps[i]} IN
    IF free = {} THEN -1 ELSE Min(free)

\* new_dp: every step runs under rtnl_lock and dp_mutex and the datapath is
\* unreachable until dps[] is set, so the whole function is one step.  The
\* fault is the first allocation or setup call that fails.  The error
\* label err_destroy_local_port passes the ERR_PTR returned by new_nbp to
\* dp_del_switch_port, and the kthread_run failure path never deletes the
\* local port; chain_create and kthread_run failures leave err at 0.
NewDpSetup(idx, fault) ==
    CASE fault = "kzalloc" -> Fail("AddDp", idx, "ENOMEM")
      [] fault = "dev_setup" -> Fail("AddDp", idx, "ENODEV")
      [] fault = "chain" -> Fail("AddDp", idx, "OK")
      [] fault = "local_port" ->
            /\ oops' = oops \cup {"del_err_ptr"}
            /\ adm' = [adm EXCEPT !.op = "crashed"]
            /\ UNCHANGED <<dps, dpLive, slots, portList, port, brPort,
                           notified, maint, sigPending, shouldStop, result,
                           rd, gpWait, pktIn, leaked>>
      [] fault = "kthread" ->
            /\ leaked' = TRUE
            /\ result' = [op |-> "AddDp", dp |-> idx, ok |-> TRUE]
            /\ UNCHANGED <<dps, dpLive, slots, portList, port, brPort,
                           notified, maint, sigPending, shouldStop, adm, rd,
                           gpWait, pktIn, oops>>
      [] fault = "none" ->
            /\ dps' = [dps EXCEPT ![idx] = TRUE]
            /\ dpLive' = [dpLive EXCEPT ![idx] = TRUE]
            /\ portList' = [portList EXCEPT ![idx] = <<OFPP_LOCAL>>]
            /\ maint' = [maint EXCEPT ![idx] = "start"]
            /\ sigPending' = [sigPending EXCEPT ![idx] = FALSE]
            /\ shouldStop' = [shouldStop EXCEPT ![idx] = FALSE]
            /\ result' = [op |-> "AddDp", dp |-> idx, ok |-> TRUE]
            /\ UNCHANGED <<slots, port, brPort, notified, adm, rd, gpWait,
                           pktIn, oops, leaked>>

\* The index new_dp takes for dp_idx before any allocation: the lowest
\* free one for -1, then -EINVAL out of range and -EEXIST when taken.
NewDpIdx(req) ==
    LET idx == IF req = -1 THEN GenDpIdx ELSE req IN
    CASE idx < 0 \/ idx >= DP_MAX -> Err("EINVAL")
      [] dps[idx]                 -> Err("EEXIST")
      [] OTHER                    -> Found(idx)

\* dp_genl_add: a request must carry an index or a device name; then new_dp.
AddDpIdx(a, named) ==
    IF AttrIdx(a) = -1 /\ ~named THEN Err("EINVAL") ELSE NewDpIdx(AttrIdx(a))

\* ADD_DP: the index or error dp_genl_add and new_dp settle on, then the
\* setup of new_dp.
DpGenlAdd(a, named, fault) ==
    LET r == AddDpIdx(a, named) IN
    /\ adm.op = "idle"
    /\ IF r.err = "OK" THEN NewDpSetup(r.dp, fault)
                       ELSE Fail("AddDp", -1, r.err)

\* DEL_DP, ADD_PORT and DEL_PORT start alike: lookup_dp under dp_mutex.
\* A lookup error is returned to the caller and changes nothing.
LookupFails(a, n) ==
    /\ adm.op = "idle"
    /\ LookupDp(a, n).err # "OK"
    /\ Fail("Lookup", -1, LookupDp(a, n).err)

\* The lookup found datapath d; the command continues on it.
LookedUp(a, n, d) ==
    /\ adm.op = "idle"
    /\ LookupDp(a, n) = Found(d)


-----------------------------------------------------------------------------
(* Ports.                                                                  *)

FreeSlots(d) == {n \in PortNos : slots[d][n] = NoDev}

\* Variant of find_portno whose loop starts at i = 0: ports[0] is never
\* set, so it returns 0, a number outside the port table's range.
FindPortnoFromZero(d) == Min(FreeSlots(d) \cup {0})

\* find_portno: the lowest free slot from 1, or -1 for -EXFULL.
FindPortno(d) ==
    IF FreeSlots(d) = {} THEN -1 ELSE Min(FreeSlots(d))

\* Variant of new_nbp without the dev->br_port != NULL test.
NewNbpNoBusyCheck(d, e, n) ==
    \/ Fail("AddPort", d, "ENOMEM")
    \/ /\ port' = [port EXCEPT ![e] = [dp |-> d, no |-> n]]
       /\ brPort' = [brPort EXCEPT ![e] = TRUE]
       /\ slots' = [slots EXCEPT ![d][n] = e]
       /\ portList' = [portList EXCEPT ![d] = <<n>> \o @]
       /\ notified' = [notified EXCEPT ![e] = "none"]
       /\ adm' = [op |-> "AddPort", pc |-> "status", dp |-> d, dev |-> e,
                  no |-> n]
       /\ UNCHANGED <<dps, dpLive, maint, sigPending, shouldStop, result, rd,
                      gpWait, pktIn, oops, leaked>>

\* new_nbp: refuse a device that already has a bridge port, otherwise
\* publish the new port through e->br_port, dp->ports[] and the head of
\* dp->port_list.  The fields are zero (kzalloc) until init_port_status.
NewNbp(d, e, n) ==
    \/ brPort[e] /\ Fail("AddPort", d, "EBUSY")
    \/ ~brPort[e] /\ Fail("AddPort", d, "ENOMEM")
    \/ /\ ~brPort[e]
       /\ port' = [port EXCEPT ![e] = [dp |-> d, no |-> n]]
       /\ brPort' = [brPort EXCEPT ![e] = TRUE]
       /\ slots' = [slots EXCEPT ![d][n] = e]
       /\ portList' = [portList EXCEPT ![d] = <<n>> \o @]
       /\ notified' = [notified EXCEPT ![e] = "none"]
       /\ adm' = [op |-> "AddPort", pc |-> "status", dp |-> d, dev |-> e,
                  no |-> n]
       /\ UNCHANGED <<dps, dpLive, maint, sigPending, shouldStop, result, rd,
                      gpWait, pktIn, oops, leaked>>

\* add_switch_port: the devices of Devs are non-loopback Ethernet devices
\* that are not datapath devices, so only the slot search and new_nbp fail.
AddSwitchPort(d, e) ==
    LET n == FindPortno(d) IN
    \/ n = -1 /\ Fail("AddPort", d, "EXFULL")
    \/ n # -1 /\ NewNbp(d, e, n)

\* add_switch_port, after new_nbp returned: init_port_status, then the
\* PortStatus(ADD) multicast, which is lost when alloc_openflow_skb fails
\* (dp_send_port_status's result is ignored).
AddPortNotify ==
    /\ adm.op = "AddPort" /\ adm.pc = "status"
    /\ \/ notified' = [notified EXCEPT ![adm.dev] = "add"]
       \/ UNCHANGED notified
    /\ Done("OK")
    /\ UNCHANGED <<dps, dpLive, slots, portList, port, brPort, maint,
                   sigPending, shouldStop, rd, gpWait, pktIn, oops, leaked>>

\* dp_del_switch_port up to synchronize_rcu: unlink the port from
\* port_list, ports[] and e->br_port, then start a grace period.  The local
\* port has no slot in ports[] and its device never had br_port set.
UnpublishPort(d, n) ==
    LET e == IF n = OFPP_LOCAL THEN NoDev ELSE slots[d][n] IN
    /\ portList' = [portList EXCEPT ![d] = Remove(@, n)]
    /\ slots' = IF n = OFPP_LOCAL THEN slots
                ELSE [slots EXCEPT ![d][n] = NoDev]
    /\ brPort' = IF e = NoDev THEN brPort ELSE [brPort EXCEPT ![e] = FALSE]
    /\ gpWait' = ActiveReaders

\* Variant of dp_del_switch_port that frees the port without waiting for
\* synchronize_rcu.
DelSwitchPortFinishNoSync ==
    /\ adm.op \in {"DelPort", "DelDp"} /\ adm.pc = "sync"
    /\ IF adm.dev = NoDev
       THEN UNCHANGED <<port, notified>>
       ELSE /\ port' = [port EXCEPT ![adm.dev] = NoPort]
            /\ \/ notified' = [notified EXCEPT ![adm.dev] = "delete"]
               \/ UNCHANGED notified
    /\ IF adm.op = "DelDp"
       THEN adm' = [adm EXCEPT !.pc = "ports"] /\ UNCHANGED result
       ELSE Done("OK")
    /\ UNCHANGED <<dps, dpLive, slots, portList, brPort, maint, sigPending,
                   shouldStop, rd, gpWait, pktIn, oops, leaked>>

\* dp_del_switch_port after synchronize_rcu returns: PortStatus(DELETE),
\* which alloc_openflow_skb may fail to send, then dev_put and kfree of
\* the port.  Returns to del_dp's loop or ends
\* the DEL_PORT command.
DelSwitchPortFinish ==
    /\ adm.op \in {"DelPort", "DelDp"} /\ adm.pc = "sync"
    /\ GraceElapsed
    /\ IF adm.dev = NoDev
       THEN UNCHANGED <<port, notified>>
       ELSE /\ port' = [port EXCEPT ![adm.dev] = NoPort]
            /\ \/ notified' = [notified EXCEPT ![adm.dev] = "delete"]
               \/ UNCHANGED notified
    /\ IF adm.op = "DelDp"
       THEN adm' = [adm EXCEPT !.pc = "ports"] /\ UNCHANGED result
       ELSE Done("OK")
    /\ UNCHANGED <<dps, dpLive, slots, portList, brPort, maint, sigPending,
                   shouldStop, rd, gpWait, pktIn, oops, leaked>>

\* dp_genl_add_del_port with DP_GENL_C_ADD_PORT on the datapath lookup_dp
\* found: add_switch_port.
AddPort(d, e) == AddSwitchPort(d, e)

\* Variant of DEL_PORT whose dp_del_switch_port sends PortStatus(DELETE)
\* before synchronize_rcu.
DelPortNotifyFirst(d, e) ==
    \/ (~brPort[e] \/ port[e].dp # d) /\ Fail("DelPort", d, "ENOENT")
    \/ /\ brPort[e] /\ port[e].dp = d
       /\ UnpublishPort(d, port[e].no)
       /\ notified' = [notified EXCEPT ![e] = "delete"]
       /\ adm' = [op |-> "DelPort", pc |-> "sync", dp |-> d, dev |-> e,
                  no |-> port[e].no]
       /\ UNCHANGED <<dps, dpLive, port, maint, sigPending, shouldStop,
                      result, rd, pktIn, oops, leaked>>

\* dp_genl_add_del_port with DP_GENL_C_DEL_PORT: the device must be a port
\* of this datapath.
DelPort(d, e) ==
    \/ (~brPort[e] \/ port[e].dp # d) /\ Fail("DelPort", d, "ENOENT")
    \/ /\ brPort[e] /\ port[e].dp = d
       /\ UnpublishPort(d, port[e].no)
       /\ adm' = [op |-> "DelPort", pc |-> "sync", dp |-> d, dev |-> e,
                  no |-> port[e].no]
       /\ UNCHANGED <<dps, dpLive, port, notified, maint, sigPending,
                      shouldStop, result, rd, pktIn, oops, leaked>>

-----------------------------------------------------------------------------
(* Datapath destruction: dp_genl_del and del_dp.                           *)

\* dp_genl_del: lookup_dp, then del_dp sends SIGKILL to the maintenance
\* thread and calls kthread_stop, which waits for the thread to return.
\* A kernel thread ignores signals until it calls allow_signal, so a
\* SIGKILL sent before that is discarded.
DelDp(d) ==
    /\ sigPending' = [sigPending EXCEPT ![d] = @ \/ maint[d] \in {"loop", "dying"}]
    /\ shouldStop' = [shouldStop EXCEPT ![d] = TRUE]
    /\ adm' = [op |-> "DelDp", pc |-> "join", dp |-> d, dev |-> NoDev,
               no |-> 0]
    /\ UNCHANGED <<dps, dpLive, slots, portList, port, brPort,
                   notified, maint, result, rd, gpWait, pktIn, oops,
                   leaked>>

\* kthread_stop returns once the thread has exited.
DelDpJoin ==
    /\ adm.op = "DelDp" /\ adm.pc = "join"
    /\ maint[adm.dp] = "none"
    /\ adm' = [adm EXCEPT !.pc = "ports"]
    /\ UNCHANGED <<dps, dpLive, slots, portList, port, brPort, notified,
                   maint, sigPending, shouldStop, result, rd, gpWait, pktIn,
                   oops, leaked>>

\* del_dp: dp_del_switch_port for each port, from the head of port_list.
DelDpNextPort ==
    LET d == adm.dp
        n == Head(portList[d]) IN
    /\ adm.op = "DelDp" /\ adm.pc = "ports"
    /\ portList[d] # <<>>
    /\ UnpublishPort(d, n)
    /\ adm' = [adm EXCEPT !.pc = "sync", !.no = n,
                          !.dev = IF n = OFPP_LOCAL THEN NoDev ELSE slots[d][n]]
    /\ UNCHANGED <<dps, dpLive, port, notified, maint, sigPending,
                   shouldStop, result, rd, pktIn, oops, leaked>>

\* del_dp after the last port: clear dps[] and synchronize_rcu.
DelDpUnpublish ==
    /\ adm.op = "DelDp" /\ adm.pc = "ports"
    /\ portList[adm.dp] = <<>>
    /\ dps' = [dps EXCEPT ![adm.dp] = FALSE]
    /\ gpWait' = ActiveReaders
    /\ adm' = [adm EXCEPT !.pc = "free"]
    /\ UNCHANGED <<dpLive, slots, portList, port, brPort, notified, maint,
                   sigPending, shouldStop, result, rd, pktIn, oops, leaked>>

\* del_dp after the grace period: fwd_discard_all, dp_dev_destroy, a second
\* synchronize_rcu (no reader can reach the datapath any more), then
\* chain_destroy and kfree.
DelDpFree ==
    /\ adm.op = "DelDp" /\ adm.pc = "free"
    /\ GraceElapsed
    /\ dpLive' = [dpLive EXCEPT ![adm.dp] = FALSE]
    /\ Done("OK")
    /\ UNCHANGED <<dps, slots, portList, port, brPort, notified, maint,
                   sigPending, shouldStop, rd, gpWait, pktIn, oops, leaked>>

-----------------------------------------------------------------------------
(* The maintenance thread dp_maint_func of each datapath.                  *)

\* kthread_run in new_dp wakes the new thread, which calls dp_maint_func
\* unless kthread_stop has been called first, in which case it exits.
MaintStart(d) ==
    /\ maint[d] = "start"
    /\ maint' = [maint EXCEPT ![d] = IF shouldStop[d] THEN "none" ELSE "init"]
    /\ UNCHANGED <<dps, dpLive, slots, portList, port, brPort, notified,
                   sigPending, shouldStop, adm, result, rd, gpWait, pktIn,
                   oops, leaked>>

\* allow_signal(SIGKILL), the first statement of the thread.
MaintAllowSignal(d) ==
    /\ maint[d] = "init"
    /\ maint' = [maint EXCEPT ![d] = "loop"]
    /\ UNCHANGED <<dps, dpLive, slots, portList, port, brPort, notified,
                   sigPending, shouldStop, adm, result, rd, gpWait, pktIn,
                   oops, leaked>>

\* One pass of the first loop: leave it on a pending signal, otherwise
\* chain_timeout and msleep_interruptible (which a signal cuts short).
\* Flow expiry inside chain_timeout is not modelled here.
MaintLoop(d) ==
    /\ maint[d] = "loop"
    /\ maint' = [maint EXCEPT ![d] = IF sigPending[d] THEN "dying" ELSE "loop"]
    /\ UNCHANGED <<dps, dpLive, slots, portList, port, brPort, notified,
                   sigPending, shouldStop, adm, result, rd, gpWait, pktIn,
                   oops, leaked>>

\* The second loop sleeps until kthread_should_stop, then the thread exits.
MaintExit(d) ==
    /\ maint[d] = "dying" /\ shouldStop[d]
    /\ maint' = [maint EXCEPT ![d] = "none"]
    /\ UNCHANGED <<dps, dpLive, slots, portList, port, brPort, notified,
                   sigPending, shouldStop, adm, result, rd, gpWait, pktIn,
                   oops, leaked>>

-----------------------------------------------------------------------------
(* The data plane.  The bridge hook runs dp_frame_hook under             *)
(* rcu_read_lock for a device whose br_port is set; the frame goes through *)
(* the flow chain, whose verdict (outside this file) is a choice here, and *)
(* the read-side section ends when the output call returns.                *)

\* dp_frame_hook and do_port_input: take the frame of a device with a
\* bridge port and hand it to the chain.
Receive(r, e) ==
    /\ rd[r] = NoDev
    /\ brPort[e]
    /\ rd' = [rd EXCEPT ![r] = e]
    /\ UNCHANGED <<dps, dpLive, slots, portList, port, brPort, notified,
                   maint, sigPending, shouldStop, adm, result, gpWait, pktIn,
                   oops, leaked>>

\* rcu_read_unlock once the output call has returned.
ReaderExit(r) ==
    /\ rd' = [rd EXCEPT ![r] = NoDev]
    /\ gpWait' = gpWait \ {r}

\* dp_output_port(OFPP_IN_PORT) and dp_xmit_skb: skb->dev is the ingress
\* device and dp_xmit_skb reads skb->dev->br_port->dp before anything else.
OutputInPort(r) ==
    /\ rd[r] # NoDev
    /\ oops' = IF brPort[rd[r]] THEN oops ELSE oops \cup {"xmit_null_br_port"}
    /\ ReaderExit(r)
    /\ UNCHANGED <<dps, dpLive, slots, portList, port, brPort, notified,
                   maint, sigPending, shouldStop, adm, result, pktIn, leaked>>

\* dp_output_control: a PACKET_IN multicast whose in_port is read from
\* skb->dev->br_port, or OFPP_LOCAL when that is null; alloc_openflow_skb
\* may fail, and then nothing is sent.
OutputControl(r) ==
    LET e == rd[r] IN
    /\ e # NoDev
    /\ \/ pktIn' = [inPort |-> IF brPort[e] THEN port[e].no ELSE OFPP_LOCAL,
                    status |-> notified[e]]
       \/ UNCHANGED pktIn
    /\ ReaderExit(r)
    /\ UNCHANGED <<dps, dpLive, slots, portList, port, brPort, notified,
                   maint, sigPending, shouldStop, adm, result, oops, leaked>>

\* Every other verdict (drop, an output to a port number, FLOOD, ALL,
\* LOCAL) reads ports[] or port_list once and ends the section.
OutputOther(r) ==
    /\ rd[r] # NoDev
    /\ ReaderExit(r)
    /\ UNCHANGED <<dps, dpLive, slots, portList, port, brPort, notified,
                   maint, sigPending, shouldStop, adm, result, pktIn, oops,
                   leaked>>

-----------------------------------------------------------------------------

Init ==
    /\ dps = [d \in DpIds |-> FALSE]
    /\ dpLive = [d \in DpIds |-> FALSE]
    /\ slots = [d \in DpIds |-> [n \in PortNos |-> NoDev]]
    /\ portList = [d \in DpIds |-> <<>>]
    /\ port = [e \in Devs |-> NoPort]
    /\ brPort = [e \in Devs |-> FALSE]
    /\ notified = [e \in Devs |-> "none"]
    /\ maint = [d \in DpIds |-> "none"]
    /\ sigPending = [d \in DpIds |-> FALSE]
    /\ shouldStop = [d \in DpIds |-> FALSE]
    /\ adm = AdmIdle
    /\ result = NoResult
    /\ rd = [r \in Readers |-> NoDev]
    /\ gpWait = {}
    /\ pktIn = NoPktIn
    /\ oops = {}
    /\ leaked = FALSE

\* The continuation of the command in progress.
AdminStep ==
    \/ AddPortNotify
    \/ DelSwitchPortFinish
    \/ DelDpJoin
    \/ DelDpNextPort
    \/ DelDpUnpublish
    \/ DelDpFree

Command ==
    \/ \E a \in IdxAttrs, named \in BOOLEAN, f \in AddDpFaults :
          DpGenlAdd(a, named, f)
    \/ \E a \in IdxAttrs, n \in NameAttrs :
          \/ LookupFails(a, n)
          \/ \E d \in DpIds :
                /\ LookedUp(a, n, d)
                /\ \/ DelDp(d)
                   \/ \E e \in Devs : AddPort(d, e) \/ DelPort(d, e)

Maintenance(d) ==
    MaintStart(d) \/ MaintAllowSignal(d) \/ MaintLoop(d) \/ MaintExit(d)

Forward(r) == OutputInPort(r) \/ OutputControl(r) \/ OutputOther(r)

Next ==
    \/ Command
    \/ AdminStep
    \/ \E d \in DpIds : Maintenance(d)
    \/ \E r \in Readers : (\E e \in Devs : Receive(r, e)) \/ Forward(r)

\* A started command keeps running (it holds genl_mutex), each kernel thread
\* is scheduled, and a softirq finishes the frame it took.  New commands
\* and new frames are not forced.
Fairness ==
    /\ WF_vars(AdminStep)
    /\ \A d \in DpIds : WF_vars(Maintenance(d))
    /\ \A r \in Readers : WF_vars(Forward(r))

Spec == Init /\ [][Next]_vars /\ Fairness

-----------------------------------------------------------------------------
(* Properties.                                                             *)

\* No reader still forwarding a frame, and no maintenance thread, uses a
\* port or datapath that dp_del_switch_port or del_dp has freed: kfree
\* only follows a grace period that covered every reader holding it.
NoUseAfterFree ==
    /\ \A r \in ActiveReaders :
          /\ port[rd[r]] # NoPort
          /\ dpLive[port[rd[r]].dp]
    /\ \A d \in DpIds : maint[d] # "none" => dpLive[d]

\* The three views of a port stay in agreement across every interleaving of
\* add, delete and datapath teardown: an occupied ports[n] names a port
\* numbered n of that datapath whose device points back at it, port_list
\* holds exactly the occupied slots (plus the local port) once each, and a
\* registered datapath is allocated.
PortTablesConsistent ==
    /\ \A d \in DpIds, n \in PortNos :
          slots[d][n] # NoDev =>
             /\ port[slots[d][n]] = [dp |-> d, no |-> n]
             /\ brPort[slots[d][n]]
    /\ \A e \in Devs :
          brPort[e] => port[e] # NoPort /\ slots[port[e].dp][port[e].no] = e
    /\ \A d \in DpIds :
          /\ ToSet(portList[d]) \ {OFPP_LOCAL} = {n \in PortNos : slots[d][n] # NoDev}
          /\ Len(portList[d]) = Cardinality(ToSet(portList[d]))
    /\ \A d \in DpIds : dps[d] => dpLive[d]

\* PortStatus(DELETE) for a port is multicast strictly after the last
\* PACKET_IN that carries a frame received on it (spec section 5): the
\* notification follows synchronize_rcu in dp_del_switch_port.
DeleteNotifiedAfterPacketIns ==
    pktIn.status # "delete"

\* The controller can attribute every PACKET_IN to a port it knows: the
\* PortStatus(ADD) for the port the frame was received on has been multicast
\* before the PACKET_IN (spec section 5), and the PACKET_IN's in_port is that
\* port (spec section 4.4). Frames here are received only on physical ports,
\* never on the local port, so in_port OFPP_LOCAL names the wrong port.
PacketInAttributable ==
    /\ pktIn # NoPktIn => pktIn.status # "none"
    /\ pktIn.inPort # OFPP_LOCAL

\* A failed new_dp unwinds everything it set up and tells the caller (spec
\* section 3: "Failure at any step unwinds earlier steps in reverse"): ADD_DP
\* returns 0 only when the datapath is registered, the error labels cause no
\* oops, and no port is left allocated.
FailedAddDpUnwinds ==
    /\ result.op = "AddDp" /\ result.ok => dps[result.dp]
    /\ "del_err_ptr" \notin oops
    /\ ~leaked

\* The registry as spec section 4.1 states allocate: the smallest free id
\* when none is asked for, EINVAL for an id out of range (or a full
\* registry) or a request with neither id nor name, EEXIST for a taken id.
SpecAllocate(a, named) ==
    LET free == {i \in DpIds : ~dps[i]} IN
    CASE a = Absent /\ ~named        -> Err("EINVAL")
      [] a = Absent /\ free = {}     -> Err("EINVAL")
      [] a = Absent                  -> Found(Min(free))
      [] a.hi \/ a.lo >= DP_MAX      -> Err("EINVAL")
      [] dps[a.lo]                   -> Err("EEXIST")
      [] OTHER                       -> Found(a.lo)

\* The lookup of spec section 4.6: with an id, fetch by id and require a
\* name given too to match; with only a name, fetch by name; otherwise
\* EINVAL; an absent datapath is ENOENT.
SpecLookup(a, n) ==
    CASE a # Absent /\ (a.hi \/ a.lo >= DP_MAX)      -> Err("ENOENT")
      [] a # Absent /\ ~dps[a.lo]                    -> Err("ENOENT")
      [] a # Absent /\ n # NoName /\ n # a.lo         -> Err("EINVAL")
      [] a # Absent                                  -> Found(a.lo)
      [] n \in DpIds /\ dps[n]                        -> Found(n)
      [] n # NoName                                  -> Err("ENOENT")
      [] OTHER                                       -> Err("EINVAL")

\* Every ADD_DP, DEL_DP, ADD_PORT and DEL_PORT request, in every registry
\* state, gets the datapath or the error spec sections 4.1 and 4.6 give
\* it: the u32 DP_IDX attribute that dp_genl_add and lookup_dp read into
\* an int must not change which datapath a request names.
RegistryAsSpecified ==
    \A a \in IdxAttrs, n \in NameAttrs, named \in BOOLEAN :
        /\ AddDpIdx(a, named) = SpecAllocate(a, named)
        /\ LookupDp(a, n) = SpecLookup(a, n)

\* A new port and a new datapath come into being as the spec says: every
\* PACKET_IN is attributable to a port the controller was told of, and a
\* failed ADD_DP unwinds (spec sections 3 and 5).
LifecycleAsSpecified == PacketInAttributable /\ FailedAddDpUnwinds

\* A DEL_DP command eventually returns: del_dp joins the maintenance thread
\* and tears the datapath down.
DelDpCompletes ==
    adm.op = "DelDp" ~> adm.op = "idle"

=============================================================================
