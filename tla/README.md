# TLA+ models of the OpenFlow kernel datapath

These modules model `src/datapath/datapath.c`, the Linux kernel module that
implements an OpenFlow switch datapath. The model covers the datapath
registry, the switch ports, the per-datapath maintenance thread, the
data-plane softirqs that read all of these under RCU while control commands
change them, the output of one frame to ports, FLOOD and ALL while ports are
reconfigured and deleted, the resumable statistics dump engine, and the
control message encoder that builds every message sent to a controller. `PROJECT.json` lists every component, run, mutant, finding and
hazard. Its `map` gives the source lines each definition translates.

## 1. The system

### Components

| # | Component | Code | State | Operations |
|---|-----------|------|-------|------------|
| C1 | Registry | `dps[DP_MAX]`, `gen_dp_idx`, `dp_get_by_idx/name`, `lookup_dp` | which indices hold a datapath | allocate an index, look up, publish, unpublish |
| C2 | Datapath lifecycle | `new_dp`, `del_dp`, `dp_genl_add`, `dp_genl_del` | `struct datapath`: chain, local port, port list, maintenance task | create (seven steps, each able to fail), destroy (signal, join, delete ports, two grace periods, free) |
| C3 | Switch ports | `find_portno`, `new_nbp`, `add_switch_port`, `dp_del_switch_port`, `dp_genl_add_del_port` | `dp->ports[]`, `dp->port_list`, `dev->br_port`, the port object | add (lowest free slot, publish, PortStatus ADD), delete (unpublish, `synchronize_rcu`, PortStatus DELETE, free) |
| C4 | Maintenance thread | `dp_maint_func` | where the thread is: started, running, signalled, exited | `allow_signal`, a loop of `chain_timeout` and sleep, then a wait for `kthread_should_stop` |
| C5 | Data-plane input | `dp_frame_hook`, `do_port_input` | a frame being forwarded inside an RCU read-side section | receive on a port with `br_port` set, hand to the chain |
| C6 | Data-plane output | `dp_output_port`, `output_all`, `dp_xmit_skb`, `dp_output_control`, `dp_set_origin` | none beyond the frame | IN_PORT, TABLE, FLOOD, ALL, CONTROLLER, LOCAL, a port number, and PACKET_IN |
| C7 | Port configuration | `dp_update_port_flags`, `init_port_status` | `p->config`, `p->state` | PORT_MOD |
| C8 | Control encoder | `alloc_openflow_skb`, `put_openflow_headers`, `resize_openflow_skb`, `dp_send_*`, `dp_output_control`, `fill_port_desc` | none of its own; the packet buffer store (C11) for PACKET_IN | build a message (size check, allocation, header, fill, resize to fit), unicast or multicast it |
| C9 | Stats dump engine | `dp_genl_openflow_dumpit`, the `*_stats_init/dump/done` functions | `cb->args[]`: phase, index, type, xid, per-dump state | a multi-fragment dump with resumption |
| C10 | Module init and netlink | `dp_init`, `dp_cleanup`, `dp_init_netlink`, `set_desc` | the family and multicast groups | load and unload |
| C11 | Outside `src/` | `chain.c`, `forward.c`, `dp_dev.c` | flow tables, packet buffer store, local device | called from C2 to C6 |

### How they interact

- Control commands are Generic Netlink `doit` handlers. `genl_mutex` serializes them. ADD_DP, DEL_DP and ADD/DEL_PORT also take `rtnl_lock` and `dp_mutex`, so at most one of them runs at a time.
- They share C1 and C3 with the data plane. The data plane runs in softirq context on every CPU and never takes those locks. It reads `dev->br_port`, `dp->ports[]`, `dp->port_list` and `dps[]` under `rcu_read_lock`.
- Writers unlink with `rcu_assign_pointer` or `list_del_rcu`. They free only after `synchronize_rcu`.
- C4 is a kernel thread per datapath. `del_dp` stops it with `send_sig(SIGKILL)` followed by `kthread_stop`.
- C9 dumps resume across `recvmsg` calls and look the datapath up again by index each time.

### What makes it hard

- A reader can hold a port between the writer's unlink and its `synchronize_rcu`. It then sees `br_port == NULL` for a port it received on.
- Notifications are sent at one point of the writer's sequence, and frames enter at any point.
- `new_dp` has seven failure points with hand-written unwinding.
- Whether the thread's signal is delivered depends on whether the thread has reached `allow_signal` yet.
- A dump is resumed after arbitrary other commands, with its state kept in `cb->args`.

### Properties per component

| Component | Properties |
|-----------|------------|
| C1, C3 | The slots, `br_port` and `port_list` views agree. A port is in `port_list` exactly once. |
| C1 to C5 | No reader uses a freed port or datapath. DEL_DP returns. |
| C1 | ADD_DP allocates, and DEL_DP, ADD_PORT and DEL_PORT resolve their datapath, as spec §4.1 and §4.6 say, for every index and name attribute, checked against a reference definition in every reachable registry. |
| C2 | ADD_DP reports failure whenever it registered nothing. A failed create unwinds. |
| C3, C6 | PortStatus(ADD) comes before any PACKET_IN from the port, and the PACKET_IN carries the ingress port. PortStatus(DELETE) comes after the last one. IN_PORT output never dereferences a null `br_port`. |
| C6, C7 | No frame leaves by its ingress port except through IN_PORT. FLOOD skips NO_FLOOD ports. FLOOD and ALL serve each eligible port once, with *k* transmits and *k−1* clones. Both hold for a port that a PORT_MOD changes mid-walk, judged by the configs it held during the output. The original buffer is released exactly once. A device drops frames by the spec's transmit policy. |
| C9 | The fragments concatenated equal an unbounded dump, and MORE is set on every fragment but the last (a refinement). Aggregate and table replies count the flows present. Every dump ends and releases its state. |
| C8 | Every sent message fits its 16-bit header length. `total_len`, the flow durations and the size limit agree with spec §6 and a reference definition of the duration. |

## 2. Modules

### `Datapath.tla`: C1 to C5, and C6 in part

Constants:
- `DpIds`: registry indices.
- `MaxPorts`: `DP_MAX_PORTS`.
- `Devs`: host Ethernet devices.
- `Readers`: softirq contexts.
- `NoDev`: a null device pointer.
- `AddDpFaults`: the `new_dp` failure points a run injects.
- `IdxAttrs`: the DP_IDX attributes a request may carry. `Absent` is a missing attribute. A present one is a u32, written `U32(hi, lo)` with its top bit apart, because TLC's integers are 32-bit signed. `ToInt` is the C conversion to `int`, so 0xffffffff (`U32Max`) becomes -1.
- `NameAttrs`: the DP_NAME attributes. `NoName` is a missing attribute, `OtherName` names no datapath, and index d stands for the name of datapath d. A datapath's device name is unique because `register_netdevice` (outside `src/`) refuses a duplicate, so this abstraction loses nothing `lookup_dp` tells apart.

Variables:
- `dps`: a registry slot is non-null. `dpLive`: the datapath object is allocated.
- `slots`, `portList`, `port`, `brPort`: `dp->ports[]`, `dp->port_list` (head first), the port objects, and `dev->br_port`.
- `notified`: the last PortStatus multicast for the device's port.
- `maint`, `sigPending`, `shouldStop`: the maintenance thread.
- `rd`: the device of the frame each reader is forwarding.
- `gpWait`: the readers the pending `synchronize_rcu` waits for.
- `adm`: the control command in progress and its program counter.
- History variables:
  - `result`: what the last ADD_DP returned;
  - `pktIn`: the last PACKET_IN sent;
  - `oops`: null or ERR_PTR dereferences that happened;
  - `leaked`: an object left allocated and unreachable.

A command takes one step from its lock acquisition to the first point where another context can observe an intermediate state:
- ADD_DP is one step, `DpGenlAdd`. `AddDpIdx` is `dp_genl_add`'s check of its attributes, `NewDpIdx` is `new_dp`'s choice of index, and `NewDpSetup` models every later failure point of `new_dp`.
- DEL_DP, ADD_PORT and DEL_PORT start with `lookup_dp` (`LookupDp`, with `DpGetByIdx` and `DpGetByName`). `LookupFails` returns its error and changes nothing. `LookedUp(a, n, d)` found datapath d, and the command continues on it.
- ADD_PORT is `AddPort` (up to publishing the port), then `AddPortNotify` (`init_port_status` and PortStatus ADD).
- DEL_PORT is `DelPort` (unlink, start the grace period), then `DelSwitchPortFinish` (after the grace period: PortStatus DELETE, free).
- DEL_DP is:
  1. `DelDp` (signal, `kthread_stop`);
  2. `DelDpJoin` (the thread has exited);
  3. `DelDpNextPort` and `DelSwitchPortFinish` for each port;
  4. `DelDpUnpublish` (`dps[]` cleared, grace period);
  5. `DelDpFree`.
- RCU: `synchronize_rcu` sets `gpWait` to the readers active at that moment. Each reader removes itself when it leaves. The waiting step is enabled when `gpWait = {}`.
- The maintenance thread has four steps:
  - `MaintStart`: the `kthread` wrapper runs `dp_maint_func` unless `kthread_stop` came first.
  - `MaintAllowSignal`.
  - `MaintLoop`: it leaves the first loop only when a signal is pending.
  - `MaintExit`: it exits once `kthread_stop` has been called.
- The data plane:
  - `Receive` takes a frame on a device whose `br_port` is set.
  - The chain's verdict (in `forward.c`) is a choice among `OutputInPort`, `OutputControl` and `OutputOther`. `OutputOther` covers drop, FLOOD, ALL, LOCAL and a port number; each reads the tables once.
  - `OutputControl` may lose the PACKET_IN when `alloc_openflow_skb` fails.
- PortStatus multicasts may also be lost to an allocation failure. `dp_send_port_status`'s result is ignored.

Failures that do not change state are modelled as errors that leave everything unchanged:
- `-EINVAL`, `-EEXIST`, `-ENOENT`, `-EBUSY` and `-EXFULL`;
- a `kzalloc` or `dp_dev_setup` failure, and `new_nbp`'s `-ENOMEM`.

The remaining failure points change state:
- `chain_create` and `kthread_run` failures;
- a local-port failure in `new_dp`.

They are modelled by what the error labels do with them.

Each operator defined only as a variant (`FindPortnoFromZero`, `NewNbpNoBusyCheck`, `DelSwitchPortFinishNoSync`, `DelPortNotifyFirst`) is a plausible bug in the definition after it. It is used only for mutation checks, and each one breaks the property listed in `PROJECT.json`.

### `MC_Datapath.tla`

It defines the constant values the configurations use and the symmetry set `MC_Symmetry`, which permutes devices and readers.

### `Forwarding.tla`: C6 and C7

This module models one frame being output by `dp_output_port` while PORT_MOD and DEL_PORT commands run. Only the frame's own context writes to the skb, while control commands change `p->config` and unlink ports.

Constants:
- `MaxPorts`;
- `Devs`: the host devices;
- `LocalDev`: the datapath's own device;
- `NoDev`;
- `MaxPortMods`: how many PORT_MODs run during the output;
- `Mtu`: each device's mtu;
- `Frames`: the frames the chain may output, as their length, whether they carry an 802.1Q tag, and whether they are GSO aggregates.

Variables:
- The port tables: `portDev`, `slots`, `portList` (any order, local port last, as `list_add_tail_rcu` leaves it), `brPort` and `config`.
- The frame `skb`, with its `dev` set by `dp_set_origin` (`OriginDev`), its `out` port, its `ignore` (`ignore_no_fwd`) and its `frame` (length, tag, GSO).
- The walk of `output_all`: `pc`, `todo` (the list still to visit), `prev` (`prev_port`), `clones` and `pend` (a buffer on its way to `dp_xmit_skb`).
- History variables:
  - `tx`: each transmit, and whether it used a clone or the original;
  - `origFree`: releases of the original;
  - `listed`, `changed`, `unlinked`;
  - `heldCfg`: for each port, every config it has held since the output began, so that a property can speak of a port a PORT_MOD changed mid-walk;
  - `dropped`: the devices on which `dp_xmit_skb` dropped the frame as over-mtu;
  - `oops`: a null `br_port` read in `dp_xmit_skb`.

Actions:
- `OutputStart`: the `switch` of `dp_output_port`.
- `OutputInPort`: the IN_PORT case.
- `PortOutput`: LOCAL, a port number, and `bad_port`.
- `WalkStep`: one iteration of `list_for_each_entry_rcu` in `output_all`, with its clone, which may fail.
- `WalkEnd`: the last port gets the original.
- `Xmit`: `dp_xmit_skb`, with the mtu test on `PacketLength` (`packet_length`). `packet_length` is unsigned, so a frame shorter than its headers wraps to nearly 2^32. TLC's integers cannot hold that, so `PacketLength` returns 2^30 for it, which is also above every mtu.
- `PortMod`: `dp_update_port_flags`.
- `Unlink`: the unlink half of `dp_del_switch_port`.

`Reached` models a concurrent RCU list walk: a port unlinked during the walk may or may not be seen. An over-mtu drop consumes the buffer like a transmit: it counts in `tx` and is recorded in `dropped`. OFPP_TABLE and CONTROLLER hand the frame to code outside `src/`, or to `dp_output_control`, which `Datapath` models.

### `ControlEncoder.tla`: C8

Every message to a controller is built the same way, and the module keeps that order:
1. `AllocOpenflowSkb` is `alloc_openflow_skb`. It refuses a length that with an OpenFlow header exceeds 65535 (line 212); otherwise `genlmsg_new(GFP_ATOMIC)` may fail.
2. `Build` is `put_openflow_headers` and the fill.
3. `ResizeOpenflowSkb` writes `htons(new_length)`, the size modulo 2^16.

`Build` gives a refused message none of its type-specific fields.

Constants: `HZ`, the flow ages, and the lengths the callers pass: frames and `max_len` to `dp_output_control`, echo requests, error data. `Slots` is the packet buffer store.

Variables:
- `store`: each buffer of the store is free, saved (never announced) or announced.
- `last`: the outcome of the latest send, with its type, whether it was sent or refused, its true size and header length, and its numeric fields.

Actions, one per sender:
- `OutputControl` is `dp_output_control`: `fwd_save_skb`, `FwdLen` (the payload is cut to `max_len` only for a buffered frame), then the allocation. A failed allocation leaves the buffer saved.
- `SendFlowEnd` is `dp_send_flow_end`, which reads the clock once per duration field.
- `FlowStatsRecord` writes the durations of `flow_stats_dump_callback` (`FlowStatsDuration`).
- `SendFixed` covers PORT_STATUS, GET_CONFIG_REPLY and BARRIER_REPLY. `SendFeaturesReply` shrinks its overallocated message. `SendHello` answers an old version with HELLO_FAILED. `SendErrorMsg` and `SendEchoReply` size the message from their input.
- `ControllerRetrieve` is the controller releasing an announced buffer. The store is outside `src/`, so this and `SaveIds`/`FwdSaveSkb` are modelled from the spec's `PacketStore`.

`JiffiesToSecs` and `JiffiesToNsecs` translate the two helpers. `RefDuration` is the reference of spec §4.7: whole seconds, and the rest in nanoseconds. TLC's integers stop below 2^31, so u32 values are kept as they are, and an ASSUME keeps the ages below 2^30.

`MC_ControlEncoder.tla` picks `HZ = 4` and ages 0, 3, 4 and 9, which straddle whole seconds. Its frame lengths are 60, 200, 65509 (the longest unbuffered frame accepted), 65510 (whose PACKET_IN would be 65528 bytes) and 65536 (a GRO frame). `max_len` is 128 or 65535. Echo requests are 8 or 65535 bytes. The store has two buffers, so it fills up and failed allocations can orphan all of it.

### `StatsEnv.tla`, `StatsReply.tla`, `StatsDump.tla`: C9

- **`StatsEnv`** holds what a dump reads of its datapath (`dpLive`, `dpGen`, `slots`, `flows`). It also holds the commands that change it between two fragments:
  - `EnvAddPort` takes the lowest free number, as `find_portno` does;
  - `EnvDelPort`;
  - `EnvAddFlow` and `EnvDelFlow`: a FLOW_MOD through `dp_genl_openflow`, or `chain_timeout` in `dp_maint_func`;
  - `EnvDelDp`, which empties the chain;
  - `EnvNewDp`, which may reuse the index.

  `dumpit` and the generic netlink commands all run under `genl_mutex`, so each command is one step between two dump calls. `chain_timeout` does not take it; see section 5.

  A flow is a key `FlowKey(t, p)`: position `p` of the table of rank `t`, where the emergency table (table_id 0xfe) ranks after the `NTables` regular tables. Key order is the order in which `table->iterate` visits flows, table by table. The table code is outside `src/`, so this order, and a position that names the flow where an iteration stopped, are modelled from spec §4.7 (`spec_modelled` in the map). Flow matching (`match`, `out_port`) is abstracted away: `flows` holds the flows that match. `BigFlows` are flows whose actions make a record larger than an empty reply body.
- **`StatsReply`** is the abstract promise of spec §4.7 and §8 property 8, with no buffers or cursors:
  - each fragment holds the next at most `Cap` wanted records: ports in port-number order with the local port (0xfffe) last, flows in table then position order;
  - a dump without a cursor (desc, aggregate, table, one port) sends one fragment;
  - an aggregate reply holds the number of flows its table_id selects (`Matching`), and a table reply holds each regular table's flow count;
  - MORE is set on all fragments but the last;
  - every fragment comes from the datapath of the first;
  - an invalid request, a vanished datapath or a failed allocation ends the dump with an error.

  A port or flow added or removed during the dump may or may not be reported. Its `last` is the abstract cursor.
- **`StatsDump`** is the engine, with `cb->args[0]` as `args0`, `cb->args[4]` as `stState`, `s->start_port` as `startPort`, and the flow cursor `s->table_idx` and `s->position` as `tableIdx` and `position`:
  - `DumpFirst`: the first call's checks in the code's order, then `s->init` and the first reply. `port_stats_init` and `flow_stats_init` may fail to allocate. `vendor_stats_init` fails for every vendor, after `cb->args[0]` has been set;
  - `DumpResume`: a later call, looking the datapath up by index;
  - `DumpDrained`: `args[0] = 2`, where `dumpit` returns 0;
  - `PutStatsReply`: `put_openflow_headers`, which may fail, then the dump function and the MORE flag;
  - `OpenflowDone`: `dp_genl_openflow_done`, which frees the port or flow state, or runs `vendor_stats_done` on the NULL state of a vendor dump.

  The flow dump is `FlowStatsInit`, `FlowStatsDump`, `TableLoop` (the `while` loop over regular tables, zeroing the position at each new table), `Iterate` (one `table->iterate`) and `FillBody` (`flow_stats_dump_callback`, recursive over the flows visited: it stops at the first record that does not fit). `FlowStatsDump` returns 0, 1 (MORE) or -ENOMEM (not one record fit), as the code does. `AggregateStatsDump` is `aggregate_stats_dump`: the emergency table alone, or `AggregateLoop`, the same table loop counting every flow from a zeroed position. `TableStatsDump` is `table_stats_dump`: each regular table's active count, in table order. Both send one reply. A desc dump is `OneShot`, since its strings are not modelled.

  The netlink transport around them is `Request`, `Poll` (the next call), `Finish` (`cb->done` after `dumpit` returned 0 or an error) and `Abort` (the requester closes its socket mid-dump).

  `Promise` instantiates `StatsReply` with the refinement mapping:
  - phase from `tphase` and `args0`;
  - `started` is "a fragment has been sent";
  - `last` is `CursorLast`: `startPort - 1` for a port dump, and for a flow dump the key just before the cursor (`tableIdx`, `position`);
  - `boundGen` is the history variable `genAtStart`;
  - the error codes map to `"error"`.

  `ImplementsStatsReply == Promise!RSpec` is checked as a PROPERTY. `PromiseKeptOnFirstDatapath` checks the same mapping for every dump except a full port dump, while the dumped datapath is the first created at its index. It has the form `[][P => Promise!RNext]_v`. The two dumps it leaves out are the two findings of `dump_refines`.

`MC_StatsDump.tla` defines the requests:
- a valid full port dump, port dumps for one port, the local port and port 0, and DESC and TABLE;
- flow dumps of every table, of table 0, table 1, table 2 (past the last, so nothing is selected) and the emergency table; aggregate dumps of every table, of table 1 and of the emergency table; a vendor request;
- one request failing each first-call check in turn;
- separately, a vendor request and a request without its OPENFLOW attribute (`MC_NullDerefRequests`);
- separately, a flow dump of every table alone (`MC_StaleFlowDump`), which shows the re-created-datapath finding.

## 3. Runs

| Run | cfg | Expect | What it shows |
|-----|-----|--------|---------------|
| safety | `MC_Datapath_safety.cfg` | pass | `TypeOK`, `NoUseAfterFree`, `PortTablesConsistent` and `DeleteNotifiedAfterPacketIns` hold for every interleaving of all commands, including the ADD_DP failures that return an error. |
| lifecycle_spec | `MC_Datapath_lifecycle.cfg` | violation | `LifecycleAsSpecified` joins two properties. `FailedAddDpUnwinds` fails: a failing `new_dp` does not unwind or report. ADD_DP returns 0 after `chain_create` or `kthread_run` failed, the error labels pass an ERR_PTR to `dp_del_switch_port`, or they leak the local port. TLC shows this trace first. `PacketInAttributable` fails in two ways. A PACKET_IN can come from a port before its PortStatus(ADD) (spec §5). A frame received on a port being deleted gets `in_port = OFPP_LOCAL`. These traces show once `AddDpFaults <- MC_NoFault`. |
| registry_spec | `MC_Datapath_registry.cfg` | violation | `RegistryAsSpecified` fails for the DP_IDX attribute 0xffffffff, read into an `int` as -1. ADD_DP then allocates the lowest free index where spec §4.1 says EINVAL. A lookup ignores the index and goes by the name, or fails with EINVAL, where spec §4.6 says ENOENT. Without `U32Max` in `IdxAttrs`, the property holds in all 1.5 million reachable states. |
| del_dp_hang | `MC_Datapath_deldp.cfg` | violation | DEL_DP right after ADD_DP never returns: the SIGKILL is discarded before `allow_signal` and `kthread_stop` waits forever. |
| fwd_safety | `MC_Forwarding_safety.cfg` | pass | `NoTransmitOnIngress`, `FloodHonoursNoFlood`, `EligiblePortsServedOnce` and `OrigConsumedOnce` hold for every out port, ingress, `port_list` order, clone failure, and PORT_MOD or unlink during the walk. `output_all` reads a port's config without a lock while PORT_MOD rewrites it. The two flood properties therefore cover changed ports too: a FLOOD serves a port only if the port lacked NO_FLOOD at some instant of the output. A port eligible under every config it held is served. |
| fwd_output_spec | `MC_Forwarding_output.cfg` | violation | `OutputAsSpecified` fails in two ways. FLOOD and ALL silently skip NO_FWD ports, because `output_all` passes `ignore_no_fwd = 0`, while spec §8 counts them among the *k* transmits. IN_PORT output dereferences a null `br_port` in `dp_xmit_skb`, for a frame from the local port (whose device never gets a `br_port`) and for a frame whose ingress port is unlinked before the transmit. The transmit-policy conjunct `SpecTransmitPolicy` fails too. `packet_length` subtracts a 4-byte VLAN tag where spec §4.4 subtracts 14, so a 1519-byte tagged frame is dropped on a 1500-byte device where the spec would send it. A 16-byte tagged frame wraps and is dropped, where the spec's formula goes negative and sends it. |
| dump_safety | `MC_StatsDump_safety.cfg` | pass | `StateReleased` and `DumpEnds` hold for every request, allocation failure, requester close, and port, flow or datapath command between fragments. `PromiseKeptOnFirstDatapath`: every dump but a full port dump, flow dumps resumed across tables and past a flow too large for a body included, and aggregate and table replies counting the flows present, sends what `StatsReply` promises until its datapath is re-created. |
| dump_refines | `MC_StatsDump_refines.cfg` | violation | A multi-fragment port dump does not implement `StatsReply`. It loses the ports after the first fragment, repeats the local port, and writes the local port's record past a full body. With `Requests <- MC_StaleFlowDump` and `MaxChurn = 2`, the same property is violated by a flow dump resumed on a datapath re-created at its index: a flow of the first datapath is never reported. |
| dump_null_deref | `MC_StatsDump_nullderef.cfg` | violation | A request without an OPENFLOW attribute makes `dumpit` call `nla_len(NULL)`. A vendor request makes `dp_genl_openflow_done` call `vendor_stats_done(NULL)`: the trace is one step longer, so TLC prints it once the attribute-less request is removed from `MC_NullDerefRequests`. |
| enc_safety | `MC_ControlEncoder_safety.cfg` | pass | `TypeOK` holds for every sender, boundary size and allocation failure, also once failed allocations have orphaned the whole store. Every sent message fits the 16-bit length of its header: this is the size check at line 212, which the `AllocOpenflowSkbNoLimit` mutant drops. |
| enc_fields | `MC_ControlEncoder_fields.cfg` | violation | `EncodingAsSpecified` fails in four ways. `jiffies_64_to_nsecs` subtracts seconds from jiffies. The flow stats path divides by HZ twice. `total_len` is truncated to 16 bits. The size check refuses messages of 65528 to 65535 bytes. |

The `findings` of `PROJECT.json` explain each violation, with the source line and what the spec says.

### Bounds

| Bound | Value | Why it is enough |
|-------|-------|------------------|
| Datapaths | 2 (`MC_DpIds`) | Moving a device from one datapath to another, DEL_PORT naming another datapath's port, and index reuse after DEL_DP need two. A full registry gives `gen_dp_idx = -1`. |
| `IdxAttrs`, `NameAttrs` | absent, 0, 1, 2, 0xffffffff; absent, another name, the names of datapaths 0 and 1 | Each branch of `lookup_dp` and of `new_dp`'s index checks is taken: no attributes, an index alone, a name alone, both agreeing or disagreeing, a free and a used index, an index one past `DP_MAX`, and the u32 that reads as -1. The one-datapath liveness cfg leaves out the name of datapath 1. |
| `MaxPorts` | 2 in the safety run, 3 in the violation runs | With one slot, two devices fill the table and reach `-EXFULL`, a device can move between datapaths, and a slot can be reused after DEL_PORT. The violation runs use two slots, so `port_list` can hold two ports in non-sorted order. The safety run with three slots does not finish in five minutes. |
| `Devs` | 2 | One port can be deleted while frames arrive on the other. |
| `Readers` | 2 | Two softirqs can be inside read-side sections while a grace period starts and another reader enters. |

Forwarding uses three port numbers (two slots and the local port), two devices plus the local device, and two PORT_MODs. A FLOOD then has up to three candidates, enough for a skipped port, a deferred `prev_port` and a clone in between. Each of the two PORT_MODs can set or clear NO_FLOOD or NO_FWD on any port mid-walk. One unlink can happen during the walk. Device e1 has a 1500-byte mtu and e2 a 9000-byte one, so one flood can send a frame on one port and drop it on another. The five frames sit on e1's boundaries: 1514 bytes untagged (exactly mtu + ETH_HLEN), 1518 bytes tagged (fits exactly), 1519 bytes tagged (one over), 16 bytes tagged (shorter than its headers), and a 65000-byte GSO aggregate.

StatsDump uses ports 1 to 3 and `Cap = 2` records per reply. A full dump therefore needs two fragments, as 255 ports do against the roughly 37 port records of a real reply body. `Cap = 1` is excluded: no real reply is that small, and with it a single-port request would be answered with MORE forever. `MaxChurn = 2` lets a DEL_DP and a new ADD_DP, or two port commands, fall between fragments. Flows: two regular tables and the emergency table with two positions each (keys 1, 2 | 4, 5 | 7, 8). The chain starts as {1, 2, 4, 7, 8} or {2, 5}. With two records per body, an all-tables dump of the first stops in the second table, so the resumed call starts mid-table. The emergency dump stops at flow 8, which is in `BigFlows`: the next call finds it alone in an empty body and returns -ENOMEM. The second chain gives a dump that crosses a table boundary inside one call, where the position is zeroed. `MaxChurn = 2` also lets two FLOW_MODs fall between fragments. `PromiseKeptOnFirstDatapath` has its own bound, the first datapath at the index; section 5 says why. `MaxFrags = 4` is never reached by a passing run. A dump that failed to end would reach it, and `DumpEnds` would then be violated.

The liveness run `del_dp_hang` uses no symmetry reduction, which is unsound for liveness.

## 4. Fairness

`Fairness` assumes three things, each justified by the code:
- **Weak fairness of `AdminStep`.** A command that has started holds `genl_mutex` and runs to completion unless it blocks; its blocking points are exactly the enabling conditions.
- **Weak fairness of each maintenance thread.** It is a kernel thread that the scheduler runs.
- **Weak fairness of each reader's `Forward`.** A softirq finishes the frame it has taken.

- **Forwarding:** weak fairness of the frame's own steps (`OutputStart`, `WalkStep`, `WalkEnd`, `Xmit`), since a softirq finishes its frame. PORT_MOD and unlink are not forced.
- **StatsDump:** weak fairness of `Poll` and `Finish`. The transport calls `dumpit` again each time the requester reads, and calls `cb->done` when the dump ends. The requester's close (`Abort`) and the commands between fragments are not forced.

New commands and new frames are not forced. A grace period therefore ends because each reader finishes its frame, not because frames stop arriving. That DEL_PORT returns is not checked as a property: with this RCU abstraction it follows from reader fairness alone, whatever `dp_del_switch_port` does.

## 5. What is not modelled, and why

- **Outside `src/`:** the flow chain, the packet buffer store and the datapath device (C11). Their results are choices.
- **Pure I/O or formatting:** `fill_port_desc` and the match fields of C8, C10, and `dp_genl_query`.
- **C9, the table side of flow dumps:** `table->iterate` and `sw_table_position` are table code outside `src/`. They are modelled from spec §4.7 as an ordered walk that resumes at the flow where it stopped. The request's `match` and `out_port` are abstracted into which flows are in `flows`. Flow records are one unit long, or longer than a body (`BigFlows`); exact byte sizes are not modelled. The packet and byte counters of aggregate and table replies, and the table names and lookup counters, are data the properties do not tell apart; only the flow counts are modelled. The `-ENOBUFS` case of the one-shot replies cannot happen with a real reply body.
- **`chain_timeout` during a dump call:** `dp_maint_func` removes flows without `genl_mutex`, and `dumpit` takes no `rcu_read_lock` around `s->dump`. Whether `table->iterate` is safe against concurrent removal depends on the table code. The model removes flows only between two calls.
- **Index reuse during a dump:** `PromiseKeptOnFirstDatapath` stops checking once the datapath is re-created, because the code then continues on the new datapath (a finding of `dump_refines`).
- **What the removed checks restated:** dp_xmit_skb's mtu test, the header length `resize_openflow_skb` writes, and `fwd_len` are each one expression of the code. A property repeating them would hold by construction. The spec's versions are checked instead: the transmit policy in `fwd_output_spec`, and `total_len` and the size limit in `enc_fields`.
- **Datapath names:** a name is abstracted to the index of the datapath it names, or to `OtherName`. `VERIFY_NUL_STRING` is not modelled, because the attribute policy `NLA_NUL_STRING` already makes genetlink refuse a name without its NUL.

## 6. Plan

1. **`Datapath`** (done): C1 to C5, core hazards, 1 passing and 3 violation runs.
2. **`Forwarding`** (done): `output_all`, `dp_output_port`, `dp_xmit_skb` with its mtu test, and `dp_update_port_flags`, with 1 passing and 1 violation run.
   - Left: an abstract "one transmit per eligible port" spec, implemented by the walk under a refinement mapping.
3. **`StatsDump`** (done): every stats type, with refinement to `StatsReply`, 1 passing and 2 violation runs.
   - Left: a run of its own for the re-created-datapath finding, once a run can be spared.
4. **`ControlEncoder`** (done): every sender, with 1 passing and 1 violation run.
5. **`Maintenance`:** flow expiry through `chain_timeout` and `dp_send_flow_end`, if the chain interface can be abstracted faithfully.
