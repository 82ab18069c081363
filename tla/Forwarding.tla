----------------------------- MODULE Forwarding -----------------------------
(***************************************************************************)
(* The output path of src/datapath/datapath.c for one frame: dp_output_port *)
(* and its FLOOD/ALL loop output_all, run by a softirq inside an RCU       *)
(* read-side section.  Meanwhile the control path may change a port's      *)
(* config (dp_update_port_flags) and may unlink one port                   *)
(* (dp_del_switch_port up to synchronize_rcu).  After that unlink the      *)
(* writer holds genl_mutex and waits for this reader, so no further        *)
(* control command runs until the output is over.                          *)
(*                                                                         *)
(* A frame buffer is the original ("orig") or a clone.  dp_xmit_skb and    *)
(* dp_dev_recv consume their buffer whether or not it is sent; the devices *)
(* on which dp_xmit_skb dropped it as over-MTU are kept apart.             *)
(***************************************************************************)
EXTENDS Integers, Sequences, SequencesExt, FiniteSets

CONSTANTS
    MaxPorts,     \* DP_MAX_PORTS: port numbers are 1 .. MaxPorts-1
    Devs,         \* host Ethernet devices that may be switch ports
    LocalDev,     \* the datapath's own net_device, the local port's device
    NoDev,        \* a null net_device pointer
    MaxPortMods,  \* bound on the PORT_MOD requests of one behaviour
    Mtu,          \* Mtu[d]: the mtu of device d
    Frames        \* frames the chain may output: [len, vlan, gso]

PortNos == 1 .. MaxPorts - 1
OFPP_IN_PORT == 65528
OFPP_FLOOD == 65531
OFPP_ALL == 65532
OFPP_LOCAL == 65534
OFPP_NONE == 65535
AllPorts == PortNos \cup {OFPP_LOCAL}
ConfigBits == {"NO_FLOOD", "NO_FWD"}
ETH_HLEN == 14
VLAN_HLEN == 4

\* The out_port arguments the chain passes: the virtual ports whose output
\* is in this file, every number of the ports[] range (0 is never used)
\* and one number outside it.
OutPorts == {OFPP_IN_PORT, OFPP_FLOOD, OFPP_ALL, OFPP_LOCAL, OFPP_NONE}
                \cup (0 .. MaxPorts - 1)

ASSUME /\ MaxPorts \in Nat \ {0, 1}
       /\ LocalDev \notin Devs /\ NoDev \notin Devs \cup {LocalDev}
       /\ MaxPortMods \in Nat
       /\ Mtu \in [Devs \cup {LocalDev} -> 1 .. 2^30 - 1]
       /\ Frames \subseteq [len : 1 .. 2^30, vlan : BOOLEAN, gso : BOOLEAN]

NoPend == [buf |-> "none", dev |-> NoDev, back |-> "done"]

VARIABLES
    portDev,   \* portDev[n]: the device of the port object numbered n
    slots,     \* slots[n]: dp->ports[n] is non-null
    portList,  \* dp->port_list, head first
    brPort,    \* brPort[d]: d->br_port is non-null
    config,    \* config[n]: the OFPPC bits of the port numbered n
    unlinked,  \* the port a concurrent DEL_PORT has unlinked, or 0
    mods,      \* PORT_MOD requests applied
    skb,       \* the frame: its skb->dev, out_port and ignore_no_fwd
    pc,        \* where the output is: start, walk, xmit or done
    listed,    \* output_all: port_list as the walk began
    todo,      \* output_all: the part of port_list not walked yet
    prev,      \* output_all: prev_port, or -1
    pend,      \* a buffer on its way into dp_xmit_skb, and where to return
    clones,    \* skb_clone calls that succeeded
    tx,        \* history: <<device, buffer>> of every dp_xmit_skb/dp_dev_recv
    origFree,  \* history: times the original buffer was consumed or freed
    enomem,    \* output_all returned -ENOMEM
    changed,   \* history: ports whose config or linkage changed mid-output
    heldCfg,   \* history: heldCfg[n], the configs port n held since output began
    dropped,   \* history: devices on which dp_xmit_skb dropped the frame
    oops       \* history: dp_xmit_skb dereferenced a null br_port

vars == <<portDev, slots, portList, brPort, config, unlinked, mods, skb, pc,
          listed, todo, prev, pend, clones, tx, origFree, enomem, changed,
          heldCfg, dropped, oops>>

TypeOK ==
    /\ portDev \in [AllPorts -> Devs \cup {LocalDev, NoDev}]
    /\ slots \in [PortNos -> BOOLEAN]
    /\ portList \in Seq(AllPorts)
    /\ brPort \in [Devs \cup {LocalDev} -> BOOLEAN]
    /\ config \in [AllPorts -> SUBSET ConfigBits]
    /\ unlinked \in PortNos \cup {0}
    /\ mods \in 0 .. MaxPortMods
    /\ skb \in [dev : Devs \cup {LocalDev, NoDev}, out : OutPorts,
                ignore : BOOLEAN, frame : Frames]
    /\ pc \in {"start", "walk", "xmit", "done"}
    /\ prev \in AllPorts \cup {-1}
    /\ pend.buf \in {"none", "orig", "clone"}
    /\ tx \in Seq((Devs \cup {LocalDev}) \X {"orig", "clone"})
    /\ origFree \in 0 .. 2
    /\ enomem \in BOOLEAN
    /\ changed \subseteq AllPorts
    /\ heldCfg \in [AllPorts -> SUBSET SUBSET ConfigBits]
    /\ dropped \subseteq Devs \cup {LocalDev}
    /\ oops \in BOOLEAN

-----------------------------------------------------------------------------
(* Buffer ownership.                                                       *)

\* kfree_skb, or a consumer that takes the buffer.
Consume(buf) ==
    origFree' = IF buf = "orig" THEN origFree + 1 ELSE origFree

\* dp_set_origin: the device a frame from the controller claims to come
\* from; frames from the wire carry their port's device, which is the
\* same value for that port number.
OriginDev(inPort) ==
    IF inPort \in PortNos THEN (IF slots[inPort] THEN portDev[inPort] ELSE NoDev)
    ELSE IF inPort = OFPP_LOCAL THEN LocalDev
    ELSE NoDev

-----------------------------------------------------------------------------
(* dp_output_port.                                                         *)

\* Variant of dp_output_port that does not refuse a port whose device is
\* the frame's ingress device.
PortOutputNoIngressCheck(n, buf, ignore, back) ==
    \/ /\ n = OFPP_LOCAL
       /\ tx' = Append(tx, <<LocalDev, buf>>)
       /\ Consume(buf) /\ pc' = back /\ UNCHANGED pend
    \/ /\ n \in PortNos /\ slots[n]
       /\ "NO_FWD" \in config[n] /\ ~ignore
       /\ Consume(buf) /\ pc' = back /\ UNCHANGED <<tx, pend>>
    \/ /\ n \in PortNos /\ slots[n]
       /\ "NO_FWD" \notin config[n] \/ ignore
       /\ pend' = [buf |-> buf, dev |-> portDev[n], back |-> back]
       /\ pc' = "xmit" /\ UNCHANGED <<tx, origFree>>
    \/ /\ \/ n \notin PortNos \cup {OFPP_LOCAL}
          \/ n \in PortNos /\ ~slots[n]
       /\ Consume(buf) /\ pc' = back /\ UNCHANGED <<tx, pend>>

\* dp_output_port(dp, skb, n, ignore) for LOCAL and for a port number:
\* dp_dev_recv for the local port; for a number, look up dp->ports[n],
\* refuse the ingress device (-EINVAL) and, unless ignore_no_fwd, a
\* NO_FWD port, set skb->dev and go on into dp_xmit_skb; an empty slot or
\* any other number is a bad port.  Every refusal frees the buffer.
PortOutput(n, buf, ignore, back) ==
    \/ /\ n = OFPP_LOCAL
       /\ tx' = Append(tx, <<LocalDev, buf>>)
       /\ Consume(buf) /\ pc' = back /\ UNCHANGED pend
    \/ /\ n \in PortNos /\ slots[n]
       /\ \/ portDev[n] = skb.dev
          \/ "NO_FWD" \in config[n] /\ ~ignore
       /\ Consume(buf) /\ pc' = back /\ UNCHANGED <<tx, pend>>
    \/ /\ n \in PortNos /\ slots[n]
       /\ portDev[n] # skb.dev
       /\ "NO_FWD" \notin config[n] \/ ignore
       /\ pend' = [buf |-> buf, dev |-> portDev[n], back |-> back]
       /\ pc' = "xmit" /\ UNCHANGED <<tx, origFree>>
    \/ /\ \/ n \notin PortNos \cup {OFPP_LOCAL}
          \/ n \in PortNos /\ ~slots[n]
       /\ Consume(buf) /\ pc' = back /\ UNCHANGED <<tx, pend>>

\* Variant of the OFPP_IN_PORT case without the test for a null skb->dev.
OutputInPortNoDevCheck ==
    /\ pend' = [buf |-> "orig", dev |-> skb.dev, back |-> "done"]
    /\ pc' = "xmit"
    /\ UNCHANGED <<listed, todo, tx, origFree>>

\* dp_output_port(OFPP_IN_PORT): send on skb->dev, or -ESRCH when it is
\* null.
OutputInPort ==
    \/ /\ skb.dev = NoDev
       /\ Consume("orig") /\ pc' = "done"
       /\ UNCHANGED <<listed, todo, pend, tx>>
    \/ /\ skb.dev # NoDev
       /\ pend' = [buf |-> "orig", dev |-> skb.dev, back |-> "done"]
       /\ pc' = "xmit"
       /\ UNCHANGED <<listed, todo, tx, origFree>>

\* dp_output_port entered with the original buffer: OFPP_IN_PORT, FLOOD and
\* ALL start output_all, any other out_port is handled by PortOutput.
OutputStart ==
    /\ pc = "start"
    /\ \/ skb.out = OFPP_IN_PORT /\ OutputInPort
       \/ /\ skb.out \in {OFPP_FLOOD, OFPP_ALL}
          /\ listed' = portList /\ todo' = portList /\ pc' = "walk"
          /\ UNCHANGED <<pend, tx, origFree>>
       \/ /\ skb.out \notin {OFPP_IN_PORT, OFPP_FLOOD, OFPP_ALL}
          /\ PortOutput(skb.out, "orig", skb.ignore, "done")
          /\ UNCHANGED <<listed, todo>>
    /\ UNCHANGED <<portDev, slots, portList, brPort, config, unlinked, mods,
                   skb, prev, clones, enomem, changed, heldCfg, dropped, oops>>

BrPortDevs == {d \in DOMAIN brPort : brPort[d]}

\* packet_length: skb->len less the Ethernet header and an 802.1Q tag, in
\* unsigned arithmetic.  A frame shorter than its headers wraps to 2^32
\* less a few bytes, which TLC's integers cannot hold; 2^30 stands for it,
\* as it is above every mtu as well.
PacketLength(f) ==
    LET l == f.len - ETH_HLEN - (IF f.vlan THEN VLAN_HLEN ELSE 0)
    IN  IF l >= 0 THEN l ELSE 2^30

\* dp_xmit_skb: reads skb->dev->br_port->dp, which faults on a device with
\* no br_port before the mtu test; then drops an over-mtu frame that is not
\* a GSO aggregate (-E2BIG) or queues it; either way the buffer is
\* consumed; returns to the caller.
Xmit ==
    /\ pc = "xmit"
    /\ oops' = (oops \/ pend.dev \notin BrPortDevs)
    /\ dropped' = IF /\ pend.dev \in BrPortDevs
                     /\ PacketLength(skb.frame) > Mtu[pend.dev]
                     /\ ~skb.frame.gso
                  THEN dropped \cup {pend.dev} ELSE dropped
    /\ tx' = Append(tx, <<pend.dev, pend.buf>>)
    /\ Consume(pend.buf)
    /\ pc' = pend.back
    /\ pend' = NoPend
    /\ UNCHANGED <<portDev, slots, portList, brPort, config, unlinked, mods,
                   skb, listed, todo, prev, clones, enomem, changed, heldCfg>>

-----------------------------------------------------------------------------
(* output_all.                                                             *)

\* A node still on port_list is reached by list_for_each_entry_rcu; a
\* node list_del_rcu removed may or may not be, depending on whether the
\* walk had already read the pointer to it.
Reached(n) == IF n \in ToSet(portList) THEN {TRUE} ELSE BOOLEAN

Disable == IF skb.out = OFPP_FLOOD THEN {"NO_FLOOD"} ELSE {}

\* Variant of the test at the top of output_all's loop that ignores the
\* flood argument.
EligibleNoDisable(n) == skb.dev # portDev[n]

\* The test at the top of output_all's loop: not the ingress device and,
\* for FLOOD, not a NO_FLOOD port.
Eligible(n) == skb.dev # portDev[n] /\ config[n] \cap Disable = {}

\* Variant of output_all's loop that outputs the clone on the current port
\* rather than on the deferred prev_port.
WalkStepClonesToCurrent ==
    LET n == Head(todo) IN
    /\ pc = "walk" /\ todo # <<>>
    /\ \E reached \in Reached(n) :
          \/ /\ ~reached \/ ~Eligible(n)
             /\ todo' = Tail(todo)
             /\ UNCHANGED <<pc, prev, pend, clones, tx, origFree, enomem>>
          \/ /\ reached /\ Eligible(n) /\ prev = -1
             /\ prev' = n /\ todo' = Tail(todo)
             /\ UNCHANGED <<pc, pend, clones, tx, origFree, enomem>>
          \/ /\ reached /\ Eligible(n) /\ prev # -1
             /\ \/ /\ Consume("orig") /\ enomem' = TRUE /\ pc' = "done"
                   /\ UNCHANGED <<prev, todo, pend, clones, tx>>
                \/ /\ clones' = clones + 1 /\ prev' = n /\ todo' = Tail(todo)
                   /\ PortOutput(n, "clone", FALSE, "walk")
                   /\ UNCHANGED enomem
    /\ UNCHANGED <<portDev, slots, portList, brPort, config, unlinked, mods,
                   skb, listed, changed, heldCfg, dropped, oops>>

\* One iteration of output_all's loop: skip a port that is not eligible;
\* otherwise clone the frame for the port deferred in prev_port, output
\* the clone there with ignore_no_fwd = 0, and defer this one.  A failed
\* skb_clone frees the original and returns -ENOMEM.
WalkStep ==
    LET n == Head(todo) IN
    /\ pc = "walk" /\ todo # <<>>
    /\ \E reached \in Reached(n) :
          \/ /\ ~reached \/ ~Eligible(n)
             /\ todo' = Tail(todo)
             /\ UNCHANGED <<pc, prev, pend, clones, tx, origFree, enomem>>
          \/ /\ reached /\ Eligible(n) /\ prev = -1
             /\ prev' = n /\ todo' = Tail(todo)
             /\ UNCHANGED <<pc, pend, clones, tx, origFree, enomem>>
          \/ /\ reached /\ Eligible(n) /\ prev # -1
             /\ \/ /\ Consume("orig") /\ enomem' = TRUE /\ pc' = "done"
                   /\ UNCHANGED <<prev, todo, pend, clones, tx>>
                \/ /\ clones' = clones + 1 /\ prev' = n /\ todo' = Tail(todo)
                   /\ PortOutput(prev, "clone", FALSE, "walk")
                   /\ UNCHANGED enomem
    /\ UNCHANGED <<portDev, slots, portList, brPort, config, unlinked, mods,
                   skb, listed, changed, heldCfg, dropped, oops>>

\* Variant of the end of output_all that leaks the original when no port
\* was eligible.
WalkEndNoFree ==
    /\ pc = "walk" /\ todo = <<>>
    /\ \/ prev = -1 /\ pc' = "done" /\ UNCHANGED <<pend, tx, origFree>>
       \/ prev # -1 /\ PortOutput(prev, "orig", FALSE, "done")
    /\ UNCHANGED <<portDev, slots, portList, brPort, config, unlinked, mods,
                   skb, listed, todo, prev, clones, enomem, changed, heldCfg,
                   dropped, oops>>

\* After the loop: the original goes to the last deferred port, or is
\* freed when no port was eligible.
WalkEnd ==
    /\ pc = "walk" /\ todo = <<>>
    /\ \/ prev = -1 /\ Consume("orig") /\ pc' = "done" /\ UNCHANGED <<pend, tx>>
       \/ prev # -1 /\ PortOutput(prev, "orig", FALSE, "done")
    /\ UNCHANGED <<portDev, slots, portList, brPort, config, unlinked, mods,
                   skb, listed, todo, prev, clones, enomem, changed, heldCfg,
                   dropped, oops>>

-----------------------------------------------------------------------------
(* The control path.                                                       *)

\* dp_update_port_flags: find the port by number (ports[] or the local
\* port) and replace the bits of config selected by the mask.  PORT_MOD
\* needs genl_mutex, which a DEL_PORT blocked in synchronize_rcu holds.
PortMod(n, mask, bits) ==
    /\ mods < MaxPortMods /\ unlinked = 0
    /\ IF n = OFPP_LOCAL THEN TRUE ELSE slots[n]
    /\ config' = [config EXCEPT ![n] = (@ \ mask) \cup (bits \cap mask)]
    /\ mods' = mods + 1
    /\ changed' = IF pc = "start" THEN changed ELSE changed \cup {n}
    /\ heldCfg' = [heldCfg EXCEPT ![n] = IF pc = "start" THEN {config'[n]}
                                         ELSE @ \cup {config'[n]}]
    /\ UNCHANGED <<portDev, slots, portList, brPort, unlinked, skb, pc,
                   listed, todo, prev, pend, clones, tx, origFree, enomem,
                   dropped, oops>>

\* dp_del_switch_port up to synchronize_rcu, for a port of this datapath.
Unlink(n) ==
    /\ unlinked = 0 /\ slots[n]
    /\ portList' = Remove(portList, n)
    /\ slots' = [slots EXCEPT ![n] = FALSE]
    /\ brPort' = [brPort EXCEPT ![portDev[n]] = FALSE]
    /\ unlinked' = n
    /\ changed' = changed \cup {n}
    /\ UNCHANGED <<portDev, config, mods, skb, pc, listed, todo, prev, pend,
                   clones, tx, origFree, enomem, heldCfg, dropped, oops>>

-----------------------------------------------------------------------------

\* Devices attached to the ports of a datapath: an injective assignment of
\* Devs to the occupied slots; the local port's device is the datapath's.
PortDevs(occ) ==
    {f \in [AllPorts -> Devs \cup {LocalDev, NoDev}] :
        /\ f[OFPP_LOCAL] = LocalDev
        /\ \A n \in PortNos : IF n \in occ THEN f[n] \in Devs ELSE f[n] = NoDev
        /\ \A m, n \in occ : f[m] = f[n] => m = n}

\* port_list gets new ports at its head, and the local port is the first
\* one new_dp adds, so it is last; the others are in any order.
Init ==
    \E occ \in SUBSET PortNos :
    /\ slots = [n \in PortNos |-> n \in occ]
    /\ portDev \in PortDevs(occ)
    /\ portList \in {s \o <<OFPP_LOCAL>> : s \in SetToSeqs(occ)}
    /\ brPort = [d \in Devs \cup {LocalDev} |->
                    \E n \in occ : portDev[n] = d]
    /\ config = [n \in AllPorts |-> {}]
    /\ unlinked = 0
    /\ mods = 0
    /\ skb \in [dev : {OriginDev(i) : i \in (0 .. MaxPorts - 1) \cup
                                       {OFPP_LOCAL, OFPP_NONE}},
                out : OutPorts, ignore : BOOLEAN, frame : Frames]
    /\ pc = "start"
    /\ listed = <<>> /\ todo = <<>> /\ prev = -1
    /\ pend = NoPend
    /\ clones = 0
    /\ tx = <<>>
    /\ origFree = 0
    /\ enomem = FALSE
    /\ changed = {}
    /\ heldCfg = [n \in AllPorts |-> {config[n]}]
    /\ dropped = {}
    /\ oops = FALSE

\* The output is over; the frame's read-side section has ended.
Finished ==
    /\ pc = "done"
    /\ UNCHANGED vars

Next ==
    \/ OutputStart
    \/ WalkStep
    \/ WalkEnd
    \/ Xmit
    \/ \E n \in AllPorts, mask \in SUBSET ConfigBits, bits \in SUBSET ConfigBits :
          mask # {} /\ PortMod(n, mask, bits)
    \/ \E n \in PortNos : Unlink(n)
    \/ Finished

\* The softirq finishes its output; control requests are not forced.
Spec == Init /\ [][Next]_vars /\ WF_vars(OutputStart \/ WalkStep \/ WalkEnd \/ Xmit)

-----------------------------------------------------------------------------
(* Properties.                                                             *)

\* The devices a buffer was handed to.
Served == {tx[i][1] : i \in 1 .. Len(tx)}

\* No output but OFPP_IN_PORT and OFPP_LOCAL ever sends the frame back out
\* of the device it came in on: output_all skips that device and
\* dp_output_port refuses a port number that resolves to it (spec section
\* 8, property 3).
NoTransmitOnIngress ==
    skb.out \notin {OFPP_IN_PORT, OFPP_LOCAL} => skb.dev \notin Served

\* FLOOD sends nothing to a port whose NO_FLOOD bit was set for the whole
\* output, also when a concurrent PORT_MOD (dp_update_port_flags, which
\* takes no lock the softirq respects) rewrites the bit mid-walk: a served
\* port held a config without NO_FLOOD at some instant of the output.
\* output_all reads p->config once per port, with OFPPC_NO_FLOOD as its
\* disable mask for FLOOD (spec section 8, property 4).
FloodHonoursNoFlood ==
    skb.out = OFPP_FLOOD =>
        \A n \in AllPorts :
            portDev[n] \in Served =>
                \E c \in heldCfg[n] : "NO_FLOOD" \notin c

\* A port eligible under every config it held during the output.
AlwaysEligible(n) ==
    \A c \in heldCfg[n] :
        /\ c \cap Disable = {}
        /\ n = OFPP_LOCAL \/ "NO_FWD" \notin c

\* A FLOOD or ALL that ran to its end without a clone failure handed the
\* frame to dp_xmit_skb or dp_dev_recv once for every port on port_list
\* that is not the ingress, was not unlinked meanwhile, and was eligible
\* under every config it held while PORT_MODs raced the walk: neither
\* excluded by the flood's NO_FLOOD test nor by NO_FWD (which output_all
\* leaves to dp_output_port, and which does not apply to the local port);
\* and never twice to one device.  This is the deferred prev_port scheme
\* of output_all working across every port_list order.
EligiblePortsServedOnce ==
    pc = "done" /\ skb.out \in {OFPP_FLOOD, OFPP_ALL} /\ ~enomem =>
        /\ Len(tx) = Cardinality(Served)
        /\ \A n \in ToSet(listed) \ {unlinked} :
              portDev[n] # skb.dev /\ AlwaysEligible(n) => portDev[n] \in Served

\* The original buffer is released exactly once: every early return of
\* dp_output_port and output_all frees the buffer it owns, the last
\* transmit of a flood uses it, and nothing frees it twice.
OrigConsumedOnce ==
    /\ origFree <= 1
    /\ pc = "done" => origFree = 1

\* The transmit policy in the words of spec section 4.4: the payload is the
\* frame less ETH_HLEN and, if VLAN-tagged, 14 bytes more.
SpecTransmitPolicy ==
    LET f == skb.frame IN
    ~oops =>
        dropped \ {LocalDev} =
            {d \in Served \ {LocalDev} :
                ~f.gso /\ f.len - ETH_HLEN - (IF f.vlan THEN 14 ELSE 0) > Mtu[d]}

\* Spec section 8, property 5: a FLOOD or ALL over k eligible ports (all
\* but the ingress and, for FLOOD, the NO_FLOOD ones) makes exactly k
\* transmits with k-1 clones, the last one on the original buffer.
SpecEligible ==
    {n \in ToSet(listed) : portDev[n] # skb.dev /\ config[n] \cap Disable = {}}

CloneFairness ==
    pc = "done" /\ skb.out \in {OFPP_FLOOD, OFPP_ALL} /\ ~enomem
    /\ changed = {} =>
        LET k == Cardinality(SpecEligible) IN
        /\ Len(tx) = k
        /\ clones = IF k = 0 THEN 0 ELSE k - 1
        /\ k > 0 => tx[Len(tx)][2] = "orig"

\* Every output the action asks for is made on the ports the spec names
\* (spec section 4.4 and section 8 property 5). IN_PORT transmits on the
\* frame's ingress port: dp_xmit_skb does not fault on a device whose
\* br_port is null. FLOOD and ALL transmit on exactly the eligible ports,
\* as CloneFairness states.  dp_xmit_skb drops a frame as the spec's
\* transmit policy says.
OutputAsSpecified == ~oops /\ CloneFairness /\ SpecTransmitPolicy

=============================================================================
