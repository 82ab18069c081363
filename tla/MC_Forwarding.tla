---------------------------- MODULE MC_Forwarding ----------------------------
EXTENDS Forwarding, TLC

CONSTANTS e1, e2, lo, none

MC_Devs == {e1, e2}

\* A standard and a jumbo Ethernet device; the datapath device at 1500.
MC_Mtu == (e1 :> 1500) @@ (e2 :> 9000) @@ (lo :> 1500)

\* Frames at the mtu boundary of e1: untagged and exactly mtu + ETH_HLEN
\* long; tagged and exactly fitting; tagged and one byte over; a tagged
\* frame shorter than its headers; a GSO aggregate over every mtu.
MC_Frames ==
    { [len |-> 1514, vlan |-> FALSE, gso |-> FALSE],
      [len |-> 1518, vlan |-> TRUE, gso |-> FALSE],
      [len |-> 1519, vlan |-> TRUE, gso |-> FALSE],
      [len |-> 16, vlan |-> TRUE, gso |-> FALSE],
      [len |-> 65000, vlan |-> FALSE, gso |-> TRUE] }
==============================================================================
