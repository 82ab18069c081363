--------------------------- MODULE ControlEncoder ---------------------------
(***************************************************************************)
(* The control message encoder of src/datapath/datapath.c: every message   *)
(* the datapath sends to a controller is built by alloc_openflow_skb       *)
(* (length check, genlmsg_new, put_openflow_headers), filled, cut to size  *)
(* by resize_openflow_skb (which writes the header's 16-bit length) and    *)
(* handed to send_openflow_skb.  The senders modelled are dp_output_control *)
(* (PACKET_IN, with the packet buffer store), dp_send_flow_end             *)
(* (FLOW_REMOVED), dp_send_port_status, dp_send_features_reply,            *)
(* dp_send_config_reply, dp_send_hello, dp_send_barrier_reply,             *)
(* dp_send_error_msg and dp_send_echo_reply, and the duration fields       *)
(* flow_stats_dump_callback writes into a FLOW stats record.               *)
(*                                                                         *)
(* Message contents are abstracted to the numeric fields the controller    *)
(* reads back: the header length, the PACKET_IN lengths and buffer id, and *)
(* the durations.  htons and htonl are byte swaps the controller undoes;   *)
(* what they keep is the value modulo 2^16 or 2^32.  `last' is the        *)
(* outcome of the most recent send: the properties are about each message *)
(* alone.                                                                  *)
(***************************************************************************)
EXTENDS Integers, FiniteSets, TLC

CONSTANTS
    HZ,           \* jiffies per second
    Ages,         \* flow ages, get_jiffies_64() - flow->created, in jiffies
    FrameLens,    \* skb->len of frames handed to dp_output_control
    MaxLens,      \* the max_len the caller of dp_output_control passes
    EchoLens,     \* ntohs(rq->length) of ECHO_REQUESTs
    ErrDataLens,  \* data lengths callers of dp_send_error_msg pass
    Slots         \* the packet store's buffers

ASSUME /\ HZ \in Nat \ {0}
       /\ \A a \in Ages : a \in 0 .. 2^30
       /\ FrameLens \cup MaxLens \cup EchoLens \cup ErrDataLens \subseteq Nat
       /\ Slots \subseteq Nat

UINT16_MAX == 65535
U16(x) == x % 2^16
\* TLC's integers stop below 2^31, so a u32 is kept as its value; the ASSUME
\* above keeps every u32 the model computes below 2^31.
U32(x) == x
NO_BUFFER == -1                        \* (uint32_t) -1, 0xffffffff on the wire
NSEC_PER_SEC == 1000000000
DP_MAX_PORTS == 256

\* sizeof of the OpenFlow 1.0 structures the senders allocate.
OFP_HEADER == 8
OFP_PACKET_IN_DATA == 18               \* offsetof(struct ofp_packet_in, data)
OFP_FLOW_REMOVED == 88
OFP_PORT_STATUS == 64
OFP_SWITCH_FEATURES == 32
OFP_PHY_PORT == 48
OFP_SWITCH_CONFIG == 12
OFP_ERROR_MSG == 12
HELLO_ERR_LEN == 27                    \* strlen("Only version 0x01 supported")

\* The outcome of one send: the message type, whether it was sent
\* ("sent") or refused ("toolarge", "nomem"), its true size and the length
\* its header carries, and the fields whose values the controller reads.
Outcomes == {"sent", "toolarge", "nomem"}
NoMsg == [type |-> "none", outcome |-> "sent", size |-> 0, length |-> 0,
          bufferId |-> NO_BUFFER, totalLen |-> 0, dataLen |-> 0,
          frameLen |-> 0, maxLen |-> 0, age |-> 0, sec |-> 0, nsec |-> 0]

VARIABLES
    store,    \* store[s]: "free", "saved" (not yet announced) or "announced"
    last      \* the outcome of the most recent send

vars == <<store, last>>

TypeOK ==
    /\ store \in [Slots -> {"free", "saved", "announced"}]
    /\ last.type \in {"none", "PACKET_IN", "FLOW_REMOVED", "FLOW_STATS",
                      "PORT_STATUS", "FEATURES_REPLY", "GET_CONFIG_REPLY",
                      "HELLO", "BARRIER_REPLY", "ERROR", "ECHO_REPLY"}
    /\ last.outcome \in Outcomes
    /\ last.length \in 0 .. UINT16_MAX
    /\ last.dataLen \in 0 .. UINT16_MAX
    /\ last.outcome = "sent" => last.size \in 0 .. UINT16_MAX

-----------------------------------------------------------------------------
(* The allocation and header helpers.                                      *)

\* A variant without the size check.
AllocOpenflowSkbNoLimit(len) == {"sent", "nomem"}

\* alloc_openflow_skb: refuse a message whose length plus an OpenFlow
\* header exceeds UINT16_MAX (line 212); otherwise genlmsg_new(GFP_ATOMIC)
\* may fail.  put_openflow_headers cannot fail on the buffer genlmsg_new
\* sized for it (BUG_ON).
AllocOpenflowSkb(len) ==
    IF len + OFP_HEADER > UINT16_MAX THEN {"toolarge"} ELSE {"sent", "nomem"}

\* resize_openflow_skb: oh->length = htons(new_length).
ResizeOpenflowSkb(len) == U16(len)

\* A message of `len' bytes after alloc_openflow_skb, the fill and the
\* resize to `final' bytes; `fields' are its type-specific values, which a
\* refused message never gets.
Build(type, len, final, fields) ==
    LET head(o) == [NoMsg EXCEPT !.type = type, !.outcome = o, !.size = final]
    IN  { IF o = "sent"
          THEN fields @@ [head(o) EXCEPT !.length = ResizeOpenflowSkb(final)]
          ELSE head(o) :
          o \in AllocOpenflowSkb(len) }

\* jiffies_64_to_secs: do_div(j, HZ), returned as u32.
JiffiesToSecs(j) == U32(j \div HZ)

\* jiffies_64_to_nsecs: j minus its seconds, returned as u32.
JiffiesToNsecs(j) == U32(j - JiffiesToSecs(j))

-----------------------------------------------------------------------------
(* The packet buffer store (fwd_save_skb, outside src/): a frame is saved  *)
(* in a free buffer, whose number is its id, or not at all (id -1).  The   *)
(* controller releases an announced buffer when it refers to it.           *)

SaveIds == IF \E s \in Slots : store[s] = "free"
           THEN {CHOOSE s \in Slots : store[s] = "free"}
           ELSE {NO_BUFFER}

FwdSaveSkb(id) ==
    IF id = NO_BUFFER THEN store ELSE [store EXCEPT ![id] = "saved"]

ControllerRetrieve(s) ==
    /\ store[s] = "announced"
    /\ store' = [store EXCEPT ![s] = "free"]
    /\ UNCHANGED last

-----------------------------------------------------------------------------
(* The senders.                                                             *)

\* dp_output_control: the payload is cut to max_len only when the frame
\* was buffered.
FwdLen(len, maxLen, id) ==
    IF id # NO_BUFFER THEN IF len < maxLen THEN len ELSE maxLen ELSE len

\* dp_output_control: save the frame, then allocate the PACKET_IN; on
\* failure the frame is freed but its buffer stays saved.
OutputControl(len, maxLen) ==
    \E id \in SaveIds :
      LET fwd == FwdLen(len, maxLen, id)
          opi == OFP_PACKET_IN_DATA + fwd
      IN \E m \in Build("PACKET_IN", opi, opi,
                        [bufferId |-> id, totalLen |-> U16(len),
                         dataLen |-> fwd, frameLen |-> len,
                         maxLen |-> maxLen]) :
           /\ last' = m
           /\ store' = IF m.outcome = "sent" /\ id # NO_BUFFER
                       THEN [store EXCEPT ![id] = "announced"]
                       ELSE FwdSaveSkb(id)

\* dp_send_flow_end: nothing for a flow without send_flow_rem or an
\* emergency flow; get_jiffies_64 is read once for each duration field, and
\* the clock may tick between the two reads.
SendFlowEnd(age, sendFlowRem, emerg) ==
    /\ sendFlowRem /\ ~emerg
    /\ \E tick \in 0 .. 1 :
         last' \in Build("FLOW_REMOVED", OFP_FLOW_REMOVED, OFP_FLOW_REMOVED,
                         [age |-> age, sec |-> JiffiesToSecs(age),
                          nsec |-> JiffiesToNsecs(age + tick)])
    /\ UNCHANGED store

\* flow_stats_dump_callback: do_div(duration, HZ) first, then the two
\* helpers on the quotient.  The record goes into a reply already allocated.
FlowStatsDuration(age) ==
    LET duration == age \div HZ
    IN [sec |-> JiffiesToSecs(duration), nsec |-> JiffiesToNsecs(duration)]

FlowStatsRecord(age) ==
    /\ last' = [NoMsg EXCEPT !.type = "FLOW_STATS", !.age = age,
                             !.sec = FlowStatsDuration(age).sec,
                             !.nsec = FlowStatsDuration(age).nsec]
    /\ UNCHANGED store

\* Messages of a fixed size: dp_send_port_status, dp_send_config_reply,
\* dp_send_barrier_reply and a hello of a supported version.
SendFixed(type, len) ==
    /\ last' \in Build(type, len, len, [type |-> type])
    /\ UNCHANGED store

\* dp_send_features_reply: allocate room for DP_MAX_PORTS ports, fill the
\* ports there are, and shrink to fit.
SendFeaturesReply(portCount) ==
    /\ last' \in Build("FEATURES_REPLY",
                       OFP_SWITCH_FEATURES + OFP_PHY_PORT * DP_MAX_PORTS,
                       OFP_SWITCH_FEATURES + OFP_PHY_PORT * portCount,
                       [type |-> "FEATURES_REPLY"])
    /\ UNCHANGED store

\* dp_send_error_msg: the header and code, then `len' bytes of data.
SendErrorMsg(len) ==
    /\ last' \in Build("ERROR", OFP_ERROR_MSG + len, OFP_ERROR_MSG + len,
                       [type |-> "ERROR"])
    /\ UNCHANGED store

\* dp_send_hello: an older version is answered with HELLO_FAILED.
SendHello(versionOk) ==
    IF versionOk THEN SendFixed("HELLO", OFP_HEADER)
    ELSE SendErrorMsg(HELLO_ERR_LEN)

\* dp_send_echo_reply: the reply is as long as the request.
SendEchoReply(rqLen) ==
    /\ last' \in Build("ECHO_REPLY", rqLen, rqLen, [type |-> "ECHO_REPLY"])
    /\ UNCHANGED store

-----------------------------------------------------------------------------

Init ==
    /\ store = [s \in Slots |-> "free"]
    /\ last = NoMsg

Next ==
    \/ \E len \in FrameLens, m \in MaxLens : OutputControl(len, m)
    \/ \E s \in Slots : ControllerRetrieve(s)
    \/ \E a \in Ages, rem, emerg \in BOOLEAN : SendFlowEnd(a, rem, emerg)
    \/ \E a \in Ages : FlowStatsRecord(a)
    \/ SendFixed("PORT_STATUS", OFP_PORT_STATUS)
    \/ SendFixed("GET_CONFIG_REPLY", OFP_SWITCH_CONFIG)
    \/ SendFixed("BARRIER_REPLY", OFP_HEADER)
    \/ \E n \in {0, 1, DP_MAX_PORTS} : SendFeaturesReply(n)
    \/ \E ok \in BOOLEAN : SendHello(ok)
    \/ \E n \in EchoLens : SendEchoReply(n)
    \/ \E n \in ErrDataLens : SendErrorMsg(n)

Spec == Init /\ [][Next]_vars

-----------------------------------------------------------------------------
(* Properties.                                                              *)

\* The durations of spec section 4.7: the whole seconds of the flow's age,
\* and the rest of it in nanoseconds.
RefDuration(age) ==
    [sec |-> age \div HZ, nsec |-> (age % HZ) * (NSEC_PER_SEC \div HZ)]

\* The numbers the encoder writes are the ones spec section 6 describes:
\* a PACKET_IN's total_len is the frame's length (section 8 property 6), a
\* FLOW_REMOVED or FLOW stats record carries the flow's age as seconds and
\* nanoseconds (section 4.7), and a message is refused as too large only
\* when it exceeds 65535 bytes (section 6).
EncodingAsSpecified ==
    /\ last.type = "PACKET_IN" /\ last.outcome = "sent" =>
           last.totalLen = last.frameLen
    /\ last.type \in {"FLOW_REMOVED", "FLOW_STATS"} /\ last.outcome = "sent" =>
           last.sec = RefDuration(last.age).sec
           /\ last.nsec = RefDuration(last.age).nsec
    /\ last.outcome = "toolarge" => last.size > UINT16_MAX
=============================================================================
