------------------------------ MODULE StatsEnv ------------------------------
(* The part of one datapath that a statistics dump reads, and the generic  *)
(* netlink commands that change it between two fragments of the dump.      *)
(* dp_genl_openflow_dumpit runs under genl_mutex (the first call from       *)
(* genl_rcv, the later ones from recvmsg with genl_mutex as the socket's    *)
(* cb_mutex), and so do dp_genl_add, dp_genl_del and dp_genl_add_del_port:  *)
(* each command is one step between two calls of the dump.  The dump names *)
(* its datapath by index; the model follows the one index it names.  Flows *)
(* are keys ordered as the tables' iterators visit them: table by table    *)
(* (the emergency table after the NTables regular ones), and by position   *)
(* within a table.                                                         *)
EXTENDS Integers, Sequences, FiniteSets

CONSTANTS
    MaxPorts,   \* DP_MAX_PORTS: port numbers 1 .. MaxPorts-1 hold switch ports
    MaxChurn,   \* how many port and datapath commands run during one dump
    Requests,   \* the OFPT_STATS_REQUEST messages a requester may send
    NTables,    \* dp->chain->n_tables
    FlowPos,    \* positions per table the model gives flows
    BigFlows,   \* flows whose actions make a record larger than any body
    InitFlows   \* the flow tables a dump may start against

ASSUME MaxPorts \in 2 .. 5 /\ MaxChurn \in Nat
ASSUME NTables \in 1 .. 3 /\ FlowPos \in 1 .. 3

VARIABLES
    dpLive,     \* dps[dp_idx] # NULL
    dpGen,      \* which datapath has been created at dp_idx (1 = the first)
    slots,      \* {n \in PortNos : dp->ports[n] # NULL}
    churn,      \* commands run so far (bounded by MaxChurn)
    flows       \* the flows of dp->chain, as keys

envVars == <<dpLive, dpGen, slots, churn, flows>>

OFPP_LOCAL == 65534
OFPP_NONE == 65535

PortNos == 1 .. MaxPorts - 1

ALL_TABLES == 16^2 - 1      \* table_id 0xff
EMERG_TABLE_ID_FOR_STATS == 16^2 - 2

\* A table's place in iteration order: the emergency table comes last.
Rank(t) == IF t = EMERG_TABLE_ID_FOR_STATS THEN NTables ELSE t

\* The flow at position p (1 .. FlowPos) of the table of rank t.
FlowKey(t, p) == t * (FlowPos + 1) + p
FlowKeys == {FlowKey(t, p) : t \in 0 .. NTables, p \in 1 .. FlowPos}
TableOf(k) == k \div (FlowPos + 1)
PosOf(k) == k % (FlowPos + 1)

ASSUME BigFlows \subseteq FlowKeys /\ InitFlows \subseteq SUBSET FlowKeys

\* The tables a flow or aggregate request with this table_id reads: every
\* regular table, the emergency table, or the one regular table named.
Selected(tableId, rank) ==
    CASE tableId = ALL_TABLES               -> rank < NTables
      [] tableId = EMERG_TABLE_ID_FOR_STATS -> rank = NTables
      [] OTHER                              -> rank = tableId /\ rank < NTables

\* The request fields that decide the first call of the dump: a DP_IDX
\* attribute, the OPENFLOW attribute ("absent", "short" or "ok"), the header
\* version and type/length, the stats type and whether the body length is in
\* [min_body, max_body], the port_no of a port stats request and the
\* table_id of a flow or aggregate stats request.
StatsTypes == {"DESC", "FLOW", "AGGREGATE", "TABLE", "PORT", "VENDOR", "BAD"}

RequestFields ==
    [hasIdx : BOOLEAN, of : {"absent", "short", "ok"}, version : BOOLEAN,
     header : BOOLEAN, type : StatsTypes, bodyOk : BOOLEAN,
     portNo : {0, OFPP_LOCAL, OFPP_NONE} \cup PortNos,
     tableId : {ALL_TABLES, EMERG_TABLE_ID_FOR_STATS} \cup 0 .. NTables]

\* A request every check of the first call accepts.
ReqValid(r) ==
    /\ r.hasIdx /\ r.of = "ok" /\ r.version /\ r.header
    /\ r.type # "BAD" /\ r.bodyOk

\* dp->local_port is set by new_dp before the datapath is published and
\* cleared by del_dp after it is unpublished, all under genl_mutex.
LocalPresent == dpLive

\* The ports a lookup by number finds: dp->ports[] and dp->local_port.
Present == IF LocalPresent THEN slots \cup {OFPP_LOCAL} ELSE {}

EnvInit ==
    /\ dpLive = TRUE
    /\ dpGen = 1
    /\ slots \in SUBSET PortNos
    /\ churn = 0
    /\ flows \in InitFlows

\* dp_genl_add_del_port, ADD_PORT: add_switch_port takes the lowest free
\* number (find_portno).
EnvAddPort ==
    /\ dpLive /\ slots # PortNos /\ churn < MaxChurn
    /\ LET n == CHOOSE m \in PortNos \ slots :
                    \A k \in PortNos \ slots : m <= k
       IN slots' = slots \cup {n}
    /\ churn' = churn + 1
    /\ UNCHANGED <<dpLive, dpGen, flows>>

\* dp_genl_add_del_port, DEL_PORT: dp_del_switch_port clears ports[n].
EnvDelPort(n) ==
    /\ dpLive /\ n \in slots /\ churn < MaxChurn
    /\ slots' = slots \ {n}
    /\ churn' = churn + 1
    /\ UNCHANGED <<dpLive, dpGen, flows>>

\* dp_genl_openflow hands an OFPT_FLOW_MOD to fwd_control_input under
\* dp_mutex: the chain gains flow k.
EnvAddFlow(k) ==
    /\ dpLive /\ k \notin flows /\ churn < MaxChurn
    /\ flows' = flows \cup {k}
    /\ churn' = churn + 1
    /\ UNCHANGED <<dpLive, dpGen, slots>>

\* A delete FLOW_MOD, or chain_timeout in dp_maint_func, removes flow k.
EnvDelFlow(k) ==
    /\ dpLive /\ k \in flows /\ churn < MaxChurn
    /\ flows' = flows \ {k}
    /\ churn' = churn + 1
    /\ UNCHANGED <<dpLive, dpGen, slots>>

\* dp_genl_del: del_dp removes every port, destroys the chain and
\* unpublishes dps[dp_idx].
EnvDelDp ==
    /\ dpLive /\ churn < MaxChurn
    /\ dpLive' = FALSE
    /\ slots' = {}
    /\ flows' = {}
    /\ churn' = churn + 1
    /\ UNCHANGED dpGen

\* dp_genl_add at the same index: new_dp publishes a fresh datapath that
\* has only its local port and an empty chain.
EnvNewDp ==
    /\ ~dpLive /\ churn < MaxChurn
    /\ dpLive' = TRUE
    /\ dpGen' = dpGen + 1
    /\ slots' = {}
    /\ churn' = churn + 1
    /\ UNCHANGED flows

EnvNext ==
    \/ EnvAddPort
    \/ \E n \in PortNos : EnvDelPort(n)
    \/ \E k \in FlowKeys : EnvAddFlow(k)
    \/ \E k \in FlowKeys : EnvDelFlow(k)
    \/ EnvDelDp
    \/ EnvNewDp

EnvTypeOK ==
    /\ dpLive \in BOOLEAN
    /\ dpGen \in 1 .. MaxChurn + 1
    /\ slots \subseteq PortNos
    /\ churn \in 0 .. MaxChurn
    /\ flows \subseteq FlowKeys
=============================================================================
