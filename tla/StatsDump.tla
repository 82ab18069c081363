------------------------------ MODULE StatsDump ------------------------------
(* The statistics dump engine: dp_genl_openflow_dumpit, called once per    *)
(* reply fragment by the netlink dump transport, with its state in         *)
(* cb->args[] (phase, dp_idx, type, xid, per-dump state), the dump         *)
(* functions (desc, flow, aggregate, table, port and vendor) and          *)
(* dp_genl_openflow_done, which the transport calls once when the dump     *)
(* ends.  One dump against one datapath index; port, flow and datapath     *)
(* commands (StatsEnv) run between its calls.  A record is a port number   *)
(* (port stats), a flow key (flow stats) or nothing (desc, aggregate and   *)
(* table stats fit in any reply).                                          *)
EXTENDS StatsEnv, SequencesExt

CONSTANTS
    Cap,        \* *body_len / sizeof(struct ofp_port_stats): records per reply
    MaxFrags    \* fragments the model lets one dump send

ASSUME Cap \in 2 .. 4 /\ MaxFrags \in 1 .. 8

VARIABLES
    req,        \* the request (cb->nlh)
    tphase,     \* transport: "idle", "running", "ending" (dumpit returned
                \* <= 0) or "ended" (cb->done has run)
    frags,      \* the STATS_REPLY fragments sent: [type, body, more]
    result,     \* "none", "ok" or the error code dumpit returned
    errMsg,     \* dp_send_error_msg has sent an OFPT_ERROR to the requester
    args0,      \* cb->args[0]: 0 before the first call, 1 dumping, 2 drained
    stState,    \* cb->args[4] of a port or flow dump: "none", "live", "freed"
    startPort,  \* s->start_port (1 from port_stats_init on)
    tableIdx,   \* s->table_idx of a flow dump
    position,   \* s->position of a flow dump: the position the next iterate
                \* starts at (0: the table's start)
    genAtStart, \* history: the datapath the first fragment came from
    oops        \* a NULL pointer has been dereferenced

dumpVars == <<req, tphase, frags, result, errMsg, args0, stState, startPort,
              tableIdx, position, genAtStart, oops>>
vars == <<envVars, dumpVars>>

Frag == [type : StatsTypes, body : Seq(PortNos \cup {OFPP_LOCAL} \cup FlowKeys
                                   \cup 0 .. Cardinality(FlowKeys)),
         more : BOOLEAN]

TypeOK ==
    /\ EnvTypeOK
    /\ req \in Requests
    /\ tphase \in {"idle", "running", "ending", "ended"}
    /\ frags \in Seq(Frag) /\ Len(frags) <= MaxFrags
    /\ result \in {"none", "ok", "EINVAL", "ENOENT", "ENOMEM", "EFAULT"}
    /\ errMsg \in BOOLEAN
    /\ args0 \in 0 .. 2
    /\ stState \in {"none", "live", "freed"}
    /\ startPort \in PortNos \cup {1, MaxPorts, OFPP_NONE}
    /\ tableIdx \in 0 .. NTables \cup {EMERG_TABLE_ID_FOR_STATS}
    /\ position \in 0 .. FlowPos + 1
    /\ genAtStart \in 0 .. MaxChurn + 1
    /\ oops \in BOOLEAN

Init ==
    /\ EnvInit
    /\ req \in Requests
    /\ tphase = "idle"
    /\ frags = <<>>
    /\ result = "none"
    /\ errMsg = FALSE
    /\ args0 = 0
    /\ stState = "none"
    /\ startPort = 1
    /\ tableIdx = 0
    /\ position = 0
    /\ genAtStart = 0
    /\ oops = FALSE

\* dumpit returns 0 or an error: the transport stops calling it.
Stop(code) == tphase' = "ending" /\ result' = code

\* The first failing check of the first call, in the code's order: the
\* attributes parse and DP_IDX is there, the datapath exists, the OPENFLOW
\* attribute is long enough, the version, the header type and length, the
\* stats type, the body length.
FirstError ==
    CASE ~req.hasIdx            -> "EINVAL"
      [] ~dpLive                -> "ENOENT"
      [] req.of # "ok"          -> "EINVAL"
      [] ~req.version           -> "EINVAL"
      [] ~req.header            -> "EINVAL"
      [] req.type = "BAD"       -> "EINVAL"
      [] ~req.bodyOk            -> "EINVAL"
      [] OTHER                  -> "none"

\* dp_send_error_msg is called for a bad version and for a bad stats type.
FirstErrorReported ==
    /\ req.hasIdx /\ dpLive /\ req.of = "ok"
    /\ \/ ~req.version
       \/ req.header /\ req.type = "BAD"

\* Variant: the cursor is left on the local port instead of past it.
PortStatsAllNoPastLocal ==
    LET cand  == SetToSortSeq({p \in slots : p >= startPort}, <)
        taken == SubSeq(cand, 1, IF Len(cand) < Cap THEN Len(cand) ELSE Cap)
    IN  [body |-> Append(taken, OFPP_LOCAL), start |-> OFPP_LOCAL]

\* port_stats_dump for OFPP_NONE: the ports from s->start_port on while
\* the body has room, then the local port whether or not it has room (a
\* record past a full body shows as a fragment of Cap + 1 records).
PortStatsAll ==
    LET cand  == SetToSortSeq({p \in slots : p >= startPort}, <)
        taken == SubSeq(cand, 1, IF Len(cand) < Cap THEN Len(cand) ELSE Cap)
        i     == IF Len(taken) = Cap THEN taken[Cap] + 1
                 ELSE IF startPort < MaxPorts THEN MaxPorts ELSE startPort
    IN  IF LocalPresent
        THEN [body |-> Append(taken, OFPP_LOCAL), start |-> OFPP_LOCAL + 1]
        ELSE [body |-> taken, start |-> i]

\* port_stats_dump for one port: lookup_port.
PortStatsOne ==
    [body |-> IF req.portNo \in Present THEN <<req.portNo>> ELSE <<>>,
     start |-> startPort]

\* The size of flow k's record, sizeof(struct ofp_flow_stats) plus its
\* actions, in records of a flow with few actions.
FlowLen(k) == IF k \in BigFlows THEN Cap + 1 ELSE 1

\* flow_stats_dump_callback over the flows an iterate visits, in order: a
\* record that would overflow the body stops the iteration at that flow;
\* the others are appended and counted in s->bytes_used.
RECURSIVE FillBody(_, _, _)
FillBody(ks, used, body) ==
    IF ks = <<>> THEN [body |-> body, used |-> used, stop |-> 0]
    ELSE IF FlowLen(Head(ks)) + used > Cap
    THEN [body |-> body, used |-> used, stop |-> Head(ks)]
    ELSE FillBody(Tail(ks), used + FlowLen(Head(ks)), Append(body, Head(ks)))

\* The flows of the table of rank t at or after position pos.
FlowsFrom(t, pos) ==
    SetToSortSeq({k \in flows : TableOf(k) = t /\ PosOf(k) >= pos}, <)

\* Variant: the position is left past the flow that did not fit.
IteratePastStop(t, pos, used, body) ==
    LET r == FillBody(FlowsFrom(t, pos), used, body)
    IN  [body |-> r.body, used |-> r.used, error |-> r.stop # 0,
         pos |-> IF r.stop # 0 THEN PosOf(r.stop) + 1 ELSE FlowPos + 1]

\* table->iterate from s->position with flow_stats_dump_callback: the
\* position stays on the flow that stopped it, or passes the table's end.
Iterate(t, pos, used, body) ==
    LET r == FillBody(FlowsFrom(t, pos), used, body)
    IN  [body |-> r.body, used |-> r.used, error |-> r.stop # 0,
         pos |-> IF r.stop # 0 THEN PosOf(r.stop) ELSE FlowPos + 1]

\* The while loop of flow_stats_dump over the regular tables: the next
\* table, with the position zeroed, once a table has been iterated to its
\* end, for every table or only the one requested.
RECURSIVE TableLoop(_, _, _, _)
TableLoop(t, pos, used, body) ==
    IF t < NTables /\ Selected(req.tableId, t)
    THEN LET r == Iterate(t, pos, used, body)
         IN  IF r.error THEN r @@ [tbl |-> t]
             ELSE TableLoop(t + 1, 0, r.used, r.body)
    ELSE [body |-> body, used |-> used, error |-> FALSE, tbl |-> t,
          pos |-> pos]

\* flow_stats_init: s->table_idx and a zeroed s->position.
FlowStatsInit ==
    [tbl |-> IF req.tableId = ALL_TABLES THEN 0 ELSE req.tableId, pos |-> 0]

\* flow_stats_dump from the cursor cur: the emergency table alone, or the
\* table loop; it returns 0 when the iteration ended, 1 when it stopped
\* with records in the body, -ENOMEM when it stopped with none.
FlowStatsDump(cur) ==
    LET r == IF req.tableId = EMERG_TABLE_ID_FOR_STATS
             THEN Iterate(NTables, cur.pos, 0, <<>>) @@ [tbl |-> cur.tbl]
             ELSE TableLoop(cur.tbl, cur.pos, 0, <<>>)
    IN  [body |-> r.body, start |-> startPort, tbl |-> r.tbl, pos |-> r.pos,
         ret |-> CASE ~r.error    -> 0
                   [] r.used > 0  -> 1
                   [] OTHER       -> -1]

\* Variant: the loop condition lacks the rq->table_id == 0xff disjunct.
RECURSIVE AggregateLoopOneTable(_, _)
AggregateLoopOneTable(t, n) ==
    IF t < NTables /\ req.tableId = t
    THEN AggregateLoopOneTable(t + 1, n + Len(FlowsFrom(t, 0)))
    ELSE n

\* The table loop of aggregate_stats_dump: from table t with n flows
\* counted, every selected table from a zeroed position; the callback
\* counts every flow and never stops the iteration.
RECURSIVE AggregateLoop(_, _)
AggregateLoop(t, n) ==
    IF t < NTables /\ (req.tableId = ALL_TABLES \/ req.tableId = t)
    THEN AggregateLoop(t + 1, n + Len(FlowsFrom(t, 0)))
    ELSE n

\* aggregate_stats_dump: one reply holding the flow count of the emergency
\* table or of the table loop from table_idx.
AggregateStatsDump ==
    [body |-> <<IF req.tableId = EMERG_TABLE_ID_FOR_STATS
                THEN Len(FlowsFrom(NTables, 0))
                ELSE AggregateLoop(IF req.tableId = ALL_TABLES THEN 0
                                   ELSE req.tableId, 0)>>,
     start |-> startPort]

\* table_stats_dump: the active count of every regular table, in order (a
\* chain's few tables always fit the body, so -ENOBUFS is not reached).
TableStatsDump ==
    [body |-> [i \in 1 .. NTables |-> Cardinality(
                  {k \in flows : TableOf(k) = i - 1})],
     start |-> startPort]

\* desc_stats_dump: one fixed-size body of strings, then done.
OneShot == [body |-> <<>>, start |-> startPort]

StatsBody(cur) ==
    CASE req.type = "PORT" /\ req.portNo = OFPP_NONE -> PortStatsAll
      [] req.type = "PORT"                            -> PortStatsOne
      [] req.type = "FLOW"                            -> FlowStatsDump(cur)
      [] req.type = "AGGREGATE"                       -> AggregateStatsDump
      [] req.type = "TABLE"                           -> TableStatsDump
      [] OTHER                                        -> OneShot

\* The dump function's return value is positive: more to come.
DumpMore(d) ==
    IF req.type = "FLOW" THEN d.ret = 1
    ELSE req.type = "PORT" /\ Len(d.body) >= Cap

\* The dump function's return value is negative: flow_stats_dump found a
\* flow too large for an empty body.
DumpFailed(d) == req.type = "FLOW" /\ d.ret < 0

\* The cursor a resumed flow dump starts from.
Cursor == [tbl |-> tableIdx, pos |-> position]

\* Variant: cb->args[0] is never set to 2 when the dump function is done.
PutStatsReplyNoDrain(cur) ==
    \/ /\ Stop("ENOMEM")
       /\ args0' = 1
       /\ UNCHANGED <<frags, startPort, tableIdx, position, genAtStart>>
    \/ LET d == StatsBody(cur) IN
       IF DumpFailed(d)
       THEN /\ Stop("ENOMEM")
            /\ args0' = 1
            /\ UNCHANGED <<frags, startPort, tableIdx, position, genAtStart>>
       ELSE /\ frags' = Append(frags, [type |-> req.type, body |-> d.body,
                                       more |-> DumpMore(d)])
            /\ startPort' = d.start
            /\ tableIdx' = IF req.type = "FLOW" THEN d.tbl ELSE tableIdx
            /\ position' = IF req.type = "FLOW" THEN d.pos ELSE position
            /\ genAtStart' = IF frags = <<>> THEN dpGen ELSE genAtStart
            /\ args0' = 1
            /\ UNCHANGED <<tphase, result>>

\* The reply: put_openflow_headers may fail to allocate; otherwise s->dump
\* fills the body from cursor cur and dumpit returns its error, or sends
\* the fragment with MORE set, or with cb->args[0] = 2.  A dump that fails
\* here ends, so the cursor it moved is never read again and is not kept.
PutStatsReply(cur) ==
    \/ /\ Stop("ENOMEM")
       /\ args0' = 1
       /\ UNCHANGED <<frags, startPort, tableIdx, position, genAtStart>>
    \/ LET d == StatsBody(cur) IN
       IF DumpFailed(d)
       THEN /\ Stop("ENOMEM")
            /\ args0' = 1
            /\ UNCHANGED <<frags, startPort, tableIdx, position, genAtStart>>
       ELSE /\ frags' = Append(frags, [type |-> req.type, body |-> d.body,
                                       more |-> DumpMore(d)])
            /\ startPort' = d.start
            /\ tableIdx' = IF req.type = "FLOW" THEN d.tbl ELSE tableIdx
            /\ position' = IF req.type = "FLOW" THEN d.pos ELSE position
            /\ genAtStart' = IF frags = <<>> THEN dpGen ELSE genAtStart
            /\ args0' = IF DumpMore(d) THEN 1 ELSE 2
            /\ UNCHANGED <<tphase, result>>

\* First call: validate, record the request in cb->args, run s->init.
\* va is passed to nla_len before it is tested for NULL.  port_stats_init
\* and flow_stats_init allocate their state; vendor_stats_init fails for
\* every vendor; the other types have no init.  cb->args[0] is set before
\* s->init runs.
DumpFirst ==
    /\ args0 = 0
    /\ IF req.hasIdx /\ dpLive /\ req.of = "absent"
       THEN /\ oops' = TRUE
            /\ Stop("EFAULT")
            /\ UNCHANGED <<errMsg, args0, stState, startPort, tableIdx,
                           position, genAtStart, frags>>
       ELSE IF FirstError # "none"
       THEN /\ Stop(FirstError)
            /\ errMsg' = FirstErrorReported
            /\ UNCHANGED <<args0, stState, startPort, tableIdx, position,
                           genAtStart, frags, oops>>
       ELSE /\ IF req.type \in {"PORT", "FLOW"}
               THEN \/ /\ Stop("ENOMEM")
                       /\ args0' = 1
                       /\ UNCHANGED <<stState, startPort, tableIdx, position,
                                      genAtStart, frags>>
                    \/ /\ stState' = "live"
                       /\ PutStatsReply(FlowStatsInit)
               ELSE IF req.type = "VENDOR"
               THEN /\ Stop("EINVAL")
                    /\ args0' = 1
                    /\ UNCHANGED <<stState, startPort, tableIdx, position,
                                   genAtStart, frags>>
               ELSE /\ PutStatsReply(Cursor)
                    /\ UNCHANGED stState
            /\ UNCHANGED <<errMsg, oops>>

\* Variant: a resumed call that finds no datapath returns without ending
\* the dump.
DumpResumeWaitsForDp ==
    /\ args0 = 1
    /\ IF ~dpLive
       THEN UNCHANGED <<tphase, result, args0, frags, startPort, tableIdx,
                        position, genAtStart>>
       ELSE PutStatsReply(Cursor)
    /\ UNCHANGED <<errMsg, oops, stState>>

\* Later calls: look the datapath up again by the index in cb->args[1].
DumpResume ==
    /\ args0 = 1
    /\ IF ~dpLive
       THEN /\ Stop("ENOENT")
            /\ UNCHANGED <<args0, frags, startPort, tableIdx, position,
                           genAtStart>>
       ELSE PutStatsReply(Cursor)
    /\ UNCHANGED <<errMsg, oops, stState>>

\* cb->args[0] = 2: dumpit returns 0 and the transport ends the dump.
DumpDrained ==
    /\ args0 = 2
    /\ Stop("ok")
    /\ UNCHANGED <<frags, errMsg, args0, stState, startPort, tableIdx,
                   position, genAtStart, oops>>

Request ==
    /\ tphase = "idle"
    /\ tphase' = "running"
    /\ UNCHANGED <<req, frags, result, errMsg, args0, stState, startPort,
                   tableIdx, position, genAtStart, oops>>

\* The transport calls dumpit for the next fragment.
Poll ==
    /\ tphase = "running"
    /\ Len(frags) < MaxFrags
    /\ DumpFirst \/ DumpResume \/ DumpDrained
    /\ UNCHANGED req

\* Variant: the state is released only while the dump is still running.
OpenflowDoneWhileDumping ==
    /\ stState' = IF args0 = 1 /\ stState = "live" THEN "freed" ELSE stState
    /\ oops' = (oops \/ (args0 = 1 /\ req.type = "VENDOR"))

\* dp_genl_openflow_done: s->done(cb->args[4]) once the dump has begun.
\* port_stats_done and flow_stats_done free the state (kfree(NULL) when
\* init failed); vendor_stats_done reads the vendor id through the state,
\* which is still NULL because vendor_stats_init never succeeds.
OpenflowDone ==
    /\ stState' = IF args0 # 0 /\ stState = "live" THEN "freed" ELSE stState
    /\ oops' = (oops \/ (args0 # 0 /\ req.type = "VENDOR"))

\* The transport ends the dump after dumpit returned 0 or an error.
Finish ==
    /\ tphase = "ending"
    /\ tphase' = "ended"
    /\ OpenflowDone
    /\ UNCHANGED <<req, frags, result, errMsg, args0, startPort, tableIdx,
                   position, genAtStart>>

\* The requester closes its socket while the dump is under way.
Abort ==
    /\ tphase = "running"
    /\ tphase' = "ended"
    /\ OpenflowDone
    /\ UNCHANGED <<req, frags, result, errMsg, args0, startPort, tableIdx,
                   position, genAtStart>>

Closed == tphase = "ended" /\ UNCHANGED vars

Next ==
    \/ /\ Request \/ Poll \/ Finish \/ Abort
       /\ UNCHANGED envVars
    \/ EnvNext /\ UNCHANGED dumpVars
    \/ Closed

\* The transport keeps calling dumpit while the requester reads, and
\* calls cb->done when dumpit has returned 0 or an error.
Spec == Init /\ [][Next]_vars /\ WF_vars(Poll /\ UNCHANGED envVars)
                              /\ WF_vars(Finish /\ UNCHANGED envVars)

-----------------------------------------------------------------------------
(* Refinement: the reply the engine sends, seen through the abstract      *)
(* promise of StatsReply.                                                  *)

AbsPhase ==
    CASE tphase = "idle"                  -> "idle"
      [] tphase = "running" /\ args0 = 2  -> "complete"
      [] tphase = "running"               -> "open"
      [] tphase = "ending"                -> "closing"
      [] OTHER                            -> "closed"

AbsResult == IF result \in {"none", "ok"} THEN result ELSE "error"

\* Everything before the cursor has been dealt with: for a flow dump, the
\* flows before s->position in table s->table_idx and in earlier tables.
CursorLast ==
    IF req.type = "FLOW"
    THEN FlowKey(Rank(tableIdx), IF position = 0 THEN 1 ELSE position) - 1
    ELSE startPort - 1

Promise == INSTANCE StatsReply
           WITH phase <- AbsPhase, started <- frags # <<>>,
                last <- CursorLast, boundGen <- genAtStart,
                result <- AbsResult

\* Every stats dump, resumed over as many fragments as it takes, sends what
\* the abstract reply promises: each wanted port or flow once, in order, at
\* most Cap records per fragment, MORE on all but the last, every fragment
\* from one datapath (port_stats_dump and flow_stats_dump with
\* dp_genl_openflow_dumpit).
ImplementsStatsReply == Promise!RSpec

\* A dump that ends, by any path, has released the state port_stats_init
\* allocated: dp_genl_openflow_done frees cb->args[4] whether the dump
\* drained, failed on a resumed call, or was closed by the requester.
StateReleased == tphase = "ended" => stState # "live"

\* Every dump but a full port dump, over as many fragments as it takes and
\* with commands between them, sends what the abstract reply promises while
\* the datapath it began on is the only one created at its index: a flow
\* dump (flow_stats_dump with its cursor s->table_idx and s->position)
\* sends each wanted flow once, in table then position order, at most Cap
\* records a fragment, MORE on all but the last; the one-shot dumps send
\* one fragment; a bad request or a failed allocation is an error.
PromiseKeptOnFirstDatapath ==
    /\ Promise!RInit
    /\ [][(~Promise!FullDump /\ dpGen = 1) => Promise!RNext]_<<envVars,
                                                 Promise!replyVars>>

\* Neither dp_genl_openflow_dumpit nor dp_genl_openflow_done dereferences a
\* NULL pointer: not a missing OPENFLOW attribute, and not the state of a
\* dump whose s->init failed.
NoNullDeref == ~oops

\* Every dump the requester keeps reading ends: dumpit reaches its drained
\* phase or an error, and the transport then calls cb->done.
DumpEnds == tphase = "running" ~> tphase = "ended"
=============================================================================
