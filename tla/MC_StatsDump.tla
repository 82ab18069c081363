---------------------------- MODULE MC_StatsDump ----------------------------
(* Instantiates the statistics dump engine for TLC: port numbers 1..3 and  *)
(* the local port against two records per reply, so that a full port dump *)
(* takes more than one fragment, as 255 ports do against the ~37 records  *)
(* of a real reply body.  Two regular tables and the emergency table hold *)
(* up to two flows each (keys 1, 2 | 4, 5 | 7, 8); flow 8 has more actions *)
(* than a reply body holds.                                                *)
EXTENDS StatsDump

\* A request every check accepts.
Req(type, portNo) ==
    [hasIdx |-> TRUE, of |-> "ok", version |-> TRUE, header |-> TRUE,
     type |-> type, bodyOk |-> TRUE, portNo |-> portNo,
     tableId |-> ALL_TABLES]

\* A flow stats request for table_id t.
FlowReq(t) == [Req("FLOW", 0) EXCEPT !.tableId = t]

\* An aggregate stats request for table_id t.
AggReq(t) == [Req("AGGREGATE", 0) EXCEPT !.tableId = t]

\* Flow requests for every table, each table (one past the last too, which
\* selects none) and the emergency table; aggregate requests for every
\* table, one table and the emergency table; a vendor request.
MC_FlowRequests ==
    {FlowReq(t) : t \in {ALL_TABLES, 0, 1, 2, EMERG_TABLE_ID_FOR_STATS}}
        \cup {AggReq(t) : t \in {ALL_TABLES, 1, EMERG_TABLE_ID_FOR_STATS}}
        \cup {Req("VENDOR", 0)}

\* A chain with three regular flows and both emergency flows, so that an
\* all-tables dump stops in the second table and an emergency dump stops at
\* the large flow; and a chain with one flow in each regular table.
MC_InitFlows == {{1, 2, 4, 7, 8}, {2, 5}}

MC_BigFlows == {8}

\* A flow dump of every table alone.
MC_StaleFlowDump == {FlowReq(ALL_TABLES)}

FullPortReq == Req("PORT", OFPP_NONE)

\* One request failing each check of the first call in turn.
BadReqs ==
    { [FullPortReq EXCEPT !.hasIdx = FALSE],
      [FullPortReq EXCEPT !.of = "short"],
      [FullPortReq EXCEPT !.version = FALSE],
      [FullPortReq EXCEPT !.header = FALSE],
      [FullPortReq EXCEPT !.type = "BAD"],
      [FullPortReq EXCEPT !.bodyOk = FALSE] }

\* Every kind of stats request, valid or not, that carries its attribute.
MC_Requests ==
    { FullPortReq, Req("PORT", 1), Req("PORT", OFPP_LOCAL), Req("PORT", 0),
      Req("DESC", 0), Req("TABLE", 0) } \cup BadReqs \cup MC_FlowRequests

\* A vendor request, and a request that has no OPENFLOW attribute.
MC_NullDerefRequests ==
    {Req("VENDOR", 0), [FullPortReq EXCEPT !.of = "absent"]}

\* A full port stats dump only.
MC_FullDump == {FullPortReq}
=============================================================================
