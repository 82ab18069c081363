----------------------------- MODULE StatsReply -----------------------------
(* What a statistics dump promises its requester (spec sections 4.7 and 8, *)
(* property 8), stated without cursors or buffers: the reply is a sequence *)
(* of fragments of at most Cap records each; the records of all fragments, *)
(* concatenated, are the records an unbounded buffer would hold, in port   *)
(* number order (the local port, 0xfffe, last) or, for flows, in table   *)
(* then position order; an aggregate or table reply is one fragment that *)
(* counts the flows selected or each table's flows; MORE is set on every   *)
(* fragment but the last; every fragment comes from the datapath the first *)
(* one came from.  A port added or deleted while the dump is under way may *)
(* or a flow added or removed may or may not be reported; a port or flow  *)
(* present throughout is reported once.                                    *)
(* An invalid request, a datapath that has gone, or a failed allocation    *)
(* ends the dump with an error.                                            *)
EXTENDS StatsEnv, SequencesExt

CONSTANT Cap    \* records of one kind that fit in one reply body

VARIABLES
    req,        \* the request the requester sends
    phase,      \* "idle", "open", "complete", "closing" or "closed"
    started,    \* a fragment has been sent
    last,       \* every wanted port up to this number has been dealt with
    boundGen,   \* the datapath the first fragment came from
    frags,      \* the fragments sent: [type, body, more]
    result      \* "none", "ok" or "error"

replyVars == <<req, phase, started, last, boundGen, frags, result>>

\* The flows a flow or aggregate request asks for (its match and out_port
\* are not modelled: every flow of a selected table matches).
Matching(r) == {k \in flows : Selected(r.tableId, TableOf(k))}

\* The flows regular table t holds.
ActiveCount(t) == Cardinality({k \in flows : TableOf(k) = t})

\* The records a port or flow stats request asks for among the ports and
\* flows there are now (flows past the request's match are not modelled).
Wanted(r) ==
    CASE r.type = "PORT" /\ r.portNo = OFPP_NONE -> Present
      [] r.type = "PORT"                         -> Present \cap {r.portNo}
      [] r.type = "FLOW"                         -> Matching(r)
      [] OTHER                                   -> {}

Remaining == SetToSortSeq({p \in Wanted(req) : p > last}, <)

\* The single body of a reply that counts rather than lists: the flow
\* count of an aggregate request, the active count of every regular table.
Summary ==
    IF req.type = "AGGREGATE" THEN <<Cardinality(Matching(req))>>
    ELSE [i \in 1 .. NTables |-> ActiveCount(i - 1)]

Counts == req.type \in {"AGGREGATE", "TABLE"}

FullDump == req.type = "PORT" /\ req.portNo = OFPP_NONE

\* The dumps that may take several fragments and so move a cursor.
Resumable == FullDump \/ req.type = "FLOW"

RInit ==
    /\ EnvInit
    /\ req \in Requests
    /\ phase = "idle"
    /\ started = FALSE
    /\ last = 0
    /\ boundGen = 0
    /\ frags = <<>>
    /\ result = "none"

RRequest ==
    /\ phase = "idle"
    /\ phase' = "open"
    /\ UNCHANGED <<req, started, last, boundGen, frags, result>>

\* Nothing sent yet: a bad request, a missing datapath or a failed
\* allocation ends the dump with an error and no fragment.
RReject ==
    /\ phase = "open" /\ ~started
    /\ phase' = "closing"
    /\ result' = "error"
    /\ UNCHANGED <<req, started, last, boundGen, frags>>

\* Some fragments sent: the datapath has gone or an allocation failed.
RFail ==
    /\ phase = "open" /\ started
    /\ phase' = "closing"
    /\ result' = "error"
    /\ UNCHANGED <<req, started, last, boundGen, frags>>

\* The next k wanted records, as one fragment; a dump without a cursor
\* sends a single fragment.  After it the cursor may
\* rest anywhere from the last record sent up to just before the next one.
REmit ==
    /\ phase = "open"
    /\ ~started => ReqValid(req) /\ dpLive
    /\ started => dpLive /\ dpGen = boundGen
    /\ \E k \in 0 .. Cap, more \in BOOLEAN :
        /\ k <= Len(Remaining)
        /\ ~more => k = Len(Remaining)
        /\ ~Resumable => ~more
        /\ frags' = Append(frags, [type |-> req.type,
                                   body |-> IF Counts THEN Summary
                                            ELSE SubSeq(Remaining, 1, k),
                                   more |-> more])
        /\ phase' = IF more THEN "open" ELSE "complete"
        /\ IF Resumable
           THEN /\ last' >= (IF k > 0 THEN Remaining[k] ELSE last)
                /\ k < Len(Remaining) => last' < Remaining[k + 1]
           ELSE last' = last
    /\ started' = TRUE
    /\ boundGen' = IF started THEN boundGen ELSE dpGen
    /\ UNCHANGED <<req, result>>

RFinish ==
    /\ phase = "complete"
    /\ phase' = "closing"
    /\ result' = "ok"
    /\ UNCHANGED <<req, started, last, boundGen, frags>>

\* The dump ends, or the requester goes away before it does.
RClose ==
    /\ phase \in {"open", "complete", "closing"}
    /\ phase' = "closed"
    /\ UNCHANGED <<req, started, last, boundGen, frags, result>>

RNext ==
    \/ /\ \/ RRequest
          \/ RReject \/ RFail \/ REmit \/ RFinish \/ RClose
       /\ UNCHANGED envVars
    \/ EnvNext /\ UNCHANGED replyVars

RSpec == RInit /\ [][RNext]_<<envVars, replyVars>>
=============================================================================
