--------------------------- MODULE MCTailSampling ---------------------------
(***************************************************************************)
(* Small instances of the tail-sampling buffer, with the decisions of      *)
(* SpanPredicates.                                                         *)
(***************************************************************************)
EXTENDS TimeWheelProps, SpanPredicates

-----------------------------------------------------------------------------
(* Points and conditions *)

Str(s) == <<"string", s>>
Num(n) == <<"int64", n>>
Cmp(field, op, v) ==
    [node |-> "bin", op |-> op, lhs |-> [node |-> "ident", name |-> field],
     rhs |-> [node |-> "lit", v |-> v]]
And(a, b) == [node |-> "bin", op |-> "AND", lhs |-> a, rhs |-> b]
Where(conds) == [node |-> "where", conds |-> conds]

IsError == Cmp("status", "EQ", Str("error"))
IsRoot == Cmp("parent_id", "EQ", Str("0"))
IsSlow == Cmp("duration", "GT", Num(5))
OnDB == Cmp("resource", "EQ", Str("db"))

Span(status, parent, duration, resource) ==
    [status |-> Str(status), parent_id |-> Str(parent), duration |-> Num(duration),
     resource |-> Str(resource)]

\* 1: a fast root; 2: a slow span; 3: a fast error; 4: a log record, no duration.
MCKVs(id) ==
    CASE id = 1 -> Span("ok", "0", 3, "web")
      [] id = 2 -> Span("ok", "7", 9, "db")
      [] id = 3 -> Span("error", "7", 2, "web")
      [] id = 4 -> [status |-> Str("ok"), resource |-> Str("db")]
MCDecodable(id) == TRUE
MCMatches(re, s) == re = s
MCRank(s) == 0
MCIsHTTPError(s) == s \in {"404", "500"}

-----------------------------------------------------------------------------
(* Packets and configurations *)

Trace(id) == [token |-> 1, id |-> id, type |-> "tracing", key |-> ""]

Pkt(group, pts, compression, pred) ==
    [group |-> group, points |-> pts, compression |-> compression, hasError |-> FALSE,
     pred |-> pred, pointCount |-> Len(pts), start |-> 0, end |-> 0, maxTime |-> 0]

\* A trace in two packets, of which one is compressed; two traces on two shards,
\* the client of one being of the old version: no summary; a trace whose second
\* packet is damaged and cannot be merged; a trace of which only one of the
\* clients is of the old version.
MCGroups == {Trace(0), Trace(1)}
MCTrace ==
    {Pkt(Trace(0), <<1, 3>>, "none", Summary(<<1, 3>>)), Pkt(Trace(0), <<2>>, "zstd", Summary(<<2>>))}
MCTwo ==
    {Pkt(Trace(0), <<1, 3>>, "none", Summary(<<1, 3>>)), Pkt(Trace(1), <<3, 4>>, "none", NoPredicates)}
MCDamaged ==
    {Pkt(Trace(0), <<1, 3>>, "none", Summary(<<1, 3>>)),
     Pkt(Trace(0), <<4>>, "damaged", Summary(<<4>>))}
MCMixed ==
    {Pkt(Trace(1), <<1, 3>>, "none", NoPredicates), Pkt(Trace(1), <<2>>, "none", Summary(<<2>>))}
MCPackets == MCTrace \cup MCTwo \cup MCDamaged \cup MCMixed
MCWorkloads == {MCTrace, MCTwo, MCDamaged, MCMixed}

Keep(conds) == [type |-> "condition", cond |-> conds, action |-> "keep", rate |-> 0]
Drop(conds) == [type |-> "condition", cond |-> conds, action |-> "drop", rate |-> 0]
Sample(rate) == [type |-> "probabilistic", cond |-> NoCond, action |-> "", rate |-> rate]
Tracing(version, ttl, pipelines) ==
    [version |-> version, logging |-> Nil, rum |-> Nil,
     tracing |-> [ttl |-> ttl, groups |-> <<[key |-> "", pipelines |-> pipelines]>>,
                  derived |-> FALSE, builtin |-> <<>>]]

\* Errors are kept and the rest sampled; or database spans are dropped first;
\* or slow errors are kept; or an invalid configuration, which is refused.
MCConfigs ==
    {<<1, Tracing(1, 40, <<Keep(<<Where(<<IsError>>)>>), Drop(<<Where(<<IsRoot, IsSlow>>)>>), Sample(1)>>)>>,
     <<1, Tracing(2, 0, <<Drop(<<Where(<<OnDB>>)>>), Keep(<<Where(<<IsError>>)>>)>>)>>,
     <<1, Tracing(3, 10, <<Keep(<<Where(<<IsError, IsSlow>>)>>)>>)>>,
     <<1, Tracing(4, 10, <<Keep(BadCond)>>)>>}

MCPayloadLen(p) == IF p.compression = "none" THEN Len(p.points) ELSE (Len(p.points) + 1) \div 2
MCCompress(pts) == IF Len(pts) < 2 THEN "none" ELSE "zstd"

-----------------------------------------------------------------------------
(* Property *)

\* The conditions in one pair of braces ask for one fact of a span, or for the
\* duration of a root span, of another span or of any.
OneFact(w) ==
    LET c == Combined(w.conds)
    IN  c.flag = NoFlag \/ (c.flag[1] = "fact" /\ c.parent = "none" /\ c.gt = 0)
OneFactEach(ps) ==
    \A i \in DOMAIN ps : ps[i].cond # NoCond => \A j \in DOMAIN ps[i].cond : OneFact(ps[i].cond[j])
OnlyKeep(ps) == \A i \in DOMAIN ps : ps[i].type = "condition" /\ ps[i].action = "keep"

\* The packet has the summary of all of its points, or none.
WellSummarised(o) == o.packet.pred \in {Summary(o.accepted), NoPredicates}


=============================================================================
