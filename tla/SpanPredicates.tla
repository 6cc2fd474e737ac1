--------------------------- MODULE SpanPredicates ---------------------------
(***************************************************************************)
(* How a sampling pipeline decides a group of spans: by walking its points *)
(* (src/aggregate/tail-sampling.go, evaluatePipelines) or, when the        *)
(* conditions can be compiled, from the summary the packet carries         *)
(* (pipeline_predicates.go).                                               *)
(*                                                                         *)
(* A packet's points are ids; KVsOf gives the fields of a point and        *)
(* Decodable says whether its bytes decode.  The summary, pred, is         *)
(* [error, http, biz, keep, max, root, nonroot].                           *)
(***************************************************************************)
EXTENDS FilterEval, SamplingConfig

CONSTANTS KVsOf(_), Decodable(_),
    HTTPErrorRegexes, \* the six regexes isHTTPErrorRegex knows
    IsHTTPError(_)    \* isHTTPErrorStatus

Larger(a, b) == IF a > b THEN a ELSE b

NoPredicates ==
    [error |-> FALSE, http |-> FALSE, biz |-> FALSE, keep |-> FALSE,
     max |-> 0, root |-> 0, nonroot |-> 0]

-----------------------------------------------------------------------------
(* The summary *)

\* applySpanPredicatesWith.  A float duration is truncated; the unit of float
\* values is chosen so that FloatUnit of them are 1.
FloatUnit == 10
applySpanPredicates(pred, kvs) ==
    LET Str(k) == k \in DOMAIN kvs /\ kvs[k][1] = "string"
        hasDur == "duration" \in DOMAIN kvs /\ kvs["duration"][1] \in {"int64", "float64"}
        dur    == IF ~ hasDur THEN 0
                  ELSE IF kvs["duration"][1] = "int64" THEN kvs["duration"][2]
                  ELSE kvs["duration"][2] \div FloatUnit
        isRoot == Str("parent_id") /\ kvs["parent_id"][2] = "0"
        isSub  == Str("parent_id") /\ kvs["parent_id"][2] # "0"
    IN  [error   |-> pred.error \/ (Str("status") /\ kvs["status"][2] = "error"),
         http    |-> pred.http \/ (Str("http_status_code") /\ IsHTTPError(kvs["http_status_code"][2])),
         biz     |-> pred.biz \/ (Str("body_code") /\ kvs["body_code"][2] \notin {"0", "200"}),
         keep    |-> pred.keep \/ ("trace_keep" \in DOMAIN kvs /\ kvs["trace_keep"] = <<"bool", TRUE>>),
         max     |-> Larger(pred.max, dur),
         root    |-> IF isRoot THEN Larger(pred.root, dur) ELSE pred.root,
         nonroot |-> IF isSub THEN Larger(pred.nonroot, dur) ELSE pred.nonroot]

mergeSpanPredicates(a, b) ==
    [error |-> a.error \/ b.error, http |-> a.http \/ b.http,
     biz   |-> a.biz \/ b.biz,     keep |-> a.keep \/ b.keep,
     max   |-> Larger(a.max, b.max), root |-> Larger(a.root, b.root),
     nonroot |-> Larger(a.nonroot, b.nonroot)]

\* The summary PickTrace makes of the points of one packet.
RECURSIVE Summary(_)
Summary(pts) ==
    IF pts = <<>> THEN NoPredicates
    ELSE applySpanPredicates(Summary(SubSeq(pts, 1, Len(pts) - 1)), KVsOf(pts[Len(pts)]))

packetHasSpanPredicates(packet) ==
    LET p == packet.pred IN
    p.error \/ p.http \/ p.biz \/ p.keep \/ p.max > 0 \/ p.root > 0 \/ p.nonroot > 0

\* ComputeSpanPredicates: a packet without a summary gets one, unless its
\* payload cannot be read to the end.
ComputeSpanPredicates(packet) ==
    IF packetHasSpanPredicates(packet) \/ ~ Decompresses(packet)
       \/ \E i \in DOMAIN packet.points : ~ Decodable(packet.points[i])
    THEN packet
    ELSE [packet EXCEPT !.pred = Summary(packet.points)]

-----------------------------------------------------------------------------
(* Compilation *)

\* A spanPred is [ok, flag, parent, gt]; flag is NoFlag or a formula over the
\* summary: <<"fact", name>>, <<"dur", field, n>>, <<"and", f, g>>, <<"or", f, g>>.
NoFlag == <<"none">>
NotCovered == [ok |-> FALSE, flag |-> NoFlag, parent |-> "none", gt |-> 0]
Unconstrained == [NotCovered EXCEPT !.ok = TRUE]

mergePreds(a, b) ==
    IF ~ a.ok \/ ~ b.ok \/ (a.parent # "none" /\ b.parent # "none" /\ a.parent # b.parent)
    THEN NotCovered
    ELSE [ok     |-> TRUE,
          flag   |-> IF a.flag = NoFlag THEN b.flag
                     ELSE IF b.flag = NoFlag THEN a.flag ELSE <<"and", a.flag, b.flag>>,
          parent |-> IF a.parent # "none" THEN a.parent ELSE b.parent,
          gt     |-> Larger(a.gt, b.gt)]


\* (*spanPred).eval; NoFlag is the nil function.
eval(p) ==
    LET field == CASE p.parent = "root" -> "root" [] p.parent = "nonroot" -> "nonroot" [] OTHER -> "max"
        dur   == IF p.gt > 0 THEN <<"dur", field, p.gt>> ELSE NoFlag
    IN  IF p.flag = NoFlag THEN dur
        ELSE IF dur = NoFlag THEN p.flag ELSE <<"and", p.flag, dur>>

isHTTPErrorRegex(n) ==
    n.node = "list" /\ Len(n.items) = 1 /\ n.items[1][1] = "regex" /\ n.items[1][2] \in HTTPErrorRegexes

isBizErrorList(n) ==
    /\ n.node = "list" /\ Len(n.items) = 3
    /\ \A v \in {<<"string", "0">>, <<"string", "200">>, nilVal} : \E i \in 1..3 : n.items[i] = v

IsLit(n, v) == n.node = "lit" /\ n.v[1] = v[1] /\ n.v[2] = v[2]

compileAtomic(e) ==
    LET Fact(f) == [Unconstrained EXCEPT !.flag = <<"fact", f>>]
        On(name, op) == e.lhs.node = "ident" /\ e.lhs.name = name /\ e.op = op
    IN  CASE On("status", "EQ") /\ IsLit(e.rhs, <<"string", "error">>) -> Fact("error")
          [] On("http_status_code", "MATCH") /\ isHTTPErrorRegex(e.rhs) -> Fact("http")
          [] On("body_code", "NOT_IN") /\ isBizErrorList(e.rhs) -> Fact("biz")
          [] On("trace_keep", "EQ") /\ IsLit(e.rhs, <<"bool", TRUE>>) -> Fact("keep")
          [] On("parent_id", "EQ") /\ IsLit(e.rhs, <<"string", "0">>) ->
                 [Unconstrained EXCEPT !.parent = "root"]
          [] On("parent_id", "NEQ") /\ IsLit(e.rhs, <<"string", "0">>) ->
                 [Unconstrained EXCEPT !.parent = "nonroot"]
          [] On("duration", "GT") /\ e.rhs.node = "lit" /\ e.rhs.v[1] = "int64" /\ e.rhs.v[2] > 0 ->
                 [Unconstrained EXCEPT !.gt = e.rhs.v[2]]
          [] OTHER -> NotCovered

RECURSIVE asBinaryExpr(_)
asBinaryExpr(n) == IF n.node = "paren" THEN asBinaryExpr(n.param) ELSE n

RECURSIVE compilePred(_)
compilePred(e) ==
    IF e.node # "bin" THEN NotCovered
    ELSE IF e.op \notin {"AND", "OR"} THEN compileAtomic(e)
    ELSE LET l == compilePred(asBinaryExpr(e.lhs))
             r == compilePred(asBinaryExpr(e.rhs))
         IN  IF e.op = "AND" THEN mergePreds(l, r)
             ELSE IF l.ok /\ r.ok /\ eval(l) # NoFlag /\ eval(r) # NoFlag
             THEN [Unconstrained EXCEPT !.flag = <<"or", eval(l), eval(r)>>]
             ELSE NotCovered

\* The AND of the conditions in one pair of braces; NoFlag: not covered.
RECURSIVE Combined(_)
Combined(conds) ==
    IF conds = <<>> THEN Unconstrained
    ELSE mergePreds(Combined(SubSeq(conds, 1, Len(conds) - 1)), compilePred(conds[Len(conds)]))
compileWhereCondition(w) ==
    IF w.node = "where" /\ Combined(w.conds).ok THEN eval(Combined(w.conds)) ELSE NoFlag

isMatchAllSampling(p) == p # Nil /\ IsSampling(p) /\ p.cond = NoCond /\ p.rate > 0

\* A pipeline that can be decided from the summary.
Compilable(p) ==
    \/ isMatchAllSampling(p)
    \/ /\ p # Nil /\ p.cond # NoCond
       /\ \A i \in DOMAIN p.cond : compileWhereCondition(p.cond[i]) # NoFlag

compilePipelinesFast(ps) == \A i \in DOMAIN ps : Compilable(ps[i])

RECURSIVE Holds(_, _)
Holds(f, pred) ==
    CASE f[1] = "fact" -> pred[f[2]]
      [] f[1] = "dur"  -> pred[f[2]] > f[3]
      [] f[1] = "and"  -> Holds(f[2], pred) /\ Holds(f[3], pred)
      [] f[1] = "or"   -> Holds(f[2], pred) \/ Holds(f[3], pred)

compilePipelinePredicate(p, pred) ==
    isMatchAllSampling(p) \/ \E i \in DOMAIN p.cond : Holds(compileWhereCondition(p.cond[i]), pred)

-----------------------------------------------------------------------------
(* Decision: [match, keep] *)

pipelineMatchesPoint(kvs, p) ==
    /\ p # Nil
    /\ IF p.cond = NoCond THEN isMatchAllSampling(p) ELSE WhereConditionsEval(p.cond, kvs) >= 0
    /\ ~ (IsSampling(p) /\ p.rate <= 0)

\* pipelineMatchedPacket returns the packet.
pipelineMatchedPacket(packet, p) ==
    /\ p # Nil
    /\ CASE IsSampling(p) -> p.rate <= 0 \/ packet.group.id % sampleRange < p.rate
         [] p.type = "condition" -> p.action # "drop"
         [] OTHER -> TRUE

\* The first pipeline that matches decides.
FirstMatch(packet, ps, Match(_)) ==
    LET I == {i \in DOMAIN ps : Match(ps[i])}
    IN  IF I = {} THEN [match |-> FALSE, keep |-> FALSE]
        ELSE [match |-> TRUE,
              keep  |-> pipelineMatchedPacket(packet, ps[CHOOSE i \in I : \A j \in I : i <= j])]

NoMatch == [match |-> FALSE, keep |-> FALSE]

\* The walk: up to the first point that does not decode.
Walked(packet) ==
    {i \in DOMAIN packet.points : \A j \in 1..i : Decodable(packet.points[j])}
WalkDecision(packet, ps) ==
    IF ~ Decompresses(packet) THEN NoMatch
    ELSE FirstMatch(packet, ps, LAMBDA p :
            \E i \in Walked(packet) : pipelineMatchesPoint(KVsOf(packet.points[i]), p))

FastDecision(packet, ps) ==
    FirstMatch(packet, ps, LAMBDA p : compilePipelinePredicate(p, packet.pred))

payloadHasDecodablePoint(packet) == packet.points # <<>> /\ Decodable(packet.points[1])

evaluatePipelines(packet, ps) ==
    IF packet.points # <<>> /\ packetHasSpanPredicates(packet)
    THEN IF packet.compression = "none" /\ ~ payloadHasDecodablePoint(packet) THEN NoMatch
         ELSE IF compilePipelinesFast(ps) THEN FastDecision(packet, ps)
         ELSE WalkDecision(packet, ps)
    ELSE WalkDecision(packet, ps)

decideWithPredicates(packet, ps) ==
    IF compilePipelinesFast(ps) THEN FastDecision(packet, ps) ELSE NoMatch

=============================================================================
