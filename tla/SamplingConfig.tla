--------------------------- MODULE SamplingConfig ---------------------------
(***************************************************************************)
(* The tail-sampling configuration of one token, src/aggregate/            *)
(* tail-sampling.go: its sections (trace, logging, RUM), how Init          *)
(* completes and validates them, and which pipelines decide a group.       *)
(*                                                                         *)
(* A configuration is [version, tracing, logging, rum].  A section is Nil  *)
(* or [ttl, groups, derived, builtin], where groups is a sequence of       *)
(* [key, pipelines]; the trace section has exactly one.  A pipeline is     *)
(* [type, cond, action, rate]: cond is NoCond (the empty string),          *)
(* BadCond (a condition that does not parse) or the parsed WhereConditions *)
(* that module SpanPredicates evaluates; rate counts sampleRange parts.    *)
(* builtin is the sequence of configured builtin metrics.                  *)
(***************************************************************************)
EXTENDS Integers, Sequences

CONSTANTS Nil, NoCond, BadCond

sampleRange == 10000

\* Durations count tenths of a second.
Second == 10

\* Default times to live of Init.
TracingTTL == 300 * Second
GroupTTL == 60 * Second

\* DecompressPointsPayload returns no error: a compressed payload that is not
\* empty may be damaged.
Decompresses(packet) == packet.points = <<>> \/ packet.compression # "damaged"

IsSampling(p) == p.type = "probabilistic"

normalizeSamplingPipelines(ps) ==
    SelectSeq(ps, LAMBDA p : ~ (p # Nil /\ IsSampling(p) /\ p.rate <= 0))

\* validateSamplingPipeline returns no error.
validateSamplingPipeline(p) ==
    /\ p # Nil
    /\ \/ p.type = "condition" /\ p.action \in {"keep", "drop"}
       \/ IsSampling(p) /\ p.rate \in 0..sampleRange
    /\ p.cond # BadCond

\* initBuiltinMetricCfgs: default metrics that are not configured are enabled.
initBuiltinMetricCfgs(cfgs, defaults) ==
    LET Named(n) == \E i \in DOMAIN cfgs : cfgs[i].name = n
        Missing == SelectSeq(defaults, LAMBDA n : ~ Named(n))
    IN  cfgs \o [i \in DOMAIN Missing |-> [name |-> Missing[i], enabled |-> TRUE]]

NormalizedGroups(groups) ==
    [i \in DOMAIN groups |->
        IF groups[i] = Nil THEN Nil
        ELSE [groups[i] EXCEPT !.pipelines = normalizeSamplingPipelines(@)]]

InitSection(sec, defaultTTL, defaultKey, builtins) ==
    IF sec = Nil THEN Nil
    ELSE [ttl     |-> IF sec.ttl = 0 THEN defaultTTL ELSE sec.ttl,
          groups  |-> NormalizedGroups(
                        [i \in DOMAIN sec.groups |->
                            IF sec.groups[i] # Nil /\ sec.groups[i].key = ""
                            THEN [sec.groups[i] EXCEPT !.key = defaultKey]
                            ELSE sec.groups[i]]),
          derived |-> sec.derived,
          builtin |-> initBuiltinMetricCfgs(sec.builtin, builtins)]

\* No error is collected for a section that InitSection has completed.
ValidSection(sec, Key(_)) ==
    sec # Nil =>
        /\ ~ sec.derived
        /\ \A i \in DOMAIN sec.groups :
            LET g == sec.groups[i] IN
            /\ g # Nil
            /\ Key(g.key)
            /\ \A j \in DOMAIN g.pipelines : validateSamplingPipeline(g.pipelines[j])

traceBuiltinMetricNames ==
    <<"trace_total_count", "trace_kept_count", "trace_dropped_count",
      "trace_error_count", "span_total_count", "trace_duration">>
loggingBuiltinMetricNames ==
    <<"logging_total_count", "logging_error_count",
      "logging_kept_count", "logging_dropped_count">>
rumBuiltinMetricNames ==
    <<"rum_total_count", "rum_kept_count", "rum_dropped_count">>

\* What (*TailSamplingConfigs).Init leaves in the configuration, and whether
\* it returns no error.  The sections are completed even when it fails.
Completed(ts) ==
    [version |-> ts.version,
     tracing |-> InitSection(ts.tracing, TracingTTL, "trace_id", traceBuiltinMetricNames),
     logging |-> InitSection(ts.logging, GroupTTL, "", loggingBuiltinMetricNames),
     rum     |-> InitSection(ts.rum, GroupTTL, "", rumBuiltinMetricNames)]

InitOK(ts) ==
    /\ ValidSection(ts.tracing, LAMBDA k : k = "trace_id")
    /\ ValidSection(ts.logging, LAMBDA k : k # "")
    /\ ValidSection(ts.rum, LAMBDA k : k # "")

\* The section of a data type: GetTraceConfig, GetLoggingConfig, GetRUMConfig.
Section(ts, dataType) ==
    IF ts = Nil THEN Nil
    ELSE CASE dataType = "tracing" -> ts.tracing
           [] dataType = "logging" -> ts.logging
           [] dataType = "rum"     -> ts.rum
           [] OTHER                -> Nil

\* pipelinesFor: Nil when no section, or no group dimension, is configured.
pipelinesFor(ts, dataType, groupKey) ==
    LET sec == Section(ts, dataType)
        I   == IF sec = Nil THEN {}
               ELSE {i \in DOMAIN sec.groups :
                        /\ sec.groups[i] # Nil
                        /\ dataType = "tracing" \/ sec.groups[i].key = groupKey}
    IN  IF I = {} THEN Nil
        ELSE sec.groups[CHOOSE i \in I : \A j \in I : i <= j].pipelines

=============================================================================
