---------------------------- MODULE TailSampling ----------------------------
(***************************************************************************)
(* TailSamplingProcessor (src/aggregate/tail_sampling_processor.go): the   *)
(* sampler of TimeWheel together with the builtin metrics                  *)
(* (tail_sampling_builtin_metrics.go) and the collector that sums them per *)
(* window (derived_metric_collector.go).                                   *)
(*                                                                         *)
(* Each call of collector.Add is a step of its own: the collector has its  *)
(* own lock, so a flush or a new configuration may come between the        *)
(* records of a packet and its ingestion.  The groups of one call of       *)
(* TailSamplingOutcomes are taken one by one.                              *)
(***************************************************************************)
EXTENDS TimeWheel, FiniteSetsExt, Functions

CONSTANTS
    Window,       \* window of the collector
    MaxNow,       \* bound: the clock stops here
    DurationBuckets   \* defaultTraceDurationBucketsMS, sorted

VARIABLES
    now,
    counted,      \* packets whose ingest records are in the collector
    observed,     \* pending entries whose pre-decision records are
    recorded,     \* outcomes whose decision records are
    sums, hist,   \* the buckets: functions of <<exp, token, name, stage, decision, tags>>
    flushedSums,  \* what Flush returned, added up by key
    flushedHist   \* the histograms Flush returned: key -> sequence

collectorVars == <<sums, hist>>
flushVars == <<flushedSums, flushedHist>>
procVars == <<now, counted, observed, recorded, collectorVars, flushVars>>
tsVars == <<vars, procVars>>

Empty == [k \in {} |-> 0]

TSInit ==
    /\ Init
    /\ now = 0
    /\ counted = {} /\ observed = {} /\ recorded = {}
    /\ sums = Empty /\ hist = Empty
    /\ flushedSums = Empty /\ flushedHist = Empty

-----------------------------------------------------------------------------
(* Builtin metrics *)

\* Metric names by data type.
NameOf ==
    [tracing |-> [total |-> "trace_total_count", error |-> "trace_error_count",
                  kept |-> "trace_kept_count", dropped |-> "trace_dropped_count"],
     logging |-> [total |-> "logging_total_count", error |-> "logging_error_count",
                  kept |-> "logging_kept_count", dropped |-> "logging_dropped_count"],
     rum     |-> [total |-> "rum_total_count", error |-> "",
                  kept |-> "rum_kept_count", dropped |-> "rum_dropped_count"]]

packetTime(p) == IF p.maxTime > 0 THEN p.maxTime ELSE IF p.end > 0 THEN p.end ELSE now

\* newDerivedMetricRecord and newHistogramDerivedMetricRecord.
Record(p, name, kind, stage, decision, value) ==
    [token |-> p.group.token, name |-> name, kind |-> kind, stage |-> stage,
     decision |-> decision, value |-> value, time |-> packetTime(p),
     tags |-> <<p.group.type, p.group.key>>]

OnIngest(p) ==
    LET Count(name, value) == <<Record(p, name, "sum", "ingest", "", value)>>
        names == NameOf[p.group.type]
    IN  Count(names.total, 1)
        \o (IF p.hasError /\ names.error # "" THEN Count(names.error, 1) ELSE <<>>)
        \o (IF p.group.type = "tracing" /\ p.pointCount > 0
            THEN Count("span_total_count", p.pointCount) ELSE <<>>)

OnPreDecision(p) ==
    IF p.group.type = "tracing" /\ p.end > p.start
    THEN <<Record(p, "trace_duration", "histogram", "pre_decision", "", p.end - p.start)>>
    ELSE <<>>

OnDecision(p, decision) ==
    <<Record(p, NameOf[p.group.type][decision], "sum", "decision", decision, 1)>>

isBuiltinMetricEnabled(group, name) ==
    LET sec == Section(configMap[group.token], group.type)
        I   == IF sec = Nil THEN {} ELSE {i \in DOMAIN sec.builtin : sec.builtin[i].name = name}
    IN  I = {} \/ sec.builtin[CHOOSE i \in I : \A j \in I : i <= j].enabled

filterBuiltinRecords(p, records) ==
    SelectSeq(records, LAMBDA r : isBuiltinMetricEnabled(p.group, r.name))

-----------------------------------------------------------------------------
(* DerivedMetricCollector *)

AlignNextWallTime(t, align) == IF t % align = 0 THEN t ELSE (t \div align) * align + align

newDerivedMetricKey(r) ==
    <<AlignNextWallTime(r.time, Window), r.token, r.name, r.stage, r.decision, r.tags>>

\* f with k mapped to v.
With(f, k, v) == [x \in DOMAIN f \cup {k} |-> IF x = k THEN v ELSE f[x]]

Get(f, k, default) == IF k \in DOMAIN f THEN f[k] ELSE default

NewHistogram == [counts |-> [i \in 1..Len(DurationBuckets) + 1 |-> 0], sum |-> 0, count |-> 0]

observe(h, val) ==
    LET I   == {i \in DOMAIN DurationBuckets : val <= DurationBuckets[i]}
        idx == IF I = {} THEN Len(DurationBuckets) + 1 ELSE CHOOSE i \in I : \A j \in I : i <= j
    IN  [counts |-> [h.counts EXCEPT ![idx] = @ + 1], sum |-> h.sum + val, count |-> h.count + 1]

\* Mutant: a value replaces the sum.
AddRecordReplacing(b, r) ==
    LET k == newDerivedMetricKey(r)
    IN  IF r.kind = "histogram"
        THEN [b EXCEPT !.hist = With(@, k, observe(Get(@, k, NewHistogram), r.value))]
        ELSE [b EXCEPT !.sums = With(@, k, r.value)]

\* The buckets after the first n records of Add.
AddRecord(b, r) ==
    LET k == newDerivedMetricKey(r) IN
    IF r.kind = "histogram"
    THEN [b EXCEPT !.hist = With(@, k, observe(Get(@, k, NewHistogram), r.value))]
    ELSE [b EXCEPT !.sums = With(@, k, Get(@, k, 0) + r.value)]

Add(records) ==
    LET after[n \in 0..Len(records)] ==
            IF n = 0 THEN [sums |-> sums, hist |-> hist] ELSE AddRecord(after[n - 1], records[n])
        b == after[Len(records)]
    IN  sums' = b.sums /\ hist' = b.hist

\* toPoints: the counts are cumulative.
Cumulative(h) ==
    LET upTo[i \in 0..Len(h.counts)] == IF i = 0 THEN 0 ELSE upTo[i - 1] + h.counts[i]
    IN  [h EXCEPT !.counts = [i \in DOMAIN @ |-> upTo[i]]]

\* The entries of the buckets with exp <= now.
Due(f) == {k \in DOMAIN f : k[1] <= now}
Flush ==
    /\ Due(sums) \cup Due(hist) # {}
    /\ flushedSums' = [k \in DOMAIN flushedSums \cup Due(sums) |->
            Get(flushedSums, k, 0) + (IF k \in Due(sums) THEN sums[k] ELSE 0)]
    /\ flushedHist' = [k \in DOMAIN flushedHist \cup Due(hist) |->
            Get(flushedHist, k, <<>>) \o (IF k \in Due(hist) THEN <<Cumulative(hist[k])>> ELSE <<>>)]
    /\ sums' = [k \in DOMAIN sums \ Due(sums) |-> sums[k]]
    /\ hist' = [k \in DOMAIN hist \ Due(hist) |-> hist[k]]
    /\ UNCHANGED <<vars, now, counted, observed, recorded>>

Tick ==
    /\ now < MaxNow /\ now' = now + 1
    /\ UNCHANGED <<vars, counted, observed, recorded, collectorVars, flushVars>>

-----------------------------------------------------------------------------
(* TailSamplingProcessor *)

\* IngestPacket: the records first, then the sampler.
CountPacket(p) ==
    /\ p \in unsent \ counted
    /\ Add(filterBuiltinRecords(p, OnIngest(p)))
    /\ counted' = counted \cup {p}
    /\ UNCHANGED <<vars, now, observed, recorded, flushVars>>

IngestPacket(p) == p \in counted /\ Ingest(p) /\ UNCHANGED procVars

\* TailSamplingOutcomes: pre-decision records, decision, decision records.
ObserveGroup(e) ==
    /\ e \in pending \ observed
    /\ Add(filterBuiltinRecords(e.group.packet, OnPreDecision(e.group.packet)))
    /\ observed' = observed \cup {e}
    /\ UNCHANGED <<vars, now, counted, recorded, flushVars>>

DecideGroup(e) == e \in observed /\ DecideHydrate(e) /\ UNCHANGED procVars

\* Mutant: dropped groups are not recorded.
RecordKept(o) ==
    /\ o \in outcomes \ recorded /\ o.decision = "kept"
    /\ Add(filterBuiltinRecords(o.packet, OnDecision(o.packet, o.decision)))
    /\ recorded' = recorded \cup {o}
    /\ UNCHANGED <<vars, now, counted, observed, flushVars>>

RecordDecision(o) ==
    /\ o \in outcomes \ recorded
    /\ Add(filterBuiltinRecords(o.packet, OnDecision(o.packet, o.decision)))
    /\ recorded' = recorded \cup {o}
    /\ UNCHANGED <<vars, now, counted, observed, flushVars>>

TSNext ==
    \/ \E c \in Configs : UpdateConfig(c[1], c[2]) /\ UNCHANGED procVars
    \/ \E p \in Packets : CountPacket(p) \/ IngestPacket(p)
    \/ (AdvanceStart \/ AdvanceShard) /\ UNCHANGED procVars
    \/ \E e \in pending : ObserveGroup(e) \/ DecideGroup(e)
    \/ (DecidePipelines \/ DecideFinish) /\ UNCHANGED procVars
    \/ \E o \in outcomes : RecordDecision(o)
    \/ Tick
    \/ Flush

TSSpec == TSInit /\ [][TSNext]_tsVars

-----------------------------------------------------------------------------
(* Properties *)

\* The total of one metric: what was flushed and what the buckets hold.
Total(name) ==
    LET Of(f) == {k \in DOMAIN f : k[3] = name}
    IN  MapThenSumSet(LAMBDA k : sums[k], Of(sums))
        + MapThenSumSet(LAMBDA k : flushedSums[k], Of(flushedSums))

\* No record is lost or counted twice between Add and Flush, whatever windows
\* the packets fall in and however late they are: kept and dropped count the
\* decided groups, the span count the points of the packets received.
CountsConserved ==
    /\ Total("trace_kept_count") = Cardinality({o \in recorded : o.decision = "kept"})
    /\ Total("trace_dropped_count") = Cardinality({o \in recorded : o.decision = "dropped"})
    /\ Total("span_total_count") = MapThenSumSet(LAMBDA p : p.pointCount, counted)

\* A flushed histogram is a histogram: its buckets grow and the last one holds
\* every observation; between them the buckets have one observation for every
\* group whose trace has a duration.
HistogramsComplete ==
    LET Has(e) == e.group.packet.end > e.group.packet.start
        n == Len(DurationBuckets) + 1
        Counts(k) == FoldFunction(LAMBDA h, c : h.count + c, 0, flushedHist[k])
    IN  /\ \A k \in DOMAIN flushedHist : \A i \in DOMAIN flushedHist[k] :
            LET h == flushedHist[k][i] IN
            h.counts[n] = h.count /\ \A j \in 1..n - 1 : h.counts[j] <= h.counts[j + 1]
        /\ MapThenSumSet(LAMBDA k : hist[k].count, DOMAIN hist)
           + MapThenSumSet(Counts, DOMAIN flushedHist)
           = Cardinality({e \in observed : Has(e)})

\* Between them the metrics tell what happened: the counts, and the histograms of
\* the durations.
MetricsComplete == CountsConserved /\ HistogramsComplete

-----------------------------------------------------------------------------
(* Liveness *)

\* The ticker advances the wheel, expired groups are decided and recorded, and
\* FlushDerivedMetrics is called again and again as the clock goes on.
TSFairness ==
    /\ WF_tsVars((AdvanceStart \/ AdvanceShard) /\ UNCHANGED procVars)
    /\ WF_tsVars(\E e \in pending : ObserveGroup(e) \/ DecideGroup(e))
    /\ WF_tsVars((DecidePipelines \/ DecideFinish) /\ UNCHANGED procVars)
    /\ WF_tsVars(\E o \in outcomes : RecordDecision(o))
    /\ WF_tsVars(Tick) /\ WF_tsVars(Flush)

TSLiveSpec == TSSpec /\ TSFairness

\* Nothing of a group is left in the wheel, on its way, or in a window of the
\* collector.
Settled ==
    /\ DOMAIN activeMap = {}
    /\ pending = {} /\ outcomes = recorded
    /\ DOMAIN sums = {} /\ DOMAIN hist = {}

\* Every group that collects points is decided in the end, and all that was
\* counted of it is reported: nothing stays in the wheel or in a window for
\* ever.
EventuallyReported == \A g \in Groups : (g \in DOMAIN activeMap) ~> Settled

=============================================================================
