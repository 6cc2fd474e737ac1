----------------------------- MODULE Aggregation ----------------------------
(***************************************************************************)
(* Aggregation rules and calculators, src/aggregate: the configuration     *)
(* (aggr_config.go), the selection and grouping of points (aggr.go,        *)
(* aggr_selector.go, point.go), the calculators made of a batch            *)
(* (calculator.go) and what each algorithm keeps and returns (algo_*.go).  *)
(*                                                                         *)
(* A point is [Name, Time, Fields], its key-values are [Key, IsTag, Val],  *)
(* values are those of FilterEval.  A float64 is an integer where points   *)
(* carry it and a fraction <<n, d>> where a calculator does; rounding is   *)
(* left out.  A hash is the sequence of what is combined into it.          *)
(***************************************************************************)
EXTENDS FilterEval, SequencesExt, FiniteSetsExt, Functions

CONSTANTS
    countDistinctExactLimit,
    countDistinctSketchBits,
    Estimate,               \* per number of zero bits: the rounded -m * log(zeroBits / m)
    HashDistinct(_),        \* hashDistinctValue
    quantileSampleLimit,
    SampleSlot(_)           \* HashCombine(Seed1, count) % count

-----------------------------------------------------------------------------
(* Fractions *)

Fraction(n, d) ==
    LET Divides(g) == d % g = 0 /\ n % g = 0
        g == CHOOSE g \in 1..d : Divides(g) /\ \A h \in g + 1..d : ~ Divides(h)
    IN  <<n \div g, d \div g>>
Plus(a, b) == Fraction(a[1] * b[2] + b[1] * a[2], a[2] * b[2])
Minus(a, b) == Fraction(a[1] * b[2] - b[1] * a[2], a[2] * b[2])
Scale(a, n, d) == Fraction(a[1] * n, a[2] * d)
TimesQ(a, b) == Fraction(a[1] * b[1], a[2] * b[2])
Below(a, b) == a[1] * b[2] < b[1] * a[2]

-----------------------------------------------------------------------------
(* Configuration *)

Categories == {"metric", "network", "keyevent", "object", "object_change", "custom_object", "logging",
               "tracing", "rum", "security", "profiling", "dialtesting", "agent_llm"}

\* Other spellings are in lower case and trimmed.
NormalizeAlgoMethod(m) ==
    CASE m = "method_unspecified" -> "" [] m = "merge_histogram" -> "histogram" [] OTHER -> m

Methods == {"sum", "avg", "count", "min", "max", "histogram", "stdev", "quantiles", "count_distinct",
            "last", "first"}

\* algo: <<>> (nil) or <<[Method, SourceField, Window, AddTags, Percentiles]>>, the
\* percentiles in hundredths, <<>> without quantile options
validateAggregationAlgo(key, algo) ==
    /\ key # "" /\ algo # <<>>
    /\ NormalizeAlgoMethod(algo[1].Method) \in Methods
    /\ NormalizeAlgoMethod(algo[1].Method) = "quantiles" =>
         algo[1].Percentiles # <<>> /\ \A i \in DOMAIN algo[1].Percentiles : algo[1].Percentiles[i] \in 0..100

RuleOK(ar) ==
    /\ ar.Selector.Category \in Categories
    /\ \A key \in DOMAIN ar.Algorithms : validateAggregationAlgo(key, ar.Algorithms[key])

SetupOK(ac) ==
    /\ ac.DefaultAction \in {"", "passthrough", "drop"}
    /\ \A i \in DOMAIN ac.AggregateRules : RuleOK(ac.AggregateRules[i])

\* Windows of at most 10 ns are the default one.
Setup(ac) ==
    [ac EXCEPT !.AggregateRules = [i \in DOMAIN @ |->
        [@[i] EXCEPT !.Algorithms = [key \in DOMAIN @ |->
                        [@[key][1] EXCEPT !.Window = IF @ = 0 THEN ac.DefaultWindow ELSE @]],
                     !.Groupby = SortSeq(@, LAMBDA a, b : StrRank(a) < StrRank(b))]]]

-----------------------------------------------------------------------------
(* Selection *)

KV(k, v, tag) == [Key |-> k, Val |-> v, IsTag |-> tag]
Where(pt, k) == {i \in DOMAIN pt.Fields : pt.Fields[i].Key = k}
Value(pt, k) == IF Where(pt, k) = {} THEN nilVal ELSE pt.Fields[Min(Where(pt, k))].Val

SetTag(pt, k, v) ==
    IF Where(pt, k) = {} THEN [pt EXCEPT !.Fields = Append(@, KV(k, v, TRUE))]
    ELSE [pt EXCEPT !.Fields[Min(Where(pt, k))] = KV(k, v, TRUE)]
Add(pt, k, v) ==
    IF Where(pt, k) # {} THEN pt ELSE [pt EXCEPT !.Fields = Append(@, KV(k, v, FALSE))]

\* What ptWrap gives to the conditions.
ptWrapGet(pt) == [k \in {pt.Fields[i].Key : i \in DOMAIN pt.Fields} |-> Value(pt, k)]

\* Every selected field becomes a point of its own, its integers as floats.
selectKVS(rs, pt) ==
    LET chosen == SelectSeq(pt.Fields, LAMBDA kv : kv.Key \in rs.MetricName /\ ~ kv.IsTag /\ kv.Val # nilVal)
        Forked(kv) == IF kv.Val[1] \in {"int64", "uint64"} THEN <<"float64", kv.Val[2]>> ELSE kv.Val
    IN  [i \in DOMAIN chosen |-> [Name |-> pt.Name, Time |-> pt.Time,
                                  Fields |-> <<KV(chosen[i].Key, Forked(chosen[i]), FALSE)>>]]

\* The group of the origin, as tags, or as fields where it has fields.
Grouped(groupby, pt, forked) ==
    FoldLeft(LAMBDA x, k :
               LET v    == Value(pt, k)
                   tag  == Where(pt, k) # {} /\ pt.Fields[Min(Where(pt, k))].IsTag /\ v # <<"string", "">>
                   tagged == IF tag THEN SetTag(x, k, v) ELSE x
               IN  IF v # nilVal THEN Add(tagged, k, v) ELSE tagged,
             forked, groupby)

\* An empty whitelist of measurements, or no condition, admits all.
Selected(rs, pt) ==
    /\ rs.Measurements # {} => pt.Name \in rs.Measurements
    /\ rs.conds # <<>> => WhereConditionsEval(rs.conds, ptWrapGet(pt)) >= 0

doSelect(rs, groupby, pts) ==
    FlattenSeq([i \in DOMAIN pts |->
        IF ~ Selected(rs, pts[i]) THEN <<>>
        ELSE LET forked == selectKVS(rs, pts[i])
             IN  [j \in DOMAIN forked |-> Grouped(groupby, pts[i], forked[j])]])

\* The name, the strings of the group, and the first field.
hash(pt, groupby) ==
    LET strings == SelectSeq(groupby, LAMBDA k : Value(pt, k)[1] = "string")
        fields  == SelectSeq(pt.Fields, LAMBDA kv : ~ kv.IsTag)
    IN  <<pt.Name>> \o [i \in DOMAIN strings |-> <<strings[i], Value(pt, strings[i])[2]>>]
        \o (IF fields = <<>> THEN <<>> ELSE <<fields[1].Key>>)
pickHash(pt, groupby) == <<pt.Name>> \o groupby

GroupbyBatch(ar, pts) ==
    [i \in DOMAIN pts |-> [RoutingKey |-> hash(pts[i], ar.Groupby), PickKey |-> pickHash(pts[i], ar.Groupby),
                           AggregationOpts |-> ar.Algorithms, Points |-> <<pts[i]>>]]

\* Batches by their pick key.
PickPoints(ac, category, pts) ==
    LET rules == SelectSeq(ac.AggregateRules, LAMBDA ar : ar.Selector.Category = category)
        abs   == FlattenSeq([i \in DOMAIN rules |->
                     GroupbyBatch(rules[i], doSelect(rules[i].Selector, rules[i].Groupby, pts))])
    IN  [key \in {abs[i].PickKey : i \in DOMAIN abs} |-> SelectSeq(abs, LAMBDA ab : ab.PickKey = key)]

-----------------------------------------------------------------------------
(* Calculators *)

AlignNextWallTime(t, align) == IF t % align = 0 THEN t ELSE (t \div align) * align + align

\* The number of a value, 0 for what need not be one.
f64(v) == IF v[1] \in {"float64", "int64"} THEN v[2] ELSE 0

addSketch(c, h) == [c EXCEPT !.sketch = @ \cup {h % countDistinctSketchBits}]
ensureSketch(c) ==
    IF c.exact THEN [c EXCEPT !.exact = FALSE, !.distinct = {},
                              !.sketch = {h % countDistinctSketchBits : h \in c.distinct}] ELSE c
addHash(c, h) ==
    IF ~ c.exact THEN addSketch(c, h)
    ELSE IF h \in c.distinct \/ Cardinality(c.distinct) < countDistinctExactLimit
    THEN [c EXCEPT !.distinct = @ \cup {h}]
    ELSE addSketch(ensureSketch(c), h)
DistinctCount(c) ==
    IF c.exact THEN Cardinality(c.distinct)
    ELSE LET zeroBits == countDistinctSketchBits - Cardinality(c.sketch)
         IN  IF zeroBits = 0 THEN countDistinctSketchBits ELSE Estimate[zeroBits]

addQuantile(c, v) ==
    LET n == c.count + 1
    IN  IF Len(c.all) < quantileSampleLimit THEN [c EXCEPT !.count = n, !.all = Append(@, v)]
        ELSE [c EXCEPT !.count = n, !.all = IF SampleSlot(n) < quantileSampleLimit
                                            THEN [@ EXCEPT ![SampleSlot(n) + 1] = v] ELSE @]

\* What an algorithm keeps of its first point.
State(method, pt, val, algo) ==
    LET v == f64(val)
    IN  CASE method \in {"max", "min", "last", "first"} -> [count |-> 1, val |-> v, time |-> pt.Time]
          [] method \in {"sum", "avg"} -> [count |-> 1, delta |-> v, time |-> pt.Time]
          [] method = "count" -> [count |-> 1, time |-> pt.Time]
          [] method = "histogram" ->
                 LET le == IF Value(pt, "le")[1] = "string" THEN Value(pt, "le")[2] ELSE ""
                 IN  [count |-> 1, val |-> v, leBucket |-> le :> v, time |-> pt.Time]
          [] method = "quantiles" -> addQuantile([count |-> 0, all |-> <<>>, quantiles |-> algo.Percentiles,
                                                  time |-> pt.Time], v)
          [] method = "stdev" -> [count |-> 1, mean |-> <<v, 1>>, m2 |-> <<0, 1>>, time |-> pt.Time]
          [] method = "count_distinct" -> addHash([exact |-> TRUE, distinct |-> {}, sketch |-> {},
                                                   time |-> pt.Time], HashDistinct(val))

TagPairs(pt) ==
    LET tags == SelectSeq(pt.Fields, LAMBDA kv : kv.IsTag)
    IN  [i \in DOMAIN tags |-> <<tags[i].Key, tags[i].Val>>]

\* The calculators of a batch; their tags are those of the configuration, and
\* build adds the tags of the point.
Numeric(method, v) == v[1] \in {"float64", "int64"} \/ method \in {"count", "count_distinct"}
NewCalculator(batch, algo, method, key, source, pt) ==
    [method |-> method, key |-> key, name |-> pt.Name, pt |-> pt, aggrTags |-> algo.AddTags,
     hash |-> <<batch.RoutingKey, method, key, pt.Name>>,
     nextWallTime |-> AlignNextWallTime(pt.Time, algo.Window),
     state |-> State(method, pt, Value(pt, source), algo)]
CalculatorsOf(batch, algo, method, key, source) ==
    {NewCalculator(batch, algo, method, key, source, pt) :
        pt \in {x \in Range(batch.Points) : Value(x, source) # nilVal /\ Numeric(method, Value(x, source))}}
newCalculators(batch) ==
    UNION {LET algo == batch.AggregationOpts[key]
           IN  CalculatorsOf(batch, algo, NormalizeAlgoMethod(algo.Method), key,
                             IF algo.SourceField # "" THEN algo.SourceField ELSE key)
           : key \in DOMAIN batch.AggregationOpts \ {""}}

BuildTags(c) == c.aggrTags \o TagPairs(c.pt)

Later(a, b) == IF b.time > a.time THEN b.time ELSE a.time

AddMax(a, b) ==
    [count |-> a.count + 1, val |-> IF a.val < b.val THEN b.val ELSE a.val, time |-> Later(a, b)]
AddMin(a, b) ==
    [count |-> a.count + 1, val |-> IF b.val < a.val THEN b.val ELSE a.val, time |-> Later(a, b)]
AddLast(a, b) ==
    IF b.time > a.time THEN [b EXCEPT !.count = a.count + 1] ELSE [a EXCEPT !.count = @ + 1]
\* Mutant: the time of the first point stays.
AddFirstKeepingTime(a, b) ==
    IF a.time = 0 \/ b.time < a.time THEN [a EXCEPT !.count = @ + 1, !.val = b.val] ELSE [a EXCEPT !.count = @ + 1]

AddFirst(a, b) ==
    IF a.time = 0 \/ b.time < a.time THEN [b EXCEPT !.count = a.count + 1] ELSE [a EXCEPT !.count = @ + 1]
AddSum(a, b) == [count |-> a.count + 1, delta |-> a.delta + b.delta, time |-> Later(a, b)]
AddAvg(a, b) == [count |-> a.count + 1, delta |-> a.delta + b.delta, time |-> Later(a, b)]
AddCount(a, b) == [count |-> a.count + 1, time |-> Later(a, b)]

\* A bucket only gets what has its le as a tag.
AddHistogram(a, b, pt) ==
    LET tagged == {i \in Where(pt, "le") : pt.Fields[i].IsTag /\ pt.Fields[i].Val # <<"string", "">>}
        le     == pt.Fields[Min(tagged)].Val[2]
        old    == IF le \in DOMAIN a.leBucket THEN a.leBucket[le] ELSE 0
    IN  [a EXCEPT !.count = @ + 1, !.time = Later(a, b),
                  !.leBucket = IF tagged = {} THEN @ ELSE (le :> old + b.val) @@ @]

AddQuantiles(a, b) ==
    LET all     == FoldLeft(addQuantile, a, b.all)
        missing == b.count - (all.count - a.count)
    IN  [all EXCEPT !.count = IF missing > 0 THEN @ + missing ELSE @, !.time = Later(a, b)]

AddStdev(a, b) ==
    LET total == a.count + b.count
        delta == Minus(b.mean, a.mean)
    IN  [count |-> total, time |-> Later(a, b),
         mean |-> Plus(a.mean, Scale(delta, b.count, total)),
         m2 |-> Plus(a.m2, Plus(b.m2, Scale(TimesQ(delta, delta), a.count * b.count, total)))]

AddDistinct(a, b) ==
    LET merged == IF b.exact THEN FoldSet(LAMBDA h, c : addHash(c, h), a, b.distinct)
                  ELSE [ensureSketch(a) EXCEPT !.sketch = @ \cup b.sketch]
    IN  [merged EXCEPT !.time = Later(a, b)]

\* c.state after c.Add(inst).
AddState(c, inst) ==
    LET a == c.state
        b == inst.state
    IN  CASE c.method = "max" -> AddMax(a, b)
          [] c.method = "min" -> AddMin(a, b)
          [] c.method = "last" -> AddLast(a, b)
          [] c.method = "first" -> AddFirst(a, b)
          [] c.method = "sum" -> AddSum(a, b)
          [] c.method = "avg" -> AddAvg(a, b)
          [] c.method = "count" -> AddCount(a, b)
          [] c.method = "histogram" -> AddHistogram(a, b, inst.pt)
          [] c.method = "quantiles" -> AddQuantiles(a, b)
          [] c.method = "stdev" -> AddStdev(a, b)
          [] c.method = "count_distinct" -> AddDistinct(a, b)

percentileFromSorted(sorted, p) ==
    LET n     == Len(sorted)
        pos   == p * (n - 1)
        index == pos \div 100
    IN  IF n = 0 THEN <<0, 1>>
        ELSE IF index >= n - 1 THEN <<sorted[n], 1>>
        ELSE Plus(<<sorted[index + 1], 1>>,
                  Fraction((pos % 100) * (sorted[index + 2] - sorted[index + 1]), 100))

\* Keys with their suffix, and the key-values that an algorithm returns.
Plain == -1
CountSuffix == -2
Count(c) == <<c.key, CountSuffix>> :> <<c.state.count, 1>>
Only(c, v) == (<<c.key, Plain>> :> v) @@ Count(c)

\* The points that an Aggr makes, as <<tags, fields>>; none for an error.  A
\* standard deviation is given by its square.
AggrMax(c) == {<<<<>>, Only(c, <<c.state.val, 1>>)>>}
AggrMin(c) == {<<<<>>, Only(c, <<c.state.val, 1>>)>>}
AggrLast(c) == {<<<<>>, Only(c, <<c.state.val, 1>>)>>}
AggrFirst(c) == {<<<<>>, Only(c, <<c.state.val, 1>>)>>}
AggrSum(c) == {<<<<>>, Only(c, <<c.state.delta, 1>>)>>}
AggrAvg(c) == {<<<<>>, Only(c, Fraction(c.state.delta, c.state.count))>>}
AggrCount(c) == {<<<<>>, Only(c, <<c.state.count, 1>>)>>}
AggrHistogram(c) ==
    {<<<<<<"le", <<"string", le>>>>>>, <<c.key, Plain>> :> <<c.state.leBucket[le], 1>>>>
     : le \in DOMAIN c.state.leBucket} \cup {<<<<>>, Count(c)>>}
AggrQuantiles(c) ==
    LET At(sorted) == [k \in {<<c.key, q>> : q \in Range(c.state.quantiles)} |->
                          percentileFromSorted(sorted, k[2])]
    IN  {<<<<>>, Count(c) @@ At(SortSeq(c.state.all, <))>>}
AggrStdev(c) ==
    IF c.state.count < 2 THEN {} ELSE {<<<<>>, Only(c, Scale(c.state.m2, 1, c.state.count - 1))>>}
AggrDistinct(c) ==
    {<<<<>>, [k \in {<<c.key, Plain>>, <<c.key, CountSuffix>>} |-> <<DistinctCount(c.state), 1>>]>>}

Results(c) ==
    CASE c.method = "max" -> AggrMax(c)
      [] c.method = "min" -> AggrMin(c)
      [] c.method = "last" -> AggrLast(c)
      [] c.method = "first" -> AggrFirst(c)
      [] c.method = "sum" -> AggrSum(c)
      [] c.method = "avg" -> AggrAvg(c)
      [] c.method = "count" -> AggrCount(c)
      [] c.method = "histogram" -> AggrHistogram(c)
      [] c.method = "quantiles" -> AggrQuantiles(c)
      [] c.method = "stdev" -> AggrStdev(c)
      [] c.method = "count_distinct" -> AggrDistinct(c)

\* A tag overrides a field of its name and the earlier tags.
Aggr(c) ==
    {LET tags == FoldLeft(LAMBDA x, t : (t[1] :> t[2]) @@ x, <<>>, r[1] \o c.aggrTags)
     IN  [Name |-> c.name, Time |-> c.state.time, tags |-> tags,
          fields |-> Restrict(r[2], {k \in DOMAIN r[2] : k[2] = Plain => k[1] \notin DOMAIN tags})]
     : r \in Results(c)}

=============================================================================
