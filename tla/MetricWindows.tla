---------------------------- MODULE MetricWindows ---------------------------
(***************************************************************************)
(* The window cache with the calculators of Aggregation, and what the      *)
(* results of the two together should be.                                  *)
(***************************************************************************)
EXTENDS WindowCache, Aggregation

CONSTANT Origins        \* the points: id -> point

\* The batches that PickPoints makes of a point: it is alone in each, so that
\* one gives at most one calculator for a key.
Picked(conf, id) == PickPoints(conf, "metric", <<Origins[id]>>)
BatchesOf(conf, id) ==
    LET picked == Picked(conf, id)
    IN  UNION {{<<id, k, i>> : i \in DOMAIN picked[k]} : k \in DOMAIN picked}
CalsOf(conf, b) ==
    IF b \notin BatchesOf(conf, b[1]) THEN {}
    ELSE {c @@ [src |-> {<<b, c.key>>}] : c \in newCalculators(Picked(conf, b[1])[b[2]][b[3]])}

\* Configurations as they are written, after their Setup, and the batches of
\* the points that are sent under them.
Ready(cases) ==
    {[ac  |-> Setup(c.ac),
      ids |-> UNION {BatchesOf(Setup(c.ac), id) : id \in c.ids}] : c \in {x \in cases : SetupOK(x.ac)}}

-----------------------------------------------------------------------------
(* Properties *)

\* The point of a label.
Origin(id) == Origins[id[1][1]]

\* What a set of points should give: the definition of each method.
Numbers(c) == [id \in c.src |-> Origin(id).Fields[1].Val[2]]
SumOf(c) == FoldSet(LAMBDA id, s : s + Numbers(c)[id], 0, c.src)
Times(c) == {Origin(id).Time : id \in c.src}
SquaresOf(c) == LET mean == Fraction(SumOf(c), Cardinality(c.src))
                    Square(id) == LET d == Minus(<<Numbers(c)[id], 1>>, mean) IN TimesQ(d, d)
                IN  FoldSet(LAMBDA id, s : Plus(s, Square(id)), <<0, 1>>, c.src)
Expected(c, v) ==
    LET x     == Numbers(c)
        size  == Cardinality(c.src)
        At(t) == {<<x[id], 1>> : id \in {i \in c.src : Origin(i).Time = t}}
    IN  CASE c.method = "sum" -> v = <<SumOf(c), 1>>
          [] c.method = "avg" -> v = Fraction(SumOf(c), size)
          [] c.method = "count" -> v = <<size, 1>>
          [] c.method = "max" -> v = <<Max(Range(x)), 1>>
          [] c.method = "min" -> v = <<Min(Range(x)), 1>>
          [] c.method = "last" -> v \in At(Max(Times(c)))
          [] c.method = "first" -> v \in At(Min(Times(c)))
          [] c.method = "stdev" -> v = Scale(SquaresOf(c), 1, size - 1)
          [] c.method = "histogram" -> v = <<SumOf(c), 1>>
          [] c.method = "count_distinct" ->
                 LET hashes == {HashDistinct(<<"float64", x[id]>>) : id \in c.src}
                 IN  IF Cardinality(hashes) <= countDistinctExactLimit THEN v = <<Cardinality(hashes), 1>>
                     ELSE \E zero \in DOMAIN Estimate :
                            /\ v = <<Estimate[zero], 1>>
                            /\ zero = countDistinctSketchBits
                                      - Cardinality({h % countDistinctSketchBits : h \in hashes})

\* Between the smallest and the largest number, and exact for at most as many
\* as the limit: the p-th percentile has p % of the others below it.
Percentile(c, p, v) ==
    LET x == Numbers(c)
    IN  /\ ~ Below(v, <<Min(Range(x)), 1>>) /\ ~ Below(<<Max(Range(x)), 1>>, v)
        /\ Cardinality(c.src) <= quantileSampleLimit =>
             /\ 100 * Cardinality({id \in c.src : Below(<<x[id], 1>>, v)}) <= p * (Cardinality(c.src) - 1) + 100
             /\ 100 * Cardinality({id \in c.src : Below(v, <<x[id], 1>>)}) <= (100 - p) * (Cardinality(c.src) - 1) + 100

\* Every result is the one that the definition of its method gives for the
\* points it stands for, in whatever order they came, and carries their time
\* and their group.
AggrExact ==
    \A o \in out :
        LET c == o.cal IN
        /\ o.pts = {} => c.method = "stdev" /\ Cardinality(c.src) = 1
        /\ \A pt \in o.pts :
             /\ \A k \in DOMAIN pt.fields :
                  /\ k[2] = Plain => Expected(c, pt.fields[k])
                  /\ k[2] = CountSuffix /\ c.method # "count_distinct" => pt.fields[k] = <<Cardinality(c.src), 1>>
                  /\ k[2] \in 0..100 => Percentile(c, k[2], pt.fields[k])
             /\ pt.Time = IF c.method = "first" THEN Min(Times(c)) ELSE Max(Times(c))
             /\ \A id \in c.src, t \in DOMAIN pt.tags : Value(Origin(id), t) \in {nilVal, pt.tags[t]}

=============================================================================
