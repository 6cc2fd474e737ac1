---------------------------- MODULE MCWindowCache ---------------------------
(***************************************************************************)
(* Points and rules for TLC: two windows, two groups, every method, two     *)
(* rules that give the same calculator.                                    *)
(***************************************************************************)
EXTENDS MetricWindows

Symmetry == Permutations(Goroutines)

MCMatches(re, s) == FALSE
MCStrRank(s) == CASE s = "" -> 0 [] s = "a" -> 1 [] s = "b" -> 2 [] s = "host" -> 3 [] s = "le" -> 4 [] OTHER -> 5
MCHashDistinct(v) == (v[2] * 3) % 16
MCSampleSlot(n) == (n * 7) % n
\* The rounded -4 * log(zero / 4)
MCEstimate == 1 :> 6 @@ 2 :> 3 @@ 3 :> 1 @@ 4 :> 0

Pt(t, v, host) ==
    [Name |-> "m", Time |-> t,
     Fields |-> <<KV("x", v, FALSE), KV("host", <<"string", host>>, TRUE), KV("le", <<"string", "1">>, TRUE),
                  KV("y", <<"bool", TRUE>>, FALSE)>>]
MCOrigins ==
    "p1" :> Pt(2, <<"int64", 5>>, "a") @@ "p2" :> Pt(1, <<"float64", 2>>, "a")
    @@ "p3" :> Pt(1, <<"uint64", 9>>, "b") @@ "p4" :> Pt(2, <<"int64", 4>>, "a")
Sender == "p1" :> "t" @@ "p2" :> "t" @@ "p3" :> "u" @@ "p4" :> "t"

Algo(method, source, window, tags, percentiles) ==
    <<[Method |-> method, SourceField |-> source, Window |-> window, AddTags |-> tags,
       Percentiles |-> percentiles]>>
NotB == [node |-> "where",
         conds |-> <<[node |-> "bin", op |-> "NEQ", lhs |-> [node |-> "ident", name |-> "host"],
                      rhs |-> [node |-> "lit", v |-> <<"string", "b">>]]>>]
Rule(algorithms, conds) ==
    [Selector |-> [Category |-> "metric", Measurements |-> {"m"}, MetricName |-> {"x", "host"}, conds |-> conds],
     Groupby |-> <<"le", "host">>, Algorithms |-> algorithms]
Config(rules) == [DefaultAction |-> "", DefaultWindow |-> 2, AggregateRules |-> rules]

Added == <<<<"host", <<"string", "c">>>>, <<"team", <<"string", "t">>>>>>
Case(algorithms, conds, ids) == [ac |-> Config(<<Rule(algorithms, conds)>>), ids |-> ids]
Sum == Rule("x" :> Algo("sum", "", 2, <<>>, <<>>), <<>>)
MCCases == Ready(
    {Case("x" :> Algo(m, "", 0, Added, <<>>), <<>>, {"p1", "p2", "p4"}) : m \in {"last", "first", "stdev", "count_distinct"}}
    \cup {Case("x" :> Algo("sum", "", 2, <<>>, <<>>), <<>>, {"p1", "p2", "p3"}),
          Case("x" :> Algo("quantiles", "", 2, <<>>, <<50, 100>>), <<>>, {"p1", "p2", "p4"}),
          Case("x" :> Algo("merge_histogram", "", 2, <<>>, <<>>), <<>>, {"p1", "p2"}),
          Case("x" :> Algo("max", "", 2, <<>>, <<>>) @@ "lo" :> Algo("min", "x", 3, <<>>, <<>>), <<NotB>>, {"p1", "p2", "p3"}),
          Case("x" :> Algo("avg", "", 2, <<>>, <<>>) @@ "host" :> Algo("count", "x", 2, <<>>, <<>>), <<>>, {"p2", "p4"}),
          [ac |-> Config(<<Sum, Sum>>), ids |-> {"p1", "p2"}],
          Case("x" :> Algo("expo_histogram", "", 2, <<>>, <<>>), <<>>, {})})

MCBatches == UNION {c.ids : c \in Cases}
MCToken == [b \in MCBatches |-> Sender[b[1]]]

=============================================================================
