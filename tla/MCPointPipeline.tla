--------------------------- MODULE MCPointPipeline --------------------------
(***************************************************************************)
(* Points for TLC: every kind of value, and every rule of the check.       *)
(***************************************************************************)
EXTENDS PointPipeline

a == <<97>>
b == <<98>>
dotted == <<97, 46, 97>>
escaped == <<98, 10, 92, 92>>
wide == <<97, 98, 97, 98, 97>>

In(name, kvs, opts) == [name |-> name, kvs |-> kvs, opts |-> opts, old |-> FALSE]
Old(in) == [in EXCEPT !.old = TRUE]
Time(t) == [timestamp |-> t]
F(k, t, v) == <<k, <<t, v>>, FALSE>>
T(k, v) == <<k, <<"string", v>>, TRUE>>
Dict == MarshalAny(DictFieldType, Map_Marshal(NewMap(<<<<a, <<"int", 3>>>>>>)[1]))
ExtraTag == [NewKV(<<121>>, <<"S", a>>) EXCEPT !.IsTag = TRUE]

MCInputs ==
    {In(a, <<F(a, "int8", 65535), T(b, a), F(dotted, "uint", 300)>>, Time(41)),
     In(b, <<F(a, "float32", 15360), F(b, "bool", TRUE), F(dotted, "[]byte", <<1, 2>>)>>, <<>>),
     In(<<>>, <<T(escaped, escaped), F(wide, "string", wide), F(a, "[]int8", <<1, 65535>>)>>, <<>>),
     In(wide, <<F(a, "int", 1), T(a, b), F(b, "[]any", <<<<"int", 1>>, <<"string", a>>>>)>>, Time(100)),
     Old(In(a, <<F(dotted, "uint64", 65535), T(b, a), F(a, "[]any", <<<<"bool", TRUE>>>>), F(<<>>, "nil", <<>>)>>,
            [enableDotInKey |-> FALSE, disabledKeys |-> {b}, keySorted |-> TRUE])),
     In(b, <<F(a, "string", b), F(b, "[]string", <<>>), F(<<99>>, "int", 5), T(<<100>>, a), T(<<101>>, a)>>,
        [requiredKeys |-> <<<<<<120>>, <<"I", 1>>>>>>, extraTags |-> <<ExtraTag>>]),
     In(b, <<F(a, "*types.Any", <<Dict>>)>>, Time(400)),
     Old(In(a, <<>>, Time(9))), In(a, <<T(b, a)>>, Time(41))}

MCDecodeOptions == {<<>>, [precision |-> "dyn"], [precision |-> "s"], [precision |-> "ms"],
                    [callback |-> <<{a}, {b}>>], [callback |-> <<{b}, {}>>]}

Opt(enc, approx, ignore, n, iterate, recycled) ==
    [enc |-> enc, approxsize |-> approx, ignoreLargePoint |-> ignore, size |-> n,
     iterate |-> iterate, recycled |-> recycled]

MCEncoders ==
    {Opt("pb", FALSE, FALSE, 0, FALSE, FALSE), Opt("pb", TRUE, FALSE, 2, FALSE, TRUE),
     Opt("lp", FALSE, FALSE, 1, FALSE, FALSE),
     Opt("pb", TRUE, TRUE, 30, TRUE, TRUE), Opt("pb", FALSE, FALSE, 60, TRUE, FALSE),
     Opt("lp", FALSE, FALSE, 9, TRUE, FALSE)}

MCLimits == [maxTags |-> 3, maxFields |-> 3, maxTagKeyLen |-> 3, maxFieldKeyLen |-> 4, maxTagValLen |-> 3,
             maxFieldValLen |-> 3, maxMeasurementLen |-> 3]
MCUnits == [us |-> 2, ms |-> 4, s |-> 8, m |-> 16, h |-> 32, base |-> 80]

=============================================================================
