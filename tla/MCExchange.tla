----------------------------- MODULE MCExchange -----------------------------
(***************************************************************************)
(* Messages for TLC: of every kind the empty one, one that sets every      *)
(* field, and ones with the values at the edges: an empty and a nil value, *)
(* the largest word, a negative number, a NaN, lengths of two varint bytes.*)
(***************************************************************************)
EXTENDS Exchange

a == <<97>>
b == <<98>>
Long == [i \in 1..130 |-> 97]
MaxWord == Word - 1
Nan == (Word \div 2) - 1

MCAny == [TypeUrl |-> a, Value |-> <<8, 1>>]
Kv(v) == [Key |-> a, Val |-> v, IsTag |-> FALSE, Type |-> 0, Unit |-> <<>>, Description |-> <<>>]
Full == [Key |-> a, Val |-> <<"S", b>>, IsTag |-> TRUE, Type |-> 3, Unit |-> a, Description |-> b]

Basics == {[X |-> x] : x \in {<<>>, <<"I", 0>>, <<"I", MaxWord>>, <<"U", 300>>, <<"F", 0>>,
                               <<"F", 15360>>, <<"B", TRUE>>, <<"B", FALSE>>, <<"D", <<>>>>,
                               <<"D", <<<<>>>>>>, <<"D", <<a>>>>, <<"S", <<>>>>, <<"S", a>>}}
FieldSet == {Full, [Kv(<<"I", MaxWord>>) EXCEPT !.Type = MaxWord]}
          \cup {Kv(v) : v \in {<<>>, <<"I", 1>>, <<"U", 1>>, <<"F", 15360>>, <<"B", FALSE>>,
                               <<"D", <<>>>>, <<"D", <<a>>>>, <<"S", <<>>>>, <<"A", <<>>>>,
                               <<"A", <<MCAny>>>>}}

Pt(n, fs, t) == [Name |-> n, Fields |-> fs, Time |-> t, Warns |-> <<>>, Debugs |-> <<>>]
Noted == [Pt(a, <<Full, Kv(<<"I", 1>>)>>, 5) EXCEPT
            !.Warns = <<[Type |-> a, Msg |-> b], [Type |-> b, Msg |-> <<>>]>>,
            !.Debugs = <<[Info |-> a]>>]
Points == {Pt(<<>>, <<>>, 0), Pt(a, <<Kv(<<"D", <<>>>>)>>, MaxWord), Noted}

Algo == [Method |-> a, SourceField |-> b, Window |-> 200, AddTags |-> <<<<a, b>>, <<b, <<>>>>>>,
         Options |-> <<>>]
Algos == {[Algo EXCEPT !.Options = o] :
            o \in {<<>>, <<"HistogramOpts", <<[Buckets |-> <<1, MaxWord>>]>>>>, <<"HistogramOpts", <<>>>>,
                   <<"ExpoOpts", <<[MaxScale |-> MaxWord, MaxBuckets |-> 4,
                                    RecordMinMax |-> TRUE]>>>>,
                   <<"QuantileOpts", <<[Percentiles |-> <<15360>>]>>>>}}
          \cup {[Method |-> <<>>, SourceField |-> <<>>, Window |-> 0, AddTags |-> <<>>, Options |-> <<>>],
                [Algo EXCEPT !.AddTags = <<<<a, b>>>>]}

Batch == [RoutingKey |-> MaxWord, ConfigHash |-> 1, RawConfig |-> a,
          AggregationOpts |-> <<<<a, <<Algo>>>>, <<b, <<>>>>>>, Points |-> <<[Arr |-> <<Noted>>]>>,
          PickKey |-> 128]
EmptyBatch == [RoutingKey |-> 0, ConfigHash |-> 0, RawConfig |-> <<>>, AggregationOpts |-> <<>>,
               Points |-> <<>>, PickKey |-> 0]

Packet == [DataPacket EXCEPT !.GroupIdHash = MaxWord, !.RawGroupId = a, !.Token = b, !.Source = a,
             !.DataType = b, !.ConfigVersion = 2, !.HasError = TRUE, !.GroupKey = a, !.PointCount = 2,
             !.TraceStartTimeUnixNano = 3, !.TraceEndTimeUnixNano = 4, !.PointsPayload = <<1, 2>>,
             !.MaxPointTimeUnixNano = 5, !.PayloadCompression = 1, !.PredError = TRUE,
             !.PredHttpError = TRUE, !.PredBizError = TRUE, !.PredTraceKeep = TRUE,
             !.MaxSpanDurationUs = 6, !.RootDurationUs = MaxWord, !.MaxNonrootDurationUs = 7]

MCMessages ==
    [Debug |-> {[Info |-> s] : s \in {<<>>, a, Long}},
     AnyDemo |-> {[Demo |-> s] : s \in {<<>>, b}},
     BasicTypes |-> Basics,
     Array |-> {[Arr |-> s] : s \in {<<>>, <<[X |-> <<"I", 1>>], [X |-> <<"D", <<>>>>]>>, <<[X |-> <<"S", a>>]>>}},
     Map |-> {[Map |-> s] : s \in {<<>>, <<<<a, <<>>>>>>, <<<<a, <<[X |-> <<"U", 7>>]>>>>, <<b, <<[X |-> <<>>]>>>>>>}},
     Field |-> FieldSet,
     Warn |-> {[Type |-> s, Msg |-> t] : s, t \in {<<>>, a}},
     PBPoint |-> Points,
     PBPoints |-> {[Arr |-> s] : s \in {<<>>, <<Pt(<<>>, <<>>, 0), Noted>>,
                                        <<Pt(a, <<Kv(<<"A", <<>>>>)>>, 1)>>}},
     HistogramOptions |-> {[Buckets |-> s] : s \in {<<>>, <<1>>, <<15360, MaxWord>>}},
     ExpoHistogramOptions |-> {[MaxScale |-> s, MaxBuckets |-> t, RecordMinMax |-> r] :
                                s \in {0, MaxWord}, t \in {0, 9}, r \in BOOLEAN},
     QuantileOptions |-> {[Percentiles |-> s] : s \in {<<>>, <<Nan>>, <<1, 2>>}},
     AggregationAlgo |-> Algos,
     AggregationBatch |-> {Batch, EmptyBatch, [EmptyBatch EXCEPT !.Points = <<[Arr |-> <<>>]>>]},
     Batchs |-> {[Batchs |-> s, PickKey |-> n] : s \in {<<>>, <<EmptyBatch, Batch>>}, n \in {0, 77}},
     DataPacket |-> {DataPacket, Packet},
     DataBatch |-> {[CollectorId |-> s, Packets |-> q] : s \in {<<>>, a},
                                                         q \in {<<>>, <<DataPacket, Packet>>}}]

\* Field 30 as a varint, a fixed64, bytes, a group around a fixed32.
MCUnknowns == {<<240, 1, 5>>, <<241, 1, 1, 2>>, <<242, 1, 2, 8, 1>>, <<243, 1, 13, 9, 244, 1>>}

=============================================================================
