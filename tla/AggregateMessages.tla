------------------------- MODULE AggregateMessages --------------------------
(***************************************************************************)
(* aggregate/aggrbatch.pb.go and aggregate/tsdata.pb.go: the generated     *)
(* code of the messages that carry aggregation batches and tail-sampling   *)
(* packets.  A pointer to a message is <<m>>, or <<>> for nil.             *)
(***************************************************************************)
EXTENDS PointMessages

-----------------------------------------------------------------------------
(* Marshal *)

HistogramOptions_Marshal(m) == PutDoubles(<<10>>, m.Buckets)

ExpoHistogramOptions_Marshal(m) ==
    PutVarint(<<8>>, m.MaxScale) \o PutVarint(<<16>>, m.MaxBuckets) \o PutBool(<<24>>, m.RecordMinMax)

QuantileOptions_Marshal(m) == PutDoubles(<<10>>, m.Percentiles)

AggregationAlgo_Options_Marshal(o) ==
    CASE o[1] = "HistogramOpts" -> PutAll(<<82>>, o[2], HistogramOptions_Marshal)
      [] o[1] = "ExpoOpts"      -> PutAll(<<90>>, o[2], ExpoHistogramOptions_Marshal)
      [] o[1] = "QuantileOpts"  -> PutAll(<<98>>, o[2], QuantileOptions_Marshal)

AggregationAlgo_Marshal(m) ==
    LET Pair(e) == Bytes(<<10>>, e[1]) \o Bytes(<<18>>, e[2])
    IN  PutString(<<10>>, m.Method) \o PutString(<<18>>, m.SourceField) \o PutVarint(<<24>>, m.Window)
        \o PutAll(<<66>>, m.AddTags, Pair)
        \o (IF m.Options = <<>> THEN <<>> ELSE AggregationAlgo_Options_Marshal(m.Options))

AggregationBatch_Marshal(m) ==
    LET Pair(e) == Bytes(<<10>>, e[1]) \o PutAll(<<18>>, e[2], AggregationAlgo_Marshal)
    IN  PutVarint(<<8>>, m.RoutingKey) \o PutVarint(<<16>>, m.ConfigHash)
        \o PutString(<<26>>, m.RawConfig) \o PutAll(<<34>>, m.AggregationOpts, Pair)
        \o PutAll(<<42>>, m.Points, PBPoints_Marshal) \o PutVarint(<<48>>, m.PickKey)

Batchs_Marshal(m) == PutAll(<<10>>, m.Batchs, AggregationBatch_Marshal) \o PutVarint(<<16>>, m.PickKey)

\* Fields 1 to 11 and 12 to 21; a tag from field 16 on has two bytes.
DataPacket_identity_Marshal(m) ==
    PutVarint(<<8>>, m.GroupIdHash) \o PutString(<<18>>, m.RawGroupId) \o PutString(<<26>>, m.Token)
    \o PutString(<<34>>, m.Source) \o PutString(<<42>>, m.DataType)
    \o PutVarint(<<48>>, m.ConfigVersion) \o PutBool(<<56>>, m.HasError)
    \o PutString(<<66>>, m.GroupKey) \o PutVarint(<<72>>, m.PointCount)
    \o PutVarint(<<80>>, m.TraceStartTimeUnixNano) \o PutVarint(<<88>>, m.TraceEndTimeUnixNano)

DataPacket_Marshal(m) ==
    DataPacket_identity_Marshal(m)
    \o PutString(<<98>>, m.PointsPayload) \o PutVarint(<<104>>, m.MaxPointTimeUnixNano)
    \o PutVarint(<<112>>, m.PayloadCompression) \o PutBool(<<120>>, m.PredError)
    \o PutBool(<<128, 1>>, m.PredHttpError) \o PutBool(<<136, 1>>, m.PredBizError)
    \o PutBool(<<144, 1>>, m.PredTraceKeep) \o PutVarint(<<152, 1>>, m.MaxSpanDurationUs)
    \o PutVarint(<<160, 1>>, m.RootDurationUs) \o PutVarint(<<168, 1>>, m.MaxNonrootDurationUs)

DataBatch_Marshal(m) == PutString(<<10>>, m.CollectorId) \o PutAll(<<18>>, m.Packets, DataPacket_Marshal)

-----------------------------------------------------------------------------
(* Size *)

HistogramOptions_Size(m) == DoublesSize(1, m.Buckets)

ExpoHistogramOptions_Size(m) ==
    VarintSize(1, m.MaxScale) + VarintSize(1, m.MaxBuckets) + BoolSize(1, m.RecordMinMax)

QuantileOptions_Size(m) == DoublesSize(1, m.Percentiles)

AggregationAlgo_Options_Size(o) ==
    CASE o[1] = "HistogramOpts" -> AllSize(1, o[2], HistogramOptions_Size)
      [] o[1] = "ExpoOpts"      -> AllSize(1, o[2], ExpoHistogramOptions_Size)
      [] o[1] = "QuantileOpts"  -> AllSize(1, o[2], QuantileOptions_Size)

AggregationAlgo_Size(m) ==
    LET Pair(e) == BytesSize(1, Len(e[1])) + BytesSize(1, Len(e[2]))
    IN  StringSize(1, m.Method) + StringSize(1, m.SourceField) + VarintSize(1, m.Window)
        + AllSize(1, m.AddTags, Pair)
        + (IF m.Options = <<>> THEN 0 ELSE AggregationAlgo_Options_Size(m.Options))

AggregationBatch_Size(m) ==
    LET Pair(e) == BytesSize(1, Len(e[1])) + AllSize(1, e[2], AggregationAlgo_Size)
    IN  VarintSize(1, m.RoutingKey) + VarintSize(1, m.ConfigHash) + StringSize(1, m.RawConfig)
        + AllSize(1, m.AggregationOpts, Pair) + AllSize(1, m.Points, PBPoints_Size)
        + VarintSize(1, m.PickKey)

Batchs_Size(m) == AllSize(1, m.Batchs, AggregationBatch_Size) + VarintSize(1, m.PickKey)

DataPacket_Size(m) ==
    VarintSize(1, m.GroupIdHash) + StringSize(1, m.RawGroupId) + StringSize(1, m.Token)
    + StringSize(1, m.Source) + StringSize(1, m.DataType) + VarintSize(1, m.ConfigVersion)
    + BoolSize(1, m.HasError) + StringSize(1, m.GroupKey) + VarintSize(1, m.PointCount)
    + VarintSize(1, m.TraceStartTimeUnixNano) + VarintSize(1, m.TraceEndTimeUnixNano)
    + StringSize(1, m.PointsPayload) + VarintSize(1, m.MaxPointTimeUnixNano)
    + VarintSize(1, m.PayloadCompression) + BoolSize(1, m.PredError) + BoolSize(2, m.PredHttpError)
    + BoolSize(2, m.PredBizError) + BoolSize(2, m.PredTraceKeep) + VarintSize(2, m.MaxSpanDurationUs)
    + VarintSize(2, m.RootDurationUs) + VarintSize(2, m.MaxNonrootDurationUs)

DataBatch_Size(m) == StringSize(1, m.CollectorId) + AllSize(1, m.Packets, DataPacket_Size)

-----------------------------------------------------------------------------
(* Unmarshal *)

HistogramOptions_Unmarshal(b) ==
    Then(Doubles(b, 1), LAMBDA r : <<[Buckets |-> r[1]]>>)

ExpoHistogramOptions_Unmarshal(b) ==
    Unmarshal([MaxScale |-> 0, MaxBuckets |-> 0, RecordMinMax |-> FALSE], b, LAMBDA m, f :
        CASE f.num = 1 -> GetInt32(m, "MaxScale", f)
          [] f.num = 2 -> GetInt32(m, "MaxBuckets", f)
          [] f.num = 3 -> GetBool(m, "RecordMinMax", f)
          [] OTHER     -> <<m>>)

QuantileOptions_Unmarshal(b) ==
    Then(Doubles(b, 1), LAMBDA r : <<[Percentiles |-> r[1]]>>)

AggregationAlgo_tags(m, f) ==
    IF f.wire # 2 THEN Fail
    ELSE Then(Entry(f.b, f.at, f.next, <<>>, <<>>), LAMBDA e :
            <<[m EXCEPT !.AddTags = MapSet(@, e[1], IF e[2] = <<>> THEN <<>> ELSE Last(e[2]))]>>)

AggregationAlgo_options(m, f) ==
    CASE f.num = 10 -> OneMessage(m, "Options", "HistogramOpts", f, HistogramOptions_Unmarshal)
      [] f.num = 11 -> OneMessage(m, "Options", "ExpoOpts", f, ExpoHistogramOptions_Unmarshal)
      [] f.num = 12 -> OneMessage(m, "Options", "QuantileOpts", f, QuantileOptions_Unmarshal)

AggregationAlgo_Unmarshal(b) ==
    Unmarshal([Method |-> <<>>, SourceField |-> <<>>, Window |-> 0, AddTags |-> <<>>,
               Options |-> <<>>], b, LAMBDA m, f :
        CASE f.num = 1 -> GetString(m, "Method", f)
          [] f.num = 2 -> GetString(m, "SourceField", f)
          [] f.num = 3 -> GetVarint(m, "Window", f)
          [] f.num = 8 -> AggregationAlgo_tags(m, f)
          [] f.num \in 10..12 -> AggregationAlgo_options(m, f)
          [] OTHER     -> <<m>>)

AggregationBatch_opts(m, f) == GetEntry(m, "AggregationOpts", f, AggregationAlgo_Unmarshal)

\* A second Points field is merged into the first.
AggregationBatch_points(m, f) ==
    IF f.wire # 2 THEN Fail
    ELSE Then(PBPoints_Unmarshal(f.d), LAMBDA r :
            LET old == IF m.Points = <<>> THEN <<>> ELSE m.Points[1].Arr
            IN  <<[m EXCEPT !.Points = <<[Arr |-> old \o r[1].Arr]>>]>>)

AggregationBatch_Unmarshal(b) ==
    Unmarshal([RoutingKey |-> 0, ConfigHash |-> 0, RawConfig |-> <<>>,
               AggregationOpts |-> <<>>, Points |-> <<>>, PickKey |-> 0], b, LAMBDA m, f :
        CASE f.num = 1 -> GetVarint(m, "RoutingKey", f)
          [] f.num = 2 -> GetVarint(m, "ConfigHash", f)
          [] f.num = 3 -> GetString(m, "RawConfig", f)
          [] f.num = 4 -> AggregationBatch_opts(m, f)
          [] f.num = 5 -> AggregationBatch_points(m, f)
          [] f.num = 6 -> GetVarint(m, "PickKey", f)
          [] OTHER     -> <<m>>)

Batchs_Unmarshal(b) ==
    Unmarshal([Batchs |-> <<>>, PickKey |-> 0], b, LAMBDA m, f :
        CASE f.num = 1 -> GetMessage(m, "Batchs", f, AggregationBatch_Unmarshal)
          [] f.num = 2 -> GetVarint(m, "PickKey", f)
          [] OTHER     -> <<m>>)

\* The switch of DataPacket, in four parts.
DataPacket_identity(m, f) ==
    CASE f.num = 1 -> GetVarint(m, "GroupIdHash", f)
      [] f.num = 2 -> GetString(m, "RawGroupId", f)
      [] f.num = 3 -> GetString(m, "Token", f)
      [] f.num = 4 -> GetString(m, "Source", f)

DataPacket_group(m, f) ==
    CASE f.num = 5 -> GetString(m, "DataType", f)
      [] f.num = 6 -> GetVarint(m, "ConfigVersion", f)
      [] f.num = 7 -> GetBool(m, "HasError", f)
      [] f.num = 8 -> GetString(m, "GroupKey", f)
      [] f.num = 9 -> GetInt32(m, "PointCount", f)

DataPacket_payload(m, f) ==
    CASE f.num = 10 -> GetVarint(m, "TraceStartTimeUnixNano", f)
      [] f.num = 11 -> GetVarint(m, "TraceEndTimeUnixNano", f)
      [] f.num = 12 -> GetString(m, "PointsPayload", f)
      [] f.num = 13 -> GetVarint(m, "MaxPointTimeUnixNano", f)
      [] f.num = 14 -> GetInt32(m, "PayloadCompression", f)

DataPacket_predicates(m, f) ==
    CASE f.num = 15 -> GetBool(m, "PredError", f)
      [] f.num = 16 -> GetBool(m, "PredHttpError", f)
      [] f.num = 17 -> GetBool(m, "PredBizError", f)
      [] f.num = 18 -> GetBool(m, "PredTraceKeep", f)
      [] f.num = 19 -> GetVarint(m, "MaxSpanDurationUs", f)
      [] f.num = 20 -> GetVarint(m, "RootDurationUs", f)
      [] f.num = 21 -> GetVarint(m, "MaxNonrootDurationUs", f)

DataPacket ==
    [GroupIdHash |-> 0, RawGroupId |-> <<>>, Token |-> <<>>, Source |-> <<>>, DataType |-> <<>>,
     ConfigVersion |-> 0, HasError |-> FALSE, GroupKey |-> <<>>, PointCount |-> 0,
     TraceStartTimeUnixNano |-> 0, TraceEndTimeUnixNano |-> 0, PointsPayload |-> <<>>,
     MaxPointTimeUnixNano |-> 0, PayloadCompression |-> 0, PredError |-> FALSE,
     PredHttpError |-> FALSE, PredBizError |-> FALSE, PredTraceKeep |-> FALSE,
     MaxSpanDurationUs |-> 0, RootDurationUs |-> 0, MaxNonrootDurationUs |-> 0]

DataPacket_Unmarshal(b) ==
    Unmarshal(DataPacket, b, LAMBDA m, f :
        CASE f.num \in 1..4   -> DataPacket_identity(m, f)
          [] f.num \in 5..9   -> DataPacket_group(m, f)
          [] f.num \in 10..14 -> DataPacket_payload(m, f)
          [] f.num \in 15..21 -> DataPacket_predicates(m, f)
          [] OTHER -> <<m>>)

DataBatch_Unmarshal(b) ==
    Unmarshal([CollectorId |-> <<>>, Packets |-> <<>>], b, LAMBDA m, f :
        CASE f.num = 1 -> GetString(m, "CollectorId", f)
          [] f.num = 2 -> GetMessage(m, "Packets", f, DataPacket_Unmarshal)
          [] OTHER     -> <<m>>)

-----------------------------------------------------------------------------
(* Equal *)

HistogramOptions_Equal(m, n) == EqualAll(m.Buckets, n.Buckets, EqualDouble)

ExpoHistogramOptions_Equal(m, n) ==
    m.MaxScale = n.MaxScale /\ m.MaxBuckets = n.MaxBuckets /\ m.RecordMinMax = n.RecordMinMax

QuantileOptions_Equal(m, n) == EqualAll(m.Percentiles, n.Percentiles, EqualDouble)

AggregationAlgo_Options_Equal(o, p) ==
    o[1] = p[1] /\ CASE o[1] = "HistogramOpts" -> EqualAll(o[2], p[2], HistogramOptions_Equal)
                     [] o[1] = "ExpoOpts"      -> EqualAll(o[2], p[2], ExpoHistogramOptions_Equal)
                     [] o[1] = "QuantileOpts"  -> EqualAll(o[2], p[2], QuantileOptions_Equal)

AggregationAlgo_Equal(m, n) ==
    LET Same(a, b) == a = b
    IN  /\ m.Method = n.Method /\ m.SourceField = n.SourceField /\ m.Window = n.Window
        /\ IF m.Options = <<>> \/ n.Options = <<>> THEN m.Options = n.Options
           ELSE AggregationAlgo_Options_Equal(m.Options, n.Options)
        /\ EqualMap(m.AddTags, n.AddTags, <<>>, Same)

AggregationBatch_Equal(m, n) ==
    LET Same(v, w) == EqualAll(v, w, AggregationAlgo_Equal)
    IN  /\ m.RoutingKey = n.RoutingKey /\ m.ConfigHash = n.ConfigHash /\ m.RawConfig = n.RawConfig
        /\ EqualMap(m.AggregationOpts, n.AggregationOpts, <<>>, Same)
        /\ EqualAll(m.Points, n.Points, PBPoints_Equal) /\ m.PickKey = n.PickKey

Batchs_Equal(m, n) == EqualAll(m.Batchs, n.Batchs, AggregationBatch_Equal) /\ m.PickKey = n.PickKey

\* DataPacket compares every field.
DataPacket_Equal(m, n) == \A x \in DOMAIN DataPacket : m[x] = n[x]

DataBatch_Equal(m, n) == m.CollectorId = n.CollectorId /\ EqualAll(m.Packets, n.Packets, DataPacket_Equal)

=============================================================================
