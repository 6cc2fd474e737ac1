------------------------------ MODULE Exchange ------------------------------
(***************************************************************************)
(* Messages that one process writes and another one reads: the generated   *)
(* code of point/point.pb.go, point/gogopb, aggregate/aggrbatch.pb.go and  *)
(* aggregate/tsdata.pb.go at work.  A stream holds the bytes of one        *)
(* message, or of several when all that the message has is repeated (two   *)
(* payloads of points behind each other are a payload).  On its way it may *)
(* get a field of a later version of the message, or lose its end.         *)
(***************************************************************************)
EXTENDS AggregateMessages, FiniteSets

CONSTANTS
    Messages,       \* for every kind of message the ones that are sent
    Unknowns,       \* fields that no message knows, encoded
    MaxSent         \* bound: messages in a stream

G == INSTANCE GogoMessages

VARIABLES
    kind,           \* the kind of message that this stream is about
    sent,           \* the messages written
    stream,         \* the bytes
    fault,          \* "none", "unknown" or "cut"
    got             \* <<>>, or <<impl, result>> of reading

vars == <<kind, sent, stream, fault, got>>

PointKinds == {"Debug", "AnyDemo", "BasicTypes", "Array", "Map", "Field", "Warn", "PBPoint",
               "PBPoints"}
Impls(k) == IF k \in PointKinds THEN {"pb", "gogopb"} ELSE {"pb"}

\* Messages that concatenate.
Containers == {"Array", "PBPoints", "HistogramOptions", "QuantileOptions"}

MarshalOf(impl, m) ==
    IF impl = "gogopb" THEN
        CASE kind = "Debug" -> G!Debug_Marshal(m)
          [] kind = "AnyDemo" -> G!AnyDemo_Marshal(m)
          [] kind = "BasicTypes" -> G!BasicTypes_Marshal(m)
          [] kind = "Array" -> G!Array_Marshal(m)
          [] kind = "Map" -> G!Map_Marshal(m)
          [] kind = "Field" -> G!Field_Marshal(m)
          [] kind = "Warn" -> G!Warn_Marshal(m)
          [] kind = "PBPoint" -> G!PBPoint_Marshal(m)
          [] kind = "PBPoints" -> G!PBPoints_Marshal(m)
    ELSE
        CASE kind = "Debug" -> Debug_Marshal(m)
          [] kind = "AnyDemo" -> AnyDemo_Marshal(m)
          [] kind = "BasicTypes" -> BasicTypes_Marshal(m)
          [] kind = "Array" -> Array_Marshal(m)
          [] kind = "Map" -> Map_Marshal(m)
          [] kind = "Field" -> Field_Marshal(m)
          [] kind = "Warn" -> Warn_Marshal(m)
          [] kind = "PBPoint" -> PBPoint_Marshal(m)
          [] kind = "PBPoints" -> PBPoints_Marshal(m)
          [] kind = "HistogramOptions" -> HistogramOptions_Marshal(m)
          [] kind = "ExpoHistogramOptions" -> ExpoHistogramOptions_Marshal(m)
          [] kind = "QuantileOptions" -> QuantileOptions_Marshal(m)
          [] kind = "AggregationAlgo" -> AggregationAlgo_Marshal(m)
          [] kind = "AggregationBatch" -> AggregationBatch_Marshal(m)
          [] kind = "Batchs" -> Batchs_Marshal(m)
          [] kind = "DataPacket" -> DataPacket_Marshal(m)
          [] kind = "DataBatch" -> DataBatch_Marshal(m)

SizeOf(impl, m) ==
    IF impl = "gogopb" THEN
        CASE kind = "Debug" -> G!Debug_Size(m)
          [] kind = "AnyDemo" -> G!AnyDemo_Size(m)
          [] kind = "BasicTypes" -> G!BasicTypes_Size(m)
          [] kind = "Array" -> G!Array_Size(m)
          [] kind = "Map" -> G!Map_Size(m)
          [] kind = "Field" -> G!Field_Size(m)
          [] kind = "Warn" -> G!Warn_Size(m)
          [] kind = "PBPoint" -> G!PBPoint_Size(m)
          [] kind = "PBPoints" -> G!PBPoints_Size(m)
    ELSE
        CASE kind = "Debug" -> Debug_Size(m)
          [] kind = "AnyDemo" -> AnyDemo_Size(m)
          [] kind = "BasicTypes" -> BasicTypes_Size(m)
          [] kind = "Array" -> Array_Size(m)
          [] kind = "Map" -> Map_Size(m)
          [] kind = "Field" -> Field_Size(m)
          [] kind = "Warn" -> Warn_Size(m)
          [] kind = "PBPoint" -> PBPoint_Size(m)
          [] kind = "PBPoints" -> PBPoints_Size(m)
          [] kind = "HistogramOptions" -> HistogramOptions_Size(m)
          [] kind = "ExpoHistogramOptions" -> ExpoHistogramOptions_Size(m)
          [] kind = "QuantileOptions" -> QuantileOptions_Size(m)
          [] kind = "AggregationAlgo" -> AggregationAlgo_Size(m)
          [] kind = "AggregationBatch" -> AggregationBatch_Size(m)
          [] kind = "Batchs" -> Batchs_Size(m)
          [] kind = "DataPacket" -> DataPacket_Size(m)
          [] kind = "DataBatch" -> DataBatch_Size(m)

UnmarshalOf(impl, b) ==
    IF impl = "gogopb" THEN
        CASE kind = "Debug" -> G!Debug_Unmarshal(b)
          [] kind = "AnyDemo" -> G!AnyDemo_Unmarshal(b)
          [] kind = "BasicTypes" -> G!BasicTypes_Unmarshal(b)
          [] kind = "Array" -> G!Array_Unmarshal(b)
          [] kind = "Map" -> G!Map_Unmarshal(b)
          [] kind = "Field" -> G!Field_Unmarshal(b)
          [] kind = "Warn" -> G!Warn_Unmarshal(b)
          [] kind = "PBPoint" -> G!PBPoint_Unmarshal(b)
          [] kind = "PBPoints" -> G!PBPoints_Unmarshal(b)
    ELSE
        CASE kind = "Debug" -> Debug_Unmarshal(b)
          [] kind = "AnyDemo" -> AnyDemo_Unmarshal(b)
          [] kind = "BasicTypes" -> BasicTypes_Unmarshal(b)
          [] kind = "Array" -> Array_Unmarshal(b)
          [] kind = "Map" -> Map_Unmarshal(b)
          [] kind = "Field" -> Field_Unmarshal(b)
          [] kind = "Warn" -> Warn_Unmarshal(b)
          [] kind = "PBPoint" -> PBPoint_Unmarshal(b)
          [] kind = "PBPoints" -> PBPoints_Unmarshal(b)
          [] kind = "HistogramOptions" -> HistogramOptions_Unmarshal(b)
          [] kind = "ExpoHistogramOptions" -> ExpoHistogramOptions_Unmarshal(b)
          [] kind = "QuantileOptions" -> QuantileOptions_Unmarshal(b)
          [] kind = "AggregationAlgo" -> AggregationAlgo_Unmarshal(b)
          [] kind = "AggregationBatch" -> AggregationBatch_Unmarshal(b)
          [] kind = "Batchs" -> Batchs_Unmarshal(b)
          [] kind = "DataPacket" -> DataPacket_Unmarshal(b)
          [] kind = "DataBatch" -> DataBatch_Unmarshal(b)

EqualOf(impl, m, n) ==
    IF impl = "gogopb" THEN
        CASE kind = "Debug" -> G!Debug_Equal(m, n)
          [] kind = "AnyDemo" -> G!AnyDemo_Equal(m, n)
          [] kind = "BasicTypes" -> G!BasicTypes_Equal(m, n)
          [] kind = "Array" -> G!Array_Equal(m, n)
          [] kind = "Map" -> G!Map_Equal(m, n)
          [] kind = "Field" -> G!Field_Equal(m, n)
          [] kind = "Warn" -> G!Warn_Equal(m, n)
          [] kind = "PBPoint" -> G!PBPoint_Equal(m, n)
          [] kind = "PBPoints" -> G!PBPoints_Equal(m, n)
    ELSE
        CASE kind = "Debug" -> Debug_Equal(m, n)
          [] kind = "AnyDemo" -> AnyDemo_Equal(m, n)
          [] kind = "BasicTypes" -> BasicTypes_Equal(m, n)
          [] kind = "Array" -> Array_Equal(m, n)
          [] kind = "Map" -> Map_Equal(m, n)
          [] kind = "Field" -> Field_Equal(m, n)
          [] kind = "Warn" -> Warn_Equal(m, n)
          [] kind = "PBPoint" -> PBPoint_Equal(m, n)
          [] kind = "PBPoints" -> PBPoints_Equal(m, n)
          [] kind = "HistogramOptions" -> HistogramOptions_Equal(m, n)
          [] kind = "ExpoHistogramOptions" -> ExpoHistogramOptions_Equal(m, n)
          [] kind = "QuantileOptions" -> QuantileOptions_Equal(m, n)
          [] kind = "AggregationAlgo" -> AggregationAlgo_Equal(m, n)
          [] kind = "AggregationBatch" -> AggregationBatch_Equal(m, n)
          [] kind = "Batchs" -> Batchs_Equal(m, n)
          [] kind = "DataPacket" -> DataPacket_Equal(m, n)
          [] kind = "DataBatch" -> DataBatch_Equal(m, n)

-----------------------------------------------------------------------------

\* The older Field has no Description: its messages are those without one, and
\* reading them yields records without that component.
OlderField(f) == [f EXCEPT !.Description = <<>>]
OlderPoint(p) == [p EXCEPT !.Fields = [i \in 1..Len(@) |-> OlderField(@[i])]]
Older(m) ==
    CASE kind = "Field" -> OlderField(m)
      [] kind = "PBPoint" -> OlderPoint(m)
      [] kind = "PBPoints" -> [m EXCEPT !.Arr = [i \in 1..Len(@) |-> OlderPoint(@[i])]]
      [] OTHER -> m

Init ==
    /\ kind \in DOMAIN Messages
    /\ sent = <<>> /\ stream = <<>> /\ fault = "none" /\ got = <<>>

Write(impl, m) ==
    /\ got = <<>> /\ fault = "none"
    /\ Len(sent) < (IF kind \in Containers THEN MaxSent ELSE 1)
    /\ sent' = Append(sent, IF impl = "gogopb" THEN Older(m) ELSE m)
    /\ stream' = stream \o MarshalOf(impl, m)
    /\ UNCHANGED <<kind, fault, got>>

\* A newer writer: its fields come first or last.
AddUnknown(u) ==
    /\ got = <<>> /\ fault = "none" /\ sent # <<>>
    /\ stream' \in {u \o stream, stream \o u}
    /\ fault' = "unknown"
    /\ UNCHANGED <<kind, sent, got>>

Cut(n) ==
    /\ got = <<>> /\ fault = "none" /\ n < Len(stream)
    /\ stream' = SubSeq(stream, 1, n)
    /\ fault' = "cut"
    /\ UNCHANGED <<kind, sent, got>>

Read(impl) ==
    /\ got = <<>> /\ sent # <<>>
    /\ got' = <<impl, UnmarshalOf(impl, stream)>>
    /\ UNCHANGED <<kind, sent, stream, fault>>

Next ==
    \/ \E impl \in Impls(kind), m \in Messages[kind] : Write(impl, m)
    \/ \E u \in Unknowns : AddUnknown(u)
    \/ \E n \in 0..Len(stream) : Cut(n)
    \/ \E impl \in Impls(kind) : Read(impl)

Spec == Init /\ [][Next]_vars

-----------------------------------------------------------------------------
(* What was sent, as it can be told from the bytes *)

\* A nil []byte or *Any in a oneof writes nothing, and is not set on reading.
NormalOneof(x) == IF x \in {<<"D", <<>>>>, <<"A", <<>>>>} THEN <<>> ELSE x
NormalField(f) == [f EXCEPT !.Val = NormalOneof(@)]
NormalPoint(p) == [p EXCEPT !.Fields = [i \in 1..Len(@) |-> NormalField(@[i])]]
NormalOptions(o) == IF o = <<>> THEN o ELSE IF o[2] = <<>> THEN <<>> ELSE o
NormalAlgo(a) == [a EXCEPT !.Options = NormalOptions(@)]
NormalPoints(s) == [i \in 1..Len(s) |-> NormalPoint(s[i])]
NormalBatch(b) ==
    [b EXCEPT !.Points = [i \in 1..Len(@) |-> [@[i] EXCEPT !.Arr = NormalPoints(@)]],
              !.AggregationOpts = [i \in 1..Len(@) |-> <<@[i][1], [j \in 1..Len(@[i][2]) |->
                                                                    NormalAlgo(@[i][2][j])]>>]]

Normal(m) ==
    CASE kind = "BasicTypes" -> [m EXCEPT !.X = NormalOneof(@)]
      [] kind = "Array" -> [m EXCEPT !.Arr = [i \in 1..Len(@) |-> [@[i] EXCEPT !.X = NormalOneof(@)]]]
      [] kind = "Field" -> NormalField(m)
      [] kind = "PBPoint" -> NormalPoint(m)
      [] kind = "PBPoints" -> [m EXCEPT !.Arr = NormalPoints(@)]
      [] kind = "AggregationAlgo" -> NormalAlgo(m)
      [] kind = "AggregationBatch" -> NormalBatch(m)
      [] kind = "Batchs" -> [m EXCEPT !.Batchs = [i \in 1..Len(@) |-> NormalBatch(@[i])]]
      [] OTHER -> m

Joined ==
    LET x == CHOOSE x \in DOMAIN sent[1] : TRUE
    IN  [sent[1] EXCEPT ![x] = FlattenSeq([i \in 1..Len(sent) |-> sent[i][x]])]
Expected == Normal(IF kind \in Containers THEN Joined ELSE sent[1])

Repeated == {"Arr", "Map", "Fields", "Warns", "Debugs", "AddTags", "AggregationOpts", "Batchs",
             "Packets", "Buckets", "Percentiles"}

\* Equal reads a key that the other map lacks as the zero value, and no NaN
\* equals another: such messages are left out.
Comparable(n) ==
    CASE kind \in {"HistogramOptions", "QuantileOptions"} ->
           \A x \in DOMAIN n : \A i \in 1..Len(n[x]) : ~ IsNaN(n[x][i])
      [] kind = "Map" -> \A i \in 1..Len(n.Map) : n.Map[i][2] # <<>>
      [] kind = "AggregationAlgo" -> \A i \in 1..Len(n.AddTags) : n.AddTags[i][2] # <<>>
      [] OTHER -> TRUE

\* What a reader of the implementation has of a message.
ViewField(f) == [x \in DOMAIN f \ {"Description"} |-> f[x]]
ViewPoint(p) == [p EXCEPT !.Fields = [i \in 1..Len(@) |-> ViewField(@[i])]]
View(impl, m) ==
    CASE impl = "gogopb" /\ kind = "Field" -> ViewField(m)
      [] impl = "gogopb" /\ kind = "PBPoint" -> ViewPoint(m)
      [] impl = "gogopb" /\ kind = "PBPoints" ->
           [m EXCEPT !.Arr = [i \in 1..Len(@) |-> ViewPoint(@[i])]]
      [] OTHER -> m

-----------------------------------------------------------------------------
(* Properties *)

\* MarshalToSizedBuffer fills the buffer that Marshal sized with Size from its
\* end: a wrong size would leave garbage in front or run off the buffer.  The
\* Size of every implementation that writes these bytes is their number.
SizeIsLength ==
    fault = "none" /\ Len(sent) = 1 =>
        \A impl \in Impls(kind) :
            stream = MarshalOf(impl, sent[1]) => SizeOf(impl, sent[1]) = Len(stream)

\* Whichever implementation wrote the messages, and behind or before fields it
\* does not know, each one reads all that they hold: in order, and except for a
\* nil value of a oneof and for the Description that point/gogopb lacks.
ReadsAll ==
    got # <<>> /\ fault # "cut" => got[2] = <<View(got[1], Expected)>>

\* What is read of a stream without its end is an error, or the message without
\* its last fields: no field has a value that was not sent.
CutInventsNothing ==
    got # <<>> /\ fault = "cut" =>
        \/ got[2] = Fail
        \/ LET sentView == View(got[1], Expected)
           IN  \A x \in DOMAIN sentView :
                 \/ got[2][1][x] = sentView[x]
                 \/ got[2][1][x] = UnmarshalOf(got[1], <<>>)[1][x]
                 \/ x \in Repeated /\ IsPrefix(got[2][1][x], sentView[x])

\* Equal of two messages tells whether they hold the same: a message that was
\* read equals the one that was sent, and no other one of its kind.
EqualTellsApart ==
    got # <<>> /\ fault # "cut" =>
        \A n \in Messages[kind] :
            Comparable(n) /\ Normal(n) = n =>
                (EqualOf(got[1], got[2][1], n) <=> View(got[1], n) = got[2][1])

=============================================================================
