--------------------------- MODULE PointMessages ----------------------------
(***************************************************************************)
(* point/point.pb.go: the generated code of every message of point.proto.  *)
(* A oneof is <<member, value>> or <<>>; the []byte of a D member and the  *)
(* *Any of an A member are <<v>>, or <<>> for nil.                         *)
(***************************************************************************)
EXTENDS Wire

\* google.protobuf.Any
Any_Marshal(m) == PutString(<<10>>, m.TypeUrl) \o PutString(<<18>>, m.Value)
Any_Size(m) == StringSize(1, m.TypeUrl) + StringSize(1, m.Value)
Any_Unmarshal(b) ==
    Unmarshal([TypeUrl |-> <<>>, Value |-> <<>>], b, LAMBDA m, f :
        CASE f.num = 1 -> GetString(m, "TypeUrl", f)
          [] f.num = 2 -> GetString(m, "Value", f)
          [] OTHER     -> <<m>>)

-----------------------------------------------------------------------------
(* Marshal: the fields in the order in which they end up in the buffer *)

Debug_Marshal(m) == PutString(<<10>>, m.Info)

AnyDemo_Marshal(m) == PutString(<<10>>, m.Demo)

BasicTypes_X_Marshal(x) ==
    CASE x[1] = "I" -> <<8>> \o encodeVarint(x[2])
      [] x[1] = "U" -> <<16>> \o encodeVarint(x[2])
      [] x[1] = "F" -> <<25>> \o Fixed64(x[2])
      [] x[1] = "B" -> <<32, IF x[2] THEN 1 ELSE 0>>
      [] x[1] = "D" -> IF x[2] = <<>> THEN <<>> ELSE Bytes(<<42>>, x[2][1])
      [] x[1] = "S" -> Bytes(<<50>>, x[2])

BasicTypes_Marshal(m) == IF m.X = <<>> THEN <<>> ELSE BasicTypes_X_Marshal(m.X)

Array_Marshal(m) == PutAll(<<10>>, m.Arr, BasicTypes_Marshal)

Map_Marshal(m) ==
    LET Pair(e) == Bytes(<<10>>, e[1])
                   \o (IF e[2] = <<>> THEN <<>> ELSE Bytes(<<18>>, BasicTypes_Marshal(e[2][1])))
    IN  PutAll(<<10>>, m.Map, Pair)

Field_Val_Marshal(v) ==
    CASE v[1] = "I" -> <<16>> \o encodeVarint(v[2])
      [] v[1] = "U" -> <<24>> \o encodeVarint(v[2])
      [] v[1] = "F" -> <<33>> \o Fixed64(v[2])
      [] v[1] = "B" -> <<40, IF v[2] THEN 1 ELSE 0>>
      [] v[1] = "D" -> IF v[2] = <<>> THEN <<>> ELSE Bytes(<<50>>, v[2][1])
      [] v[1] = "A" -> IF v[2] = <<>> THEN <<>> ELSE Bytes(<<58>>, Any_Marshal(v[2][1]))
      [] v[1] = "S" -> Bytes(<<90>>, v[2])

\* Val is written between Unit and Description.
Field_Marshal(m) ==
    PutString(<<10>>, m.Key) \o PutBool(<<64>>, m.IsTag) \o PutVarint(<<72>>, m.Type)
    \o PutString(<<82>>, m.Unit) \o (IF m.Val = <<>> THEN <<>> ELSE Field_Val_Marshal(m.Val))
    \o PutString(<<98>>, m.Description)

Warn_Marshal(m) == PutString(<<10>>, m.Type) \o PutString(<<18>>, m.Msg)

PBPoint_Marshal(m) ==
    PutString(<<10>>, m.Name) \o PutAll(<<18>>, m.Fields, Field_Marshal)
    \o PutVarint(<<24>>, m.Time) \o PutAll(<<34>>, m.Warns, Warn_Marshal)
    \o PutAll(<<42>>, m.Debugs, Debug_Marshal)

PBPoints_Marshal(m) == PutAll(<<10>>, m.Arr, PBPoint_Marshal)

-----------------------------------------------------------------------------
(* Size *)

Debug_Size(m) == StringSize(1, m.Info)

AnyDemo_Size(m) == StringSize(1, m.Demo)

BasicTypes_X_Size(x) ==
    CASE x[1] \in {"I", "U"} -> 1 + sov(x[2])
      [] x[1] = "F" -> 1 + FixedLen
      [] x[1] = "B" -> 2
      [] x[1] = "D" -> IF x[2] = <<>> THEN 0 ELSE BytesSize(1, Len(x[2][1]))
      [] x[1] = "S" -> BytesSize(1, Len(x[2]))

BasicTypes_Size(m) == IF m.X = <<>> THEN 0 ELSE BasicTypes_X_Size(m.X)

Array_Size(m) == AllSize(1, m.Arr, BasicTypes_Size)

Map_Size(m) ==
    LET Pair(e) == BytesSize(1, Len(e[1]))
                   + (IF e[2] = <<>> THEN 0 ELSE BytesSize(1, BasicTypes_Size(e[2][1])))
    IN  AllSize(1, m.Map, Pair)

Field_Val_Size(v) ==
    CASE v[1] \in {"I", "U"} -> 1 + sov(v[2])
      [] v[1] = "F" -> 1 + FixedLen
      [] v[1] = "B" -> 2
      [] v[1] = "D" -> IF v[2] = <<>> THEN 0 ELSE BytesSize(1, Len(v[2][1]))
      [] v[1] = "A" -> IF v[2] = <<>> THEN 0 ELSE BytesSize(1, Any_Size(v[2][1]))
      [] v[1] = "S" -> BytesSize(1, Len(v[2]))

Field_Size(m) ==
    StringSize(1, m.Key) + (IF m.Val = <<>> THEN 0 ELSE Field_Val_Size(m.Val))
    + BoolSize(1, m.IsTag) + VarintSize(1, m.Type) + StringSize(1, m.Unit)
    + StringSize(1, m.Description)

Warn_Size(m) == StringSize(1, m.Type) + StringSize(1, m.Msg)

PBPoint_Size(m) ==
    StringSize(1, m.Name) + AllSize(1, m.Fields, Field_Size) + VarintSize(1, m.Time)
    + AllSize(1, m.Warns, Warn_Size) + AllSize(1, m.Debugs, Debug_Size)

PBPoints_Size(m) == AllSize(1, m.Arr, PBPoint_Size)

-----------------------------------------------------------------------------
(* Unmarshal *)

Debug_Unmarshal(b) ==
    Unmarshal([Info |-> <<>>], b, LAMBDA m, f :
        IF f.num = 1 THEN GetString(m, "Info", f) ELSE <<m>>)

AnyDemo_Unmarshal(b) ==
    Unmarshal([Demo |-> <<>>], b, LAMBDA m, f :
        IF f.num = 1 THEN GetString(m, "Demo", f) ELSE <<m>>)

BasicTypes_number(m, f) ==
    CASE f.num = 1 -> OneVarint(m, "X", "I", f)
      [] f.num = 2 -> OneVarint(m, "X", "U", f)
      [] f.num = 3 -> OneDouble(m, "X", "F", f)
      [] f.num = 4 -> OneBool(m, "X", "B", f)

BasicTypes_Unmarshal(b) ==
    Unmarshal([X |-> <<>>], b, LAMBDA m, f :
        CASE f.num \in 1..4 -> BasicTypes_number(m, f)
          [] f.num = 5 -> OneBytes(m, "X", "D", f)
          [] f.num = 6 -> OneString(m, "X", "S", f)
          [] OTHER     -> <<m>>)

Array_Unmarshal(b) ==
    Unmarshal([Arr |-> <<>>], b, LAMBDA m, f :
        IF f.num = 1 THEN GetMessage(m, "Arr", f, BasicTypes_Unmarshal) ELSE <<m>>)

Map_entry(m, f) == GetEntry(m, "Map", f, BasicTypes_Unmarshal)

Map_Unmarshal(b) ==
    Unmarshal([Map |-> <<>>], b, LAMBDA m, f :
        IF f.num = 1 THEN Map_entry(m, f) ELSE <<m>>)

Field_number(m, f) ==
    CASE f.num = 2 -> OneVarint(m, "Val", "I", f)
      [] f.num = 3 -> OneVarint(m, "Val", "U", f)
      [] f.num = 4 -> OneDouble(m, "Val", "F", f)
      [] f.num = 5 -> OneBool(m, "Val", "B", f)

Field_attribute(m, f) ==
    CASE f.num = 8  -> GetBool(m, "IsTag", f)
      [] f.num = 9  -> GetInt32(m, "Type", f)
      [] f.num = 10 -> GetString(m, "Unit", f)
      [] f.num = 12 -> GetString(m, "Description", f)

Field_Unmarshal(b) ==
    Unmarshal([Key |-> <<>>, Val |-> <<>>, IsTag |-> FALSE, Type |-> 0, Unit |-> <<>>,
               Description |-> <<>>], b, LAMBDA m, f :
        CASE f.num = 1 -> GetString(m, "Key", f)
          [] f.num \in 2..5 -> Field_number(m, f)
          [] f.num = 6  -> OneBytes(m, "Val", "D", f)
          [] f.num = 7  -> OneMessage(m, "Val", "A", f, Any_Unmarshal)
          [] f.num \in {8, 9, 10, 12} -> Field_attribute(m, f)
          [] f.num = 11 -> OneString(m, "Val", "S", f)
          [] OTHER      -> <<m>>)

Warn_Unmarshal(b) ==
    Unmarshal([Type |-> <<>>, Msg |-> <<>>], b, LAMBDA m, f :
        CASE f.num = 1 -> GetString(m, "Type", f)
          [] f.num = 2 -> GetString(m, "Msg", f)
          [] OTHER     -> <<m>>)

PBPoint_attachment(m, f) ==
    CASE f.num = 4 -> GetMessage(m, "Warns", f, Warn_Unmarshal)
      [] f.num = 5 -> GetMessage(m, "Debugs", f, Debug_Unmarshal)

PBPoint_Unmarshal(b) ==
    Unmarshal([Name |-> <<>>, Fields |-> <<>>, Time |-> 0, Warns |-> <<>>,
               Debugs |-> <<>>], b, LAMBDA m, f :
        CASE f.num = 1 -> GetString(m, "Name", f)
          [] f.num = 2 -> GetMessage(m, "Fields", f, Field_Unmarshal)
          [] f.num = 3 -> GetVarint(m, "Time", f)
          [] f.num \in {4, 5} -> PBPoint_attachment(m, f)
          [] OTHER     -> <<m>>)

PBPoints_Unmarshal(b) ==
    Unmarshal([Arr |-> <<>>], b, LAMBDA m, f :
        IF f.num = 1 THEN GetMessage(m, "Arr", f, PBPoint_Unmarshal) ELSE <<m>>)

-----------------------------------------------------------------------------
(* Equal *)

Debug_Equal(m, n) == m.Info = n.Info

AnyDemo_Equal(m, n) == m.Demo = n.Demo

\* A member of a oneof equals another one of the same member only; bytes.Equal
\* does not tell nil from empty.
EqualBytes(a, b) == FlattenSeq(a) = FlattenSeq(b)

BasicTypes_X_Equal(x, y) ==
    x[1] = y[1] /\ CASE x[1] = "F" -> EqualDouble(x[2], y[2])
                     [] x[1] = "D" -> EqualBytes(x[2], y[2])
                     [] OTHER      -> x[2] = y[2]

BasicTypes_Equal(m, n) ==
    IF m.X = <<>> \/ n.X = <<>> THEN m.X = n.X ELSE BasicTypes_X_Equal(m.X, n.X)

Array_Equal(m, n) == EqualAll(m.Arr, n.Arr, BasicTypes_Equal)

Map_Equal(m, n) ==
    LET Same(v, w) == EqualAll(v, w, BasicTypes_Equal) IN EqualMap(m.Map, n.Map, <<>>, Same)

Field_Val_Equal(v, w) ==
    v[1] = w[1] /\ CASE v[1] = "F" -> EqualDouble(v[2], w[2])
                     [] v[1] = "D" -> EqualBytes(v[2], w[2])
                     [] OTHER      -> v[2] = w[2]

Field_Equal(m, n) ==
    /\ m.Key = n.Key
    /\ IF m.Val = <<>> \/ n.Val = <<>> THEN m.Val = n.Val ELSE Field_Val_Equal(m.Val, n.Val)
    /\ m.IsTag = n.IsTag /\ m.Type = n.Type /\ m.Unit = n.Unit /\ m.Description = n.Description

\* Mutant: the last field is not compared.
Warn_EqualType(m, n) == m.Type = n.Type

Warn_Equal(m, n) == m.Type = n.Type /\ m.Msg = n.Msg

PBPoint_Equal(m, n) ==
    /\ m.Name = n.Name /\ EqualAll(m.Fields, n.Fields, Field_Equal) /\ m.Time = n.Time
    /\ EqualAll(m.Warns, n.Warns, Warn_Equal) /\ EqualAll(m.Debugs, n.Debugs, Debug_Equal)

PBPoints_Equal(m, n) == EqualAll(m.Arr, n.Arr, PBPoint_Equal)

=============================================================================
