----------------------------- MODULE PointValues ----------------------------
(***************************************************************************)
(* The Go values that a key-value is made of and read back as: val.go,     *)
(* any.go and the readers of kvs.go, point.go and equal.go.                *)
(*                                                                         *)
(* A Go value is <<type, v>>: the integers are images of the word, the     *)
(* elements of a []any and of a map are Go values again, v of "nil" is <<>>.*)
(* An error is <<>>, a panic Panic.                                        *)
(***************************************************************************)
EXTENDS PointCheck

CONSTANTS
    EnableMixedArrayField,
    EnableDictField

Panic == <<"panic">>

ArrayFieldType == <<65>>
DictFieldType == <<77>>

IntTypes == {"int8", "int16", "int32", "int", "int64"}
UintTypes == {"uint8", "uint16", "uint32", "uint", "uint64"}
FloatTypes == {"float32", "float64"}

\* The member of the oneof that holds a value of the type.
Member(t) ==
    CASE t \in IntTypes -> "I"
      [] t \in UintTypes -> "U"
      [] t \in FloatTypes -> "F"
      [] t = "string" -> "S"
      [] t = "[]byte" -> "D"
      [] t = "bool" -> "B"
      [] OTHER -> "none"
Basic(gv) == [X |-> IF gv[1] = "[]byte" THEN <<"D", <<gv[2]>>>> ELSE <<Member(gv[1]), gv[2]>>]

\* types.MarshalAny
MarshalAny(url, b) == [TypeUrl |-> url, Value |-> b]

checkMixTypedArray(arr) ==
    EnableMixedArrayField \/ \A i, j \in 1..Len(arr) : arr[i].X[1] = arr[j].X[1]

\* A []any, elements of any basic type.
NewArray(ents) ==
    LET arr == [i \in 1..Len(ents) |-> Basic(ents[i])]
    IN  IF \E i \in 1..Len(ents) : Member(ents[i][1]) = "none" THEN Fail
        ELSE IF ~ checkMixTypedArray(arr) THEN Fail ELSE <<[Arr |-> arr]>>

NewAnyArray(ents) ==
    Then(NewArray(ents), LAMBDA a : <<MarshalAny(ArrayFieldType, Array_Marshal(a[1]))>>)

\* A slice of one basic type.
ElementType ==
    [t \in {"[]int8", "[]int16", "[]int32", "[]int", "[]int64", "[]uint16", "[]uint32", "[]uint",
            "[]uint64", "[]float32", "[]float64", "[]string", "[]bool", "[][]byte"} |->
     CASE t = "[]int8" -> "int8" [] t = "[]int16" -> "int16" [] t = "[]int32" -> "int32"
       [] t = "[]int" -> "int" [] t = "[]int64" -> "int64" [] t = "[]uint16" -> "uint16"
       [] t = "[]uint32" -> "uint32" [] t = "[]uint" -> "uint" [] t = "[]uint64" -> "uint64"
       [] t = "[]float32" -> "float32" [] t = "[]float64" -> "float64"
       [] t = "[]string" -> "string" [] t = "[]bool" -> "bool" [] t = "[][]byte" -> "[]byte"]
NewTypedArray(t, s) == NewAnyArray([i \in 1..Len(s) |-> <<ElementType[t], s[i]>>])

\* nil is a value of a map, though of no array.
NewMap(ents) ==
    IF ~ EnableDictField THEN Fail
    ELSE IF \E i \in 1..Len(ents) : Member(ents[i][2][1]) = "none" /\ ents[i][2][1] # "nil" THEN Fail
    ELSE <<[Map |-> [i \in 1..Len(ents) |->
                     <<ents[i][1], IF ents[i][2][1] = "nil" THEN <<>> ELSE <<Basic(ents[i][2])>>>>]]>>

newVal(gv) ==
    CASE Member(gv[1]) # "none" -> Basic(gv).X
      [] gv[1] \in DOMAIN ElementType -> <<"A", NewTypedArray(gv[1], gv[2])>>
      [] gv[1] = "[]any" -> Then(NewAnyArray(gv[2]), LAMBDA a : <<"A", a>>)
      [] gv[1] = "*types.Any" -> <<"A", gv[2]>>
      [] OTHER -> <<>>

-----------------------------------------------------------------------------
(* Reading back *)

\* The Go value of a basic type: 64 bits wide.
GoType == [I |-> "int64", U |-> "uint64", F |-> "float64", B |-> "bool", D |-> "[]byte",
           S |-> "string"]
GoSlice == [I |-> "[]int64", U |-> "[]uint64", F |-> "[]float64", B |-> "[]bool", D |-> "[][]byte",
            S |-> "[]string"]
GoValue(x) == <<GoType[x[1]], IF x[1] = "D" THEN FlattenSeq(x[2]) ELSE x[2]>>

ArrayRaw(arr) ==
    LET vals == [i \in 1..Len(arr) |-> GoValue(arr[i].X)]
    IN  IF \E i \in 1..Len(arr) : arr[i].X = <<>> THEN Panic
        ELSE IF ~ checkMixTypedArray(arr) THEN Fail
        ELSE IF EnableMixedArrayField THEN <<<<"[]any", vals>>>>
        ELSE IF arr = <<>> THEN <<<<"nil", <<>>>>>>
        ELSE <<<<GoSlice[arr[1].X[1]], [i \in 1..Len(arr) |-> vals[i][2]]>>>>

MapRaw(m) ==
    IF \E i \in 1..Len(m) : m[i][2] = <<>> THEN Panic
    ELSE <<<<"map", [i \in 1..Len(m) |-> <<m[i][1], GoValue(m[i][2][1].X)>>]>>>>

AnyArrayRaw(b) == Then(Array_Unmarshal(b), LAMBDA a : ArrayRaw(a[1].Arr))

AnyMapRaw(b) ==
    IF ~ EnableDictField THEN Fail ELSE Then(Map_Unmarshal(b), LAMBDA m : MapRaw(m[1].Map))

AnyRaw(a) ==
    IF a = <<>> THEN Fail
    ELSE CASE a[1].TypeUrl = ArrayFieldType -> AnyArrayRaw(a[1].Value)
           [] a[1].TypeUrl = DictFieldType -> AnyMapRaw(a[1].Value)
           [] OTHER -> Fail

\* An error reads as nil.
OrNil(r) == IF r = Fail THEN <<"nil", <<>>>> ELSE r[1]
Raw(kv) ==
    IF kv.Val = <<>> THEN <<"nil", <<>>>>
    ELSE IF kv.Val[1] # "A" THEN GoValue(kv.Val) ELSE OrNil(AnyRaw(kv.Val[2]))

\* The fields of the line-protocol point, <<key, Go value>>: of an array that
\* cannot be read there is none.
InfluxField(kv) ==
    IF kv.IsTag \/ kv.Val = <<>> THEN Fail
    ELSE Then(IF kv.Val[1] = "A" THEN AnyRaw(kv.Val[2]) ELSE <<GoValue(kv.Val)>>,
              LAMBDA r : <<<<kv.Key, r[1]>>>>)
InfluxFields(kvs) == FlattenSeq([i \in 1..Len(kvs) |-> InfluxField(kvs[i])])

InfluxTags(kvs) == Sorted(Tags(kvs))

\* The first key-value with the key.
First(kvs, k) == kvs[CHOOSE i \in 1..Len(kvs) : kvs[i].Key = k /\ \A j \in 1..i - 1 : kvs[j].Key # k]
Get(pt, k) == IF Has(pt.Fields, k) THEN Raw(First(pt.Fields, k)) ELSE <<"nil", <<>>>>

GetTag(kvs, k) == IF Has(Tags(kvs), k) THEN First(Tags(kvs), k).Val[2] ELSE <<>>

\* GetI, GetU, GetF, GetS, GetD, GetB, GetA
GetX(pt, k, member) ==
    IF ~ Has(pt.Fields, k) THEN Fail
    ELSE LET v == First(pt.Fields, k).Val
         IN  IF v = <<>> THEN Fail ELSE IF v[1] = member THEN <<v[2]>> ELSE Fail

-----------------------------------------------------------------------------
(* Comparing points *)

\* The text of a key-value tells every part of it apart.
kvsEq(l, r, excluded) ==
    /\ excluded = {} => Len(l) = Len(r)
    /\ \A i \in 1..Len(l) : l[i].Key \notin excluded =>
          Has(r, l[i].Key) /\ l[i] = First(r, l[i].Key)

TimeKey == <<116>>
PointEqual(p, x, withMeasurement, excluded) ==
    /\ TimeKey \notin excluded => p.Time = x.Time
    /\ withMeasurement => p.Name = x.Name
    /\ excluded = {} => Len(Tags(p.Fields)) = Len(Tags(x.Fields))
    /\ kvsEq(KVFields(p.Fields), KVFields(x.Fields), excluded)
    /\ kvsEq(Tags(p.Fields), Tags(x.Fields), excluded)

\* What MD5 and Sha256 are taken of.
hashstr(p) ==
    LET tags == Sorted(Tags(p.Fields))
    IN  p.Name \o FlattenSeq([i \in 1..Len(tags) |-> tags[i].Key \o tags[i].Val[2]])

TimeSeriesHash(p) == [i \in 1..Len(KVFields(p.Fields)) |-> hashstr(p) \o KVFields(p.Fields)[i].Key]

=============================================================================
