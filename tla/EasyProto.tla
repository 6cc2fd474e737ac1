----------------------------- MODULE EasyProto ------------------------------
(***************************************************************************)
(* The second protobuf implementation of the point package: easyproto.go,  *)
(* which writes and reads points with the easyproto library, and the       *)
(* recycled batches of easybatch.go.  The library's own part (NextField,   *)
(* the Append calls, the typed getters) is external.                       *)
(***************************************************************************)
EXTENDS PointCheck

-----------------------------------------------------------------------------
(* The library *)

\* Every field is written, zero values too.
AppendString(num, s) == Bytes(<<8 * num + 2>>, s)
AppendInt(num, v) == <<8 * num>> \o encodeVarint(v)
AppendBool(num, b) == <<8 * num, IF b THEN 1 ELSE 0>>
AppendDouble(num, v) == <<8 * num + 1>> \o Fixed64(v)
AppendMessages(num, s, Marshal(_)) == PutAll(<<8 * num + 2>>, s, Marshal)

\* A varint whose last possible byte does not fit into the word is an error.
Uvarint(b, i) ==
    Then(Varint(b, i), LAMBDA v :
        IF v[2] - i = MaxVarint /\ b[v[2] - 1] >= 2^(WordBits - 7 * (MaxVarint - 1)) THEN Fail ELSE v)

\* Groups are unknown, the field number may be zero.
ReadValue(b, i, f) ==
    CASE f.wire = 0 -> Then(Uvarint(b, i), LAMBDA v : <<[f EXCEPT !.v = v[1], !.next = v[2]]>>)
      [] f.wire = 1 -> IF i + FixedLen - 1 > Len(b) THEN Fail
                       ELSE <<[f EXCEPT !.v = b[i] + 256 * b[i + 1], !.next = i + FixedLen]>>
      [] f.wire = 2 -> Then(Uvarint(b, i), LAMBDA n :
                          IF n[2] + n[1] - 1 > Len(b) THEN Fail
                          ELSE <<[f EXCEPT !.d = SubSeq(b, n[2], n[2] + n[1] - 1), !.next = n[2] + n[1]]>>)
      [] f.wire = 5 -> IF i + (FixedLen \div 2) - 1 > Len(b) THEN Fail
                       ELSE <<[f EXCEPT !.v = b[i], !.next = i + (FixedLen \div 2)]>>
      [] OTHER      -> Fail

NextField(b, i) ==
    Then(Uvarint(b, i), LAMBDA tag :
        IF tag[1] \div 8 >= HalfWord THEN Fail
        ELSE ReadValue(b, tag[2], [num |-> tag[1] \div 8, wire |-> WireType(tag), v |-> 0, d |-> <<>>,
                                   next |-> i]))

\* The typed getters: the value is of the wire type, and in range.
IsVarint(f) == f.wire = 0
IsBool(f) == f.wire = 0 /\ f.v \in {0, 1}
IsInt32(f) == f.wire = 0 /\ f.v < HalfWord
IsDouble(f) == f.wire = 1
IsData(f) == f.wire = 2

\* `for len(src) > 0 { fc.NextField; switch fc.FieldNum }': the fields up to the
\* first that cannot be read, and whether there is one.
RECURSIVE Walk(_, _, _)
Walked(b, f, fs) == IF f = Fail THEN [fs |-> fs, err |-> TRUE] ELSE Walk(b, f[1].next, fs \o f)
Walk(b, i, fs) ==
    IF i > Len(b) THEN [fs |-> fs, err |-> FALSE] ELSE Walked(b, NextField(b, i), fs)

\* Step is the switch, and returns <<>> for an error.
StepAll(m, w, Step(_, _)) ==
    IF w.err THEN Fail
    ELSE FoldLeft(LAMBDA acc, f : IF acc = Fail THEN Fail ELSE Step(acc[1], f), <<m>>, w.fs)
Loop(m, b, Step(_, _)) == StepAll(m, Walk(b, 1, <<>>), Step)

\* Set a member if the value can be read, and what to do if it cannot.
Or(ok, m, x, v, else) == IF ok THEN <<[m EXCEPT ![x] = v]>> ELSE else

-----------------------------------------------------------------------------
(* easyproto.go, writing *)

\* Mutant: bytes are not written.
EP_ValWithoutBytes(v) ==
    CASE v = <<>> -> <<>>
      [] v # <<>> /\ v[1] = "I" -> AppendInt(2, v[2])
      [] v # <<>> /\ v[1] = "U" -> AppendInt(3, v[2])
      [] v # <<>> /\ v[1] = "F" -> AppendDouble(4, v[2])
      [] v # <<>> /\ v[1] = "B" -> AppendBool(5, v[2])
      [] v # <<>> /\ v[1] = "S" -> AppendString(11, v[2])
      [] v # <<>> /\ v[1] \in {"A", "D"} -> <<>>

EP_Val(v) ==
    CASE v = <<>> -> <<>>
      [] v # <<>> /\ v[1] = "I" -> AppendInt(2, v[2])
      [] v # <<>> /\ v[1] = "U" -> AppendInt(3, v[2])
      [] v # <<>> /\ v[1] = "F" -> AppendDouble(4, v[2])
      [] v # <<>> /\ v[1] = "B" -> AppendBool(5, v[2])
      [] v # <<>> /\ v[1] = "D" -> AppendString(6, FlattenSeq(v[2]))
      [] v # <<>> /\ v[1] = "S" -> AppendString(11, v[2])
      [] v # <<>> /\ v[1] = "A" -> <<>>

EP_Field(kv) ==
    AppendString(1, kv.Key) \o EP_Val(kv.Val) \o AppendBool(8, kv.IsTag)
    \o AppendInt(9, kv.Type % HalfWord) \o AppendString(10, kv.Unit)
    \o AppendString(12, kv.Description)

EP_Warn(w) == AppendString(1, w.Type) \o AppendString(2, w.Msg)
EP_Debug(d) == AppendString(1, d.Info)

marshalPoint(pt) ==
    AppendString(1, pt.Name) \o AppendMessages(2, pt.Fields, EP_Field) \o AppendInt(3, pt.Time)
    \o AppendMessages(4, pt.Warns, EP_Warn) \o AppendMessages(5, pt.Debugs, EP_Debug)

\* pts: <<>> is a nil point
marshalPoints(pts, dst) == dst \o AppendMessages(1, FlattenSeq(pts), marshalPoint)

AppendPointToPBPointsPayload(dst, pt) == marshalPoints(<<pt>>, dst)

-----------------------------------------------------------------------------
(* easyproto.go, reading *)

unmarshalWarn(b) ==
    Loop([Type |-> <<>>, Msg |-> <<>>], b, LAMBDA m, f :
        CASE f.num = 1 -> Or(IsData(f), m, "Type", f.d, <<m>>)
          [] f.num = 2 -> Or(IsData(f), m, "Msg", f.d, <<m>>)
          [] OTHER     -> <<m>>)

unmarshalDebug(b) ==
    Loop([Info |-> <<>>], b, LAMBDA m, f :
        IF f.num = 1 THEN Or(IsData(f), m, "Info", f.d, <<m>>) ELSE <<m>>)

\* A value of the wrong wire type is passed over.  NewKV takes the key that was
\* read before the value.
FieldValue(m, f) ==
    LET kv(name, v) == <<NewKV(m.key, <<name, v>>)>>
    IN  CASE f.num = 2  -> Or(IsVarint(f), m, "f", kv("I", f.v), <<m>>)
          [] f.num = 3  -> Or(IsVarint(f), m, "f", kv("U", f.v), <<m>>)
          [] f.num = 4  -> Or(IsDouble(f), m, "f", kv("F", f.v), <<m>>)
          [] f.num = 5  -> Or(IsBool(f), m, "f", kv("B", f.v = 1), <<m>>)
          [] f.num = 6  -> Or(IsData(f), m, "f", kv("D", <<f.d>>), <<m>>)
          [] f.num = 11 -> Or(IsData(f), m, "f", kv("S", f.d), <<m>>)

\* Mutant: a tag is read as a field.
CompletedAsField(r) ==
    <<[j \in 1..Len(r.f) |-> [r.f[j] EXCEPT !.Unit = r.unit, !.Description = r.desc, !.Type = r.type]]>>

\* <<kv>> with kv <<>> for nil, or Fail
Completed(r) ==
    <<[j \in 1..Len(r.f) |-> [r.f[j] EXCEPT !.Unit = r.unit, !.Description = r.desc, !.Type = r.type,
                                            !.IsTag = r.isTag]]>>
ReadField(b) ==
    Loop([key |-> <<>>, unit |-> <<>>, desc |-> <<>>, type |-> 0, isTag |-> FALSE, f |-> <<>>], b,
         LAMBDA m, f :
            CASE f.num = 1  -> Or(IsData(f), m, "key", f.d, Fail)
              [] f.num = 8  -> Or(IsBool(f), m, "isTag", f.v = 1, Fail)
              [] f.num = 9  -> Or(IsInt32(f), m, "type", Int32(f.v), <<m>>)
              [] f.num = 10 -> Or(IsData(f), m, "unit", f.d, <<m>>)
              [] f.num = 12 -> Or(IsData(f), m, "desc", f.d, <<m>>)
              [] f.num \in {2, 3, 4, 5, 6, 11} -> FieldValue(m, f)
              [] OTHER      -> <<m>>)
unmarshalField(b) == Then(ReadField(b), LAMBDA r : Completed(r[1]))

\* Warnings and debug entries that cannot be read are passed over.
Attached(m, x, f, Read(_)) ==
    IF ~ IsData(f) THEN Fail ELSE <<[m EXCEPT ![x] = @ \o Read(f.d)]>>

\* NewPoint checks the point under the default options, and gives it the
\* current time when its own is negative.
ReadPoint(b) ==
    Loop([name |-> <<>>, kvs |-> <<>>, ts |-> 0, warns |-> <<>>, debugs |-> <<>>], b, LAMBDA m, f :
        CASE f.num = 1 -> Or(IsData(f), m, "name", f.d, Fail)
          [] f.num = 2 -> IF ~ IsData(f) THEN Fail
                          ELSE Then(unmarshalField(f.d), LAMBDA kv : <<[m EXCEPT !.kvs = AddKV(@, kv[1])]>>)
          [] f.num = 3 -> Or(IsVarint(f), m, "ts", f.v, Fail)
          [] f.num = 4 -> Attached(m, "warns", f, unmarshalWarn)
          [] f.num = 5 -> Attached(m, "debugs", f, unmarshalDebug)
          [] OTHER     -> <<m>>)
Attach(pt, warns, debugs) == <<[pt EXCEPT !.Warns = warns, !.Debugs = debugs]>>
unmarshalPoint(b, was, pooled, now) ==
    Then(ReadPoint(b), LAMBDA r :
        Attach(NewPoint(r[1].name, r[1].kvs, [timestamp |-> Signed(r[1].ts, Word)], was, pooled, now),
               r[1].warns, r[1].debugs))

\* The raw points of a payload, each passed to the callback, up to the one that
\* stops the walk: fields other than 1 are passed over, and an error after the
\* stop is not met.  The results are those of the callback.
WalkRaw(ours, Read(_)) ==
    FoldLeft(LAMBDA a, f : IF a.end # "" THEN a ELSE IF ~ IsData(f) THEN [a EXCEPT !.end = "err"]
                           ELSE IF Read(f.d) = Fail THEN [a EXCEPT !.end = "stop"]
                           ELSE [a EXCEPT !.read = @ \o Read(f.d)],
             [read |-> <<>>, end |-> ""], ours)
WalkPBPointsPayload(w, Read(_)) ==
    IF w.err THEN [WalkRaw(SelectSeq(w.fs, LAMBDA f : f.num = 1), Read) EXCEPT
                      !.end = IF @ = "" THEN "err" ELSE @]
    ELSE WalkRaw(SelectSeq(w.fs, LAMBDA f : f.num = 1), Read)

\* The error of a point stops the walk, and is then overwritten by the walk's
\* own result, nil.
Unstopped(w) == IF w.end = "err" THEN Fail ELSE <<w.read>>
unmarshalPoints(b, was, pooled, now) ==
    Unstopped(WalkPBPointsPayload(Walk(b, 1, <<>>), LAMBDA d : unmarshalPoint(d, was, pooled, now)))

-----------------------------------------------------------------------------
(* easybatch.go: the points and fields of a batch, and those that are left   *)
(* behind its length for the next one                                        *)

ZeroPoint == [Name |-> <<>>, Fields |-> <<>>, Time |-> 0, Warns |-> <<>>, Debugs |-> <<>>]
ZeroField == NewKV(<<>>, <<>>)

NewBatch == [Points |-> <<>>, sparePoints |-> <<>>, spareFields |-> <<>>]

Reset(bp) ==
    LET fields == FlattenSeq([i \in 1..Len(bp.Points) |-> bp.Points[i].Fields])
    IN  [Points |-> <<>>,
         sparePoints |-> [i \in 1..Len(bp.Points) |->
                          [bp.Points[i] EXCEPT !.Name = <<>>, !.Fields = <<>>, !.Time = 0]]
                         \o bp.sparePoints,
         spareFields |-> [i \in 1..Len(fields) |-> clearKV([fields[i] EXCEPT !.Val = <<>>])]
                         \o bp.spareFields]

Val(x, ok, name, v) == IF ok THEN <<[x EXCEPT !.Val = <<name, v>>]>> ELSE Fail
BatchField(m, b) ==
    Loop(m, b, LAMBDA x, f :
        CASE f.num = 1  -> Or(IsData(f), x, "Key", f.d, Fail)
          [] f.num = 2  -> Val(x, IsVarint(f), "I", f.v)
          [] f.num = 3  -> Val(x, IsVarint(f), "U", f.v)
          [] f.num = 4  -> Val(x, IsDouble(f), "F", f.v)
          [] f.num = 5  -> Val(x, IsBool(f), "B", f.v = 1)
          [] f.num = 6  -> Val(x, IsData(f), "D", <<f.d>>)
          [] f.num = 8  -> Or(IsBool(f), x, "IsTag", f.v = 1, Fail)
          [] f.num = 9  -> Or(IsInt32(f), x, "Type", Int32(f.v), Fail)
          [] f.num = 10 -> Or(IsData(f), x, "Unit", f.d, Fail)
          [] f.num = 11 -> Val(x, IsData(f), "S", f.d)
          [] f.num = 12 -> Or(IsData(f), x, "Description", f.d, Fail)
          [] OTHER      -> <<x>>)

\* A spare one, or a new one; and those that are left.
Spare(s, zero) == IF s = <<>> THEN zero ELSE Head(s)
Others(s) == IF s = <<>> THEN <<>> ELSE Tail(s)

\* m: the point, and the fields to take from
BatchPoint(m, b) ==
    Loop(m, b, LAMBDA x, f :
        CASE f.num = 1 -> IF IsData(f) THEN <<[x EXCEPT !.pt.Name = f.d]>> ELSE Fail
          [] f.num = 2 -> IF ~ IsData(f) THEN Fail
                          ELSE Then(BatchField(Spare(x.spare, ZeroField), f.d), LAMBDA kv :
                                    <<[pt |-> [x.pt EXCEPT !.Fields = @ \o kv], spare |-> Others(x.spare)]>>)
          [] f.num = 3 -> IF IsVarint(f) THEN <<[x EXCEPT !.pt.Time = f.v]>> ELSE Fail
          [] OTHER     -> <<x>>)

BatchUnmarshal(bp, b) ==
    Loop(bp, b, LAMBDA x, f :
        IF f.num # 1 \/ ~ IsData(f) THEN Fail
        ELSE Then(BatchPoint([pt |-> Spare(x.sparePoints, ZeroPoint), spare |-> x.spareFields], f.d), LAMBDA r :
                  <<[Points |-> Append(x.Points, r[1].pt), spareFields |-> r[1].spare,
                     sparePoints |-> Others(x.sparePoints)]>>))

=============================================================================
