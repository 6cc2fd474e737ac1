---------------------------- MODULE PointEncoder ----------------------------
(***************************************************************************)
(* Encoder and Decoder of the point package: encode.go (whole batches),    *)
(* encode_v2.go (an iterator that fills a buffer), decode.go and lp.go.    *)
(*                                                                         *)
(* Points to encode are <<pt>>, <<>> is a nil point.  The line protocol    *)
(* of a point is the influx library's point, not its text: external.       *)
(***************************************************************************)
EXTENDS EasyProto, PointValues

CONSTANT
    Units           \* the factor of every precision, scaled, and "base"

\* The influx library's point: none without a field, with a map or with a NaN.
\* A nil field makes a line that its parser does not accept.
Line(pt, fields, tags) ==
    LET types == {fields[i][2][1] : i \in 1..Len(fields)}
        nan   == \E i \in 1..Len(fields) : fields[i][2][1] = "float64" /\ IsNaN(fields[i][2][2])
    IN  IF fields = <<>> \/ "map" \in types \/ nan THEN Fail
        ELSE <<[name |-> pt.Name, tags |-> [i \in 1..Len(tags) |-> <<tags[i].Key, tags[i].Val[2]>>],
                fields |-> fields, time |-> <<pt.Time>>, malformed |-> "nil" \in types]>>
LPPoint(pt) == Line(pt, InfluxFields(pt.Fields), InfluxTags(pt.Fields))
StringSizeLP(lp) == Len(lp.name) + Len(lp.tags) + Len(lp.fields)

\* Size: an approximation of PBSize.
ValueLen(v) ==
    CASE v = <<>> -> 0
      [] v # <<>> /\ v[1] \in {"I", "F", "U"} -> FixedLen
      [] v # <<>> /\ v[1] = "B" -> 1
      [] v # <<>> /\ v[1] = "D" -> Len(FlattenSeq(v[2]))
      [] v # <<>> /\ v[1] = "S" -> Len(v[2])
      [] v # <<>> /\ v[1] = "A" -> IF v[2] = <<>> THEN 0 ELSE Len(v[2][1].TypeUrl) + Len(v[2][1].Value)
Total(s, Size(_)) == FoldLeft(LAMBDA n, e : n + Size(e), 0, s)
PointSize(pt) ==
    Len(pt.Name)
    + Total(pt.Fields, LAMBDA kv : Len(kv.Key) + 1 + FixedLen + (FixedLen \div 2) + Len(kv.Unit)
                                   + Len(kv.Description) + ValueLen(kv.Val))
    + Total(pt.Warns, LAMBDA w : Len(w.Type) + Len(w.Msg)) + Total(pt.Debugs, LAMBDA d : Len(d.Info))

-----------------------------------------------------------------------------
(* The encoder *)

newEncoder == [pts |-> <<>>, enc |-> "lp", bytesSize |-> 0, batchSize |-> 0, lastPtsIdx |-> 0,
               lastErr |-> FALSE, parts |-> 0, totalPts |-> 0, trimmedPts |-> 0, skippedPts |-> 0,
               totalBytes |-> 0, Arr |-> <<>>, approxsize |-> FALSE, ignoreLargePoint |-> FALSE]

\* A recycled encoder sizes approximately, a new one precisely.
encoderReset(e) == [newEncoder EXCEPT !.approxsize = TRUE]

\* A payload: bytes, or lines without those that cannot be made.
Lines(pts) == FlattenSeq([i \in 1..Len(pts) |-> LPPoint(pts[i])])
getPayload(e, pts) ==
    IF e.enc = "pb" THEN PBPoints_Marshal([Arr |-> pts]) ELSE Lines(pts)

\* A batch ends with the point that makes it full.
Batches(pts, Full(_)) ==
    LET All(r) == IF r.batch = <<>> THEN r.done ELSE Append(r.done, r.batch)
        Put(a, batch) == IF Full(batch) THEN [done |-> Append(a.done, batch), batch |-> <<>>]
                         ELSE [a EXCEPT !.batch = batch]
    IN  All(FoldLeft(LAMBDA a, pt : Put(a, Append(a.batch, pt)), [done |-> <<>>, batch |-> <<>>], pts))

\* fnFails: the error of the callback, which ends the encoding
Payloads(e, batches) == <<[i \in 1..Len(batches) |-> getPayload(e, batches[i])]>>
doEncode(e, pts, fnFails) ==
    IF fnFails /\ pts # <<>> THEN Fail
    ELSE Payloads(e, CASE pts = <<>> -> <<>>
                       [] pts # <<>> /\ e.bytesSize > 0 ->
                            Batches(pts, LAMBDA b : Total(b, PointSize) >= e.bytesSize)
                       [] pts # <<>> /\ e.bytesSize <= 0 /\ e.batchSize > 0 ->
                            Batches(pts, LAMBDA b : Len(b) % e.batchSize = 0)
                       [] OTHER -> <<pts>>)

\* The iterator.  The points that go into a buffer of n bytes; err: the first
\* one does not fit.
RECURSIVE Fill(_, _, _)
FillWith(e, pt, size, curSize, n) ==
    LET next  == [e EXCEPT !.lastPtsIdx = @ + 1]
        skip1 == [next EXCEPT !.skippedPts = @ + 1]
    IN  IF curSize + size <= n
        THEN Fill([next EXCEPT !.Arr = Append(@, pt), !.totalPts = @ + 1], curSize + size, n)
        ELSE IF e.Arr # <<>> THEN [e |-> e, err |-> FALSE]
        ELSE IF e.ignoreLargePoint THEN Fill(skip1, curSize, n)
        ELSE [e |-> skip1, err |-> TRUE]
FillNext(e, p, curSize, n) ==
    IF p = <<>> THEN Fill([e EXCEPT !.lastPtsIdx = @ + 1], curSize, n)
    ELSE FillWith(e, p[1], IF e.approxsize THEN PointSize(p[1]) ELSE PBPoint_Size(p[1]), curSize, n)
Fill(e, curSize, n) ==
    IF e.lastPtsIdx >= Len(e.pts) THEN [e |-> e, err |-> FALSE]
    ELSE FillNext(e, e.pts[e.lastPtsIdx + 1], curSize, n)

\* size: the bytes that the points take, 0 for nothing left, -1 for an error;
\* panic: a slice bound below zero.
RECURSIVE trim(_, _, _)
\* Mutant: trimmed points stay counted.
TrimToCounting(e, size, left, trimmed, n) ==
    IF size < n THEN [e |-> e, size |-> size, panic |-> FALSE]
    ELSE IF Len(e.Arr) = 1
    THEN [e |-> [e EXCEPT !.skippedPts = @ + 1, !.totalPts = @ - 1, !.Arr = <<>>],
          size |-> IF e.ignoreLargePoint THEN 0 ELSE -1, panic |-> FALSE]
    ELSE IF left < 0 THEN [e |-> e, size |-> 0, panic |-> TRUE]
    ELSE trim([e EXCEPT !.Arr = SubSeq(@, 1, left), !.trimmedPts = @ + trimmed,
                        !.lastPtsIdx = @ - trimmed], 2 * trimmed, n)

TrimTo(e, size, left, trimmed, n) ==
    IF size < n THEN [e |-> e, size |-> size, panic |-> FALSE]
    ELSE IF Len(e.Arr) = 1
    THEN [e |-> [e EXCEPT !.skippedPts = @ + 1, !.totalPts = @ - 1, !.Arr = <<>>],
          size |-> IF e.ignoreLargePoint THEN 0 ELSE -1, panic |-> FALSE]
    ELSE IF left < 0 THEN [e |-> e, size |-> 0, panic |-> TRUE]
    ELSE trim([e EXCEPT !.Arr = SubSeq(@, 1, left), !.trimmedPts = @ + trimmed,
                        !.lastPtsIdx = @ - trimmed, !.totalPts = @ - trimmed], 2 * trimmed, n)
trim(e, trimmed, n) ==
    TrimTo(e, PBPoints_Size([Arr |-> e.Arr]), Len(e.Arr) - trimmed, trimmed, n)
tryTrim(e, n) == IF e.Arr = <<>> THEN [e |-> e, size |-> 0, panic |-> FALSE] ELSE trim(e, 1, n)

\* out: <<payload>> with true, <<>> with false
Ended(e, err) == [e |-> [e EXCEPT !.Arr = <<>>, !.lastErr = @ \/ err], out |-> <<>>, panic |-> FALSE]

Part(e, b) ==
    [e |-> [e EXCEPT !.Arr = <<>>, !.parts = @ + 1, !.totalBytes = @ + Len(b)], out |-> <<b>>, panic |-> FALSE]
Trimmed(t, fnFails) ==
    IF t.size <= 0 THEN [Ended(t.e, t.size < 0) EXCEPT !.panic = t.panic]
    ELSE IF fnFails THEN Ended(t.e, TRUE)
    ELSE Part(t.e, PBPoints_Marshal([Arr |-> t.e.Arr]))
Filled(f, n, fnFails) == IF f.err THEN Ended(f.e, TRUE) ELSE Trimmed(tryTrim(f.e, n), fnFails)
doEncodeProtobuf(e, n, fnFails) ==
    IF e.lastErr THEN Ended(e, FALSE) ELSE Filled(Fill(e, 0, n), n, fnFails)

\* The index moves with the points that are written only: not past a nil point
\* or one without a line.
RECURSIVE FillLines(_, _, _, _)
AddLine(e, line, rest, buf, n) ==
    IF line = Fail THEN FillLines([e EXCEPT !.lastErr = TRUE], rest, buf, n)
    ELSE IF Total(buf \o line, LAMBDA lp : StringSizeLP(lp) + 1) > n
    THEN [e |-> e, buf |-> buf, full |-> TRUE]
    ELSE FillLines([e EXCEPT !.lastPtsIdx = @ + 1], rest, buf \o line, n)
FillLines(e, rest, buf, n) ==
    IF rest = <<>> THEN [e |-> e, buf |-> buf, full |-> FALSE]
    ELSE IF Head(rest) = <<>> THEN FillLines(e, Tail(rest), buf, n)
    ELSE AddLine(e, LPPoint(Head(rest)[1]), Tail(rest), buf, n)

\* The last part is counted before its callback, the others after.
FilledLines(f, counted, fnFails) ==
    IF f.buf = <<>> THEN Ended(f.e, f.full)
    ELSE IF fnFails THEN Ended(IF f.full THEN f.e ELSE counted, TRUE)
    ELSE [e |-> counted, out |-> <<f.buf>>, panic |-> FALSE]
CountLines(f, fnFails) == FilledLines(f, [f.e EXCEPT !.parts = @ + 1], fnFails)
doEncodeLineProtocol(e, n, fnFails) ==
    CountLines(FillLines(e, SubSeq(e.pts, e.lastPtsIdx + 1, Len(e.pts)), <<>>, n), fnFails)

EncodeV2(e, pts) == [e EXCEPT !.pts = pts]

\* The JSON encodings have no iterator.
EncoderNext(e, n, fnFails) ==
    CASE e.enc = "pb" -> doEncodeProtobuf(e, n, fnFails)
      [] e.enc = "lp" -> doEncodeLineProtocol(e, n, fnFails)
      [] OTHER -> [e |-> e, out |-> <<>>, panic |-> FALSE]

-----------------------------------------------------------------------------
(* The decoder *)

\* int64 arithmetic on a time
Times(ts, k) == (ts * k) % Word

detectTimestampPrecision(ts) ==
    LET s == Signed(ts, Word)
    IN  CASE s < Units.base -> Times(ts, Units.s)
          [] s >= Units.base /\ s < Units.base * Units.us -> Times(ts, Units.ms)
          [] s >= Units.base * Units.us /\ s < Units.base * Units.ms -> Times(ts, Units.us)
          [] OTHER -> ts

\* Every line passes NewPoint, and with it the check of the default options,
\* before the check of the caller's.
FromModelsLP(lp, was, pooled, now) ==
    NewPoint(lp.name, FoldLeft(LAMBDA x, t : SetTag(x, t[1], t[2]),
                               [i \in 1..Len(lp.fields) |-> NewKV(lp.fields[i][1], newVal(lp.fields[i][2]))],
                               lp.tags),
             [timestamp |-> Signed(lp.time[1], Word)], was, pooled, now)

WithPB(pt, pb) ==
    [pt EXCEPT !.Warns = IF pb.Warns # <<>> THEN pb.Warns ELSE @,
               !.Debugs = IF pb.Debugs # <<>> THEN pb.Debugs ELSE @]
FromPB(pb, was, pooled, now) ==
    WithPB(NewPoint(pb.Name, pb.Fields, [timestamp |-> Signed(pb.Time, Word)], was, pooled, now), pb)

\* Lines without a time have the default one, which FromModelsLP takes for none
\* when it is the default's default.
Tagged(lp, extra, ptTime) ==
    [lp EXCEPT
        !.time = IF @ = <<>> THEN <<ptTime>> ELSE @,
        !.tags = @ \o SelectSeq(extra, LAMBDA t : \A j \in 1..Len(lp.tags) : lp.tags[j][1] # t[1])]
SortFields(c, pt) == [pt EXCEPT !.Fields = Sort(c, @)]

ParseLines(lps, c, extra, ptTime, was, pooled, now) ==
    [i \in 1..Len(lps) |->
        check(c, SortFields(c, FromModelsLP(Tagged(lps[i], extra, ptTime), was, pooled, now)), pooled)]
SortAll(c, pts) == <<[i \in 1..Len(pts) |-> SortFields(c, pts[i])]>>

parseLPPoints(lps, c, was, pooled, now) ==
    LET ptTime == IF c.timestamp = 0 THEN now ELSE c.timestamp % Word
        extra  == [i \in 1..Len(c.extraTags) |-> <<c.extraTags[i].Key, c.extraTags[i].Val[2]>>]
    IN  IF lps = <<>> \/ \E i \in 1..Len(lps) : lps[i].malformed THEN Fail
        ELSE SortAll(c, WithWarns(ParseLines(lps, c, extra, ptTime, was, pooled, now)))

\* dec: "pb", "easyproto" or "lp"
doDecode(data, dec, c, was, pooled, now) ==
    CASE dec = "easyproto" -> unmarshalPoints(data, was, pooled, now)
      [] dec = "pb" -> Then(PBPoints_Unmarshal(data), LAMBDA m : <<m[1].Arr>>)
      [] dec = "lp" -> parseLPPoints(data, c, was, pooled, now)

\* The default timestamp, -1, is not the 0 that stands for the current time.
adjustTime(c, ts, now) ==
    IF ts = 0 THEN (IF c.timestamp = 0 THEN now ELSE c.timestamp % Word)
    ELSE CASE c.precision = "dyn" -> detectTimestampPrecision(ts)
           [] c.precision \in {"us", "ms", "s", "m", "h"} -> Times(ts, Units[c.precision])
           [] OTHER -> ts

\* callback: <<>>, or the measurements that it keeps and those it fails on.  If
\* it keeps none, all the points are kept.
Kept(c, pts) == SelectSeq(pts, LAMBDA pt : pt.Name \in c.callback[1])
Called(c, pts, kept) ==
    IF \E i \in 1..Len(pts) : pts[i].Name \in c.callback[2] THEN Fail
    ELSE IF kept = <<>> THEN <<pts>> ELSE <<kept>>
CallBack(c, pts) == IF c.callback = <<>> THEN <<pts>> ELSE Called(c, pts, Kept(c, pts))
AdjustTime(c, pt, now) == [pt EXCEPT !.Time = adjustTime(c, @, now)]
decodeAdjustPoints(pts, c, pooled, now) ==
    CallBack(c, [i \in 1..Len(pts) |-> Precheck(c, AdjustTime(c, pts[i], now), pooled)])

DecodeAs(data, dec, c, was, pooled, now) ==
    Then(doDecode(data, dec, c, was, pooled, now), LAMBDA r : decodeAdjustPoints(r[1], c, pooled, now))
Decode(data, dec, opts, was, pooled, now) == DecodeAs(data, dec, GetCfg(was, opts), was, pooled, now)

\* A payload of no points has no first batch.
FirstOf(arr) == IF arr = <<>> THEN Panic ELSE <<arr[1]>>
PB2LP(pb, was, pooled, now) ==
    Then(Decode(pb, "pb", <<>>, was, pooled, now), LAMBDA r : FirstOf(doEncode(newEncoder, r[1], FALSE)[1]))

=============================================================================
