--------------------------- MODULE PointPipeline ----------------------------
(***************************************************************************)
(* A point from its Go values to the reader at the other end: NewPoint and *)
(* its check, the encoder (whole batches or the iterator with a buffer),   *)
(* payloads that points are appended to on the way, and the readers: the   *)
(* generated code, easyproto, and recycled batches of points.              *)
(***************************************************************************)
EXTENDS PointEncoder

CONSTANTS
    Inputs,         \* [name, kvs: <<key, Go value, tag?>>, opts, old: NewPointDeprecated?]
    Encoders,       \* the encoder options, [enc, approxsize, ignoreLargePoint, size, iterate, recycled]
    DecodeOptions,  \* options of the readers
    MaxPoints,      \* bound: points, appended ones included
    Pooled,         \* whether a point pool is set
    Now             \* the clock

VARIABLES
    made,           \* the inputs, <<>> for a nil point
    pts,            \* the points, <<>> or <<pt>>
    e,              \* the encoder
    size,           \* the length of the iterator's buffer, 0 for none
    out,            \* the payloads
    phase,          \* "make", "encode", "sent", "read"
    bp,             \* the recycled batch of points
    got,            \* <<>>, or <<reader, result, options, keySorted of its cfg>>
    cfgPool         \* the keySorted that the last user of a cfg left in the pool

vars == <<made, pts, e, size, out, phase, bp, got, cfgPool>>

\* What a user of the pool finds: the pool may have been emptied.
Left == {FALSE, cfgPool}
Put(was, opts) == cfgPool' = GetCfg(was, opts).keySorted

KVsOf(in) ==
    [i \in 1..Len(in.kvs) |->
        LET kv == NewKV(in.kvs[i][1], newVal(in.kvs[i][2]))
        IN  IF in.kvs[i][3] THEN WithKVTagSet(kv) ELSE kv]

\* <<pt>>, <<>> for an error
Pair(kv) == <<kv.Key, IF kv.IsTag THEN kv.Val[2] ELSE kv.Val>>
Pairs(kvs) == [i \in 1..Len(kvs) |-> Pair(kvs[i])]
BuiltOf(in, kvs, was) ==
    IF in.old
    THEN NewPointDeprecated(in.name, Pairs(Tags(kvs)), Pairs(KVFields(kvs)), in.opts, was, Pooled, Now)
    ELSE <<NewPoint(in.name, kvs, in.opts, was, Pooled, Now)>>
Built(in, was) == BuiltOf(in, KVsOf(in), was)

Init ==
    /\ made = <<>> /\ pts = <<>> /\ e = newEncoder /\ size = 0 /\ out = <<>> /\ phase = "make"
    /\ bp = NewBatch /\ got = <<>> /\ cfgPool = FALSE

Make(in) ==
    /\ phase = "make" /\ Len(pts) < MaxPoints
    /\ made' = Append(made, <<in>>)
    /\ \E was \in Left : \E p \in {Built(in, was)} :
         p # Fail /\ pts' = Append(pts, p) /\ Put(was, in.opts)
    /\ UNCHANGED <<e, size, out, phase, bp, got>>

MakeNil ==
    /\ phase = "make" /\ Len(pts) < MaxPoints
    /\ made' = Append(made, <<>>)
    /\ pts' = Append(pts, <<>>)
    /\ UNCHANGED <<e, size, out, phase, bp, got, cfgPool>>

\* CheckPoints gives the points new warnings.
Recheck ==
    /\ phase = "make" /\ pts # <<>> /\ \A i \in 1..Len(pts) : pts[i] # <<>>
    /\ \E new \in {CheckPoints(FlattenSeq(pts), <<>>, Pooled)} :
         pts' = [i \in 1..Len(pts) |-> <<new[i]>>]
    /\ UNCHANGED <<made, e, size, out, phase, bp, got, cfgPool>>

Getter(o) ==
    [(IF o.recycled THEN encoderReset(newEncoder) ELSE newEncoder) EXCEPT
        !.enc = o.enc, !.approxsize = o.approxsize, !.ignoreLargePoint = o.ignoreLargePoint]

\* Encode dereferences every point: no nil points there.
EncodeAll(o) ==
    LET enc == [Getter(o) EXCEPT !.batchSize = o.size]
    IN  /\ phase = "make" /\ ~ o.iterate /\ \A i \in 1..Len(pts) : pts[i] # <<>>
        /\ e' = enc
        /\ out' = doEncode(enc, FlattenSeq(pts), FALSE)[1]
        /\ phase' = "sent"
        /\ UNCHANGED <<made, pts, size, bp, got, cfgPool>>

StartIterator(o) ==
    /\ phase = "make" /\ o.iterate
    /\ e' = EncodeV2(Getter(o), pts)
    /\ size' = o.size
    /\ phase' = "encode"
    /\ UNCHANGED <<made, pts, out, bp, got, cfgPool>>

\* for { buf, ok := enc.Next(buf); if !ok { break } }
Iterate(fnFails) ==
    /\ phase = "encode"
    /\ \E r \in {EncoderNext(e, size, fnFails)} :
         /\ e' = r.e
         /\ out' = out \o r.out
         /\ phase' = IF r.panic THEN "panic" ELSE IF r.out = <<>> THEN "sent" ELSE phase
    /\ UNCHANGED <<made, pts, size, bp, got, cfgPool>>

\* Another process appends a point of its own to the last payload.
AppendPoint(in) ==
    /\ phase = "sent" /\ e.enc = "pb" /\ out # <<>> /\ Len(made) < MaxPoints
    /\ made' = Append(made, <<in>>)
    /\ \E was \in Left : \E p \in {Built(in, was)} :
         /\ p # Fail /\ out' = [out EXCEPT ![Len(out)] = AppendPointToPBPointsPayload(@, p)]
         /\ Put(was, in.opts)
    /\ UNCHANGED <<pts, e, size, phase, bp, got>>

Payload == FlattenSeq(out)

ReadDecoder(dec, opts) ==
    /\ phase = "sent" /\ (dec = "lp" <=> e.enc = "lp")
    /\ \E was \in Left :
         got' = <<dec, Decode(Payload, dec, opts, was, Pooled, Now), opts, was>> /\ Put(was, opts)
    /\ phase' = "read"
    /\ UNCHANGED <<made, pts, e, size, out, bp>>

\* Points that come as messages of another package.
ReadFromPB ==
    /\ phase = "sent" /\ e.enc = "pb"
    /\ \E was \in Left : \E m \in {PBPoints_Unmarshal(Payload)[1].Arr} :
         /\ got' = <<"frompb", <<[i \in 1..Len(m) |-> FromPB(m[i], was, Pooled, Now)]>>, <<>>, was>>
         /\ Put(was, <<>>)
    /\ phase' = "read"
    /\ UNCHANGED <<made, pts, e, size, out, bp>>

ReadPB2LP ==
    /\ phase = "sent" /\ e.enc = "pb"
    /\ \E was \in Left :
         got' = <<"pb2lp", PB2LP(Payload, was, Pooled, Now), <<>>, was>> /\ Put(was, <<>>)
    /\ phase' = "read"
    /\ UNCHANGED <<made, pts, e, size, out, bp>>

\* A batch reads one payload, and after its Reset all of them.
ReadBatch ==
    /\ phase = "sent" /\ e.enc = "pb" /\ out # <<>> /\ bp = NewBatch
    /\ bp' = BatchUnmarshal(bp, Last(out))[1]
    /\ UNCHANGED <<made, pts, e, size, out, phase, got, cfgPool>>

ReadBatchAgain ==
    /\ phase = "sent" /\ bp # NewBatch
    /\ got' = <<"batch", BatchUnmarshal(Reset(bp), Payload), <<>>, FALSE>>
    /\ phase' = "read"
    /\ UNCHANGED <<made, pts, e, size, out, bp, cfgPool>>

Next ==
    \/ \E in \in Inputs : Make(in) \/ AppendPoint(in)
    \/ MakeNil
    \/ Recheck
    \/ \E o \in Encoders : EncodeAll(o) \/ StartIterator(o)
    \/ \E fnFails \in BOOLEAN : Iterate(fnFails)
    \/ \E dec \in {"pb", "easyproto", "lp"}, opts \in DecodeOptions : ReadDecoder(dec, opts)
    \/ ReadFromPB
    \/ ReadPB2LP
    \/ ReadBatch
    \/ ReadBatchAgain

Spec == Init /\ [][Next]_vars

-----------------------------------------------------------------------------
(* Properties *)

\* The points that the payloads hold.
Encoded == PBPoints_Unmarshal(Payload)[1].Arr

\* What the check stands for; `again' is the point after a second check.
Acceptable(c, p, again) ==
    LET fs == p.Fields
        Fits(k, max) == max = 0 \/ Len(k) <= max
    IN  c.precheck =>
        /\ \A j, k \in 1..Len(fs) : fs[j].Key = fs[k].Key => j = k
        /\ \A j \in 1..Len(fs) :
             /\ fs[j].Key # <<>> /\ fs[j].Key \notin c.disabledKeys
             /\ Fits(fs[j].Key, IF fs[j].IsTag THEN c.maxTagKeyLen ELSE c.maxFieldKeyLen)
             /\ Newline \notin Range(fs[j].Key) /\ Last(fs[j].Key) # Backslash
             /\ c.enableDotInKey \/ Dot \notin Range(fs[j].Key)
        /\ c.maxFields > 0 => Len(KVFields(fs)) <= c.maxFields + Len(c.requiredKeys)
        /\ c.maxTags > 0 => Len(Tags(fs)) <= c.maxTags + Len(c.extraTags)
        /\ p.Name # <<>> /\ Len(p.Name) <= c.maxMeasurementLen
        /\ \A j \in 1..Len(fs) : Has(again.Fields, fs[j].Key)
AcceptableUnder(c, p) == Acceptable(c, p, check(c, p, FALSE).pt)

\* NewPoint's result is a point that its own check accepts: keys that are not
\* empty, differ, are not disabled, and fit, no more of them than the options
\* allow, and a second check renames and drops nothing.
CheckedPoints ==
    phase = "make" => \A i \in 1..Len(pts) : pts[i] # <<>> =>
        AcceptableUnder(GetCfg(FALSE, made[i][1].opts), pts[i][1])

\* Some of the points, in their order, as many as the encoder counted.
InOrder(sent) ==
    /\ ~ e.lastErr => Len(sent) = e.totalPts
    /\ \E where \in SUBSET (1..Len(pts)) :
         /\ \A i \in where : pts[i] # <<>>
         /\ sent = [k \in 1..Cardinality(where) |->
                        pts[CHOOSE i \in where : Cardinality({j \in where : j <= i}) = k][1]]

\* The iterator's payloads hold the points in their order, each at most once,
\* and the counters tell how many: a point that was trimmed off one buffer is
\* not written twice, and no buffer is overrun.
EncodedInOrder ==
    size > 0 /\ e.enc = "pb" /\ Len(made) = Len(pts) /\ phase # "read" =>
        InOrder(Encoded) /\ \A k \in 1..Len(out) : Len(out[k]) <= size

Wide(t) == IF Member(t) = "none" THEN t ELSE GoType[Member(t)]
WideSlice(t) == IF t \in DOMAIN ElementType THEN GoSlice[Member(ElementType[t])] ELSE Wide(t)
\* What a Go value reads as: 64 bits wide, and an empty array as nil.
Widened(gv) ==
    IF gv[1] = "*types.Any" THEN AnyRaw(gv[2])[1]
    ELSE IF gv[1] = "[]any"
    THEN IF EnableMixedArrayField THEN <<"[]any", [i \in 1..Len(gv[2]) |-> <<Wide(gv[2][i][1]), gv[2][i][2]>>]>>
         ELSE IF gv[2] = <<>> THEN <<"nil", <<>>>>
         ELSE <<GoSlice[Member(gv[2][1][1])], [i \in 1..Len(gv[2]) |-> gv[2][i][2]]>>
    ELSE IF gv[1] \in DOMAIN ElementType /\ gv[2] = <<>> THEN <<"nil", <<>>>>
    ELSE <<WideSlice(gv[1]), gv[2]>>

\* A Go value that went into a point without a warning comes out of the decoder
\* as it was, whatever its type; an appended point has lost its arrays.
ValuesKept ==
    got # <<>> /\ got[1] = "pb" /\ got[3] = <<>> /\ size = 0 =>
        LET n == Len(SelectSeq(made, LAMBDA m : m # <<>>))
        IN  /\ got[2] # Fail /\ Len(got[2][1]) = n
            /\ \A i \in 1..n : (\A was \in BOOLEAN : Built(made[i][1], was)[1].Warns = <<>>) =>
                 \A j \in 1..Len(made[i][1].kvs) :
                   LET kv == made[i][1].kvs[j]
                       lost == i > n - (Len(made) - Len(pts)) /\ newVal(kv[2])[1] = "A"
                   IN  kv[2][1] # "nil" => Get(got[2][1][i], kv[1]) =
                                           IF lost THEN <<"nil", <<>>>> ELSE Widened(kv[2])

\* What the readers that use easyproto do not read: the decoder drops the
\* key-values of an array, a batch keeps them without a value, and has no
\* warnings.
NoArrays(p) == [p EXCEPT !.Fields = SelectSeq(@, LAMBDA kv : kv.Val # <<>> /\ kv.Val[1] # "A")]
Valueless(p) ==
    [p EXCEPT !.Fields = [i \in 1..Len(@) |-> IF @[i].Val # <<>> /\ @[i].Val[1] = "A"
                                              THEN [@[i] EXCEPT !.Val = <<>>] ELSE @[i]],
              !.Warns = <<>>, !.Debugs = <<>>]

\* The check of the readers, under the default options, leaves the point alone.
Accepted(p) == check(newCfg, p, FALSE).pt = p

\* What was read is what Seen makes of what was sent.
Agree(sent, read, Seen(_)) ==
    /\ Len(read) = Len(sent)
    /\ \A i \in 1..Len(read) : Accepted(sent[i]) => read[i] = Seen(sent[i])

\* The order that NewPoint gives the key-values when the cfg that it finds in the
\* pool was last used to sort.
InOrderOf(was, p) == IF was THEN [p EXCEPT !.Fields = Sorted(@)] ELSE p

\* All readers agree on every payload, whether it was written by the
\* generated code or appended to by easyproto: the same number of points, in
\* the same order, and the same points where the default options accept them.
\* Their key-values are in the order of the sender, unless the reader passes
\* NewPoint and gets a cfg whose last user sorted them: keySorted is not reset
\* (option.go:88), so those readers, and no other, sort them too.
ReadersAgree ==
    got # <<>> /\ got[3] = <<>> /\ got[1] \in {"pb", "easyproto", "frompb", "batch"} =>
        /\ got[2] # Fail
        /\ Agree(Encoded, IF got[1] = "batch" THEN got[2][1].Points ELSE got[2][1],
                 LAMBDA p : CASE got[1] = "pb" -> p
                              [] got[1] = "frompb" -> InOrderOf(got[4], p)
                              [] got[1] = "easyproto" -> InOrderOf(got[4], NoArrays(p))
                              [] got[1] = "batch" -> Valueless(p))

\* What a line keeps of a point.
Content(p) == <<p.Name, p.Time, {<<kv.Key, kv.IsTag, Raw(kv)>> : kv \in Range(p.Fields)}>>

\* The points that have a line, and what was read of them.
Valued(p) == \A j \in 1..Len(p.Fields) : p.Fields[j].Val # <<>>
ReadAs(lined, read) ==
    IF lined = <<>> \/ \E i \in 1..Len(Payload) : Payload[i].malformed THEN read = Fail
    ELSE /\ Len(read[1]) = Len(lined)
         /\ \A i \in 1..Len(lined) :
              Accepted(lined[i]) /\ Valued(lined[i]) => Content(read[1][i]) = Content(lined[i])

\* Of the points that have a line the line protocol keeps all, unless one of
\* them has a nil field: then none of the payload is read.
LinesRead ==
    got # <<>> /\ got[1] = "lp" /\ got[3] = <<>> /\ size = 0 =>
        ReadAs(SelectSeq(FlattenSeq(pts), LAMBDA p : LPPoint(p) # Fail), got[2])

\* For times from base ms to base s after the epoch the dynamic precision
\* finds the unit that the sender used.
DynamicFindsUnit ==
    got # <<>> /\ got[1] = "pb" /\ "callback" \notin DOMAIN got[3] =>
        LET sent == Encoded
            unit == IF "precision" \in DOMAIN got[3] THEN got[3].precision ELSE "ns"
        IN  unit # "dyn" => \A i \in 1..Len(sent) :
              LET ns == sent[i].Time * (IF unit = "ns" THEN 1 ELSE Units[unit])
              IN  ns >= Units.base * Units.ms /\ ns < Units.base * Units.s =>
                    got[2][1][i].Time = detectTimestampPrecision(sent[i].Time)

\* Points that differ in nothing have the same ID, and Equal does not depend on
\* which of the two is asked.
EqualSameID ==
    phase = "make" => \A i, j \in 1..Len(pts) : pts[i] # <<>> /\ pts[j] # <<>> =>
        LET p == pts[i][1]
            x == pts[j][1]
        IN  /\ PointEqual(p, x, TRUE, {}) => hashstr(p) = hashstr(x)
            /\ PointEqual(p, x, TRUE, {}) <=> PointEqual(x, p, TRUE, {})

\* What NewPoint makes is acceptable, and equal points have one ID.
PointsMade == CheckedPoints /\ EqualSameID

\* What was sent is what is read: by every reader of a binary payload, from lines,
\* and with the time of the sender's unit.
PayloadsRead == ReadersAgree /\ LinesRead /\ DynamicFindsUnit

=============================================================================
