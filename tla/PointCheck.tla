----------------------------- MODULE PointCheck -----------------------------
(***************************************************************************)
(* Building and checking a point: the key-values of kvs.go, the options of *)
(* option.go, the checker of check.go and doNewPoint of new_point.go.      *)
(*                                                                         *)
(* A point and its key-values are the records of PointMessages.  The text  *)
(* of a warning is its type.  `pooled' says that a point pool is set: what *)
(* one goroutine sees of it, PointPool has the interleavings.              *)
(***************************************************************************)
EXTENDS PointMessages, TLC

CONSTANTS
    Limits,         \* the default limits, scaled: a record of the max* options
    WideKVs         \* KEY_CONFLICT_MAP_THRESHOLD, scaled

Warning(t) == [Type |-> t, Msg |-> t]

WarnInvalidMeasurement == <<1>>
WarnMaxFields == <<2>>
WarnMaxKeyLen == <<3>>
WarnInvalidKey == <<4>>
WarnDisabled == <<5>>
WarnConflict == <<6>>
WarnValue == <<7>>
WarnNilField == <<8>>
WarnAddRequired == <<9>>

DefaultMeasurementName == <<95>>

Backslash == 92
Newline == 10
Space == 32
Dot == 46
Underscore == 95

-----------------------------------------------------------------------------
(* Options *)

\* keySorted is not among what reset assigns: it stays as the last user of the
\* pooled record left it.
cfgReset(c) ==
    Limits @@ [callback |-> <<>>, disabledKeys |-> {}, extraTags |-> <<>>, requiredKeys |-> <<>>,
               timestamp |-> -1, precision |-> "ns", precheck |-> TRUE, enableDotInKey |-> TRUE,
               enableStrField |-> TRUE, enableU64Field |-> TRUE, keySorted |-> c.keySorted]

newCfg == cfgReset([keySorted |-> FALSE])

\* An option overrides some of the members.  `was' is the keySorted of the record
\* in the pool, FALSE if the pool is empty: a goroutine gets back what it put.
GetCfg(was, opts) == opts @@ cfgReset([keySorted |-> was])

-----------------------------------------------------------------------------
(* Key-values *)

NewKV(k, val) == [Key |-> k, Val |-> val, IsTag |-> FALSE, Type |-> 0, Unit |-> <<>>,
                  Description |-> <<>>]

WithKVTagSet(kv) == IF kv.Val = <<>> THEN kv ELSE [kv EXCEPT !.IsTag = @ \/ kv.Val[1] = "S"]

clearKV(kv) == NewKV(<<>>, kv.Val)

resetKV(kv) ==
    LET zero == CASE kv.Val = <<>> -> <<>>
                  [] kv.Val # <<>> /\ kv.Val[1] \in {"I", "U", "F"} -> <<kv.Val[1], 0>>
                  [] kv.Val # <<>> /\ kv.Val[1] = "B" -> <<"B", FALSE>>
                  [] kv.Val # <<>> /\ kv.Val[1] = "S" -> <<"S", <<>>>>
                  [] kv.Val # <<>> /\ kv.Val[1] = "D" -> <<"D", <<<<>>>>>>
                  [] kv.Val # <<>> /\ kv.Val[1] = "A" -> <<"A", <<[TypeUrl |-> <<>>, Value |-> <<>>]>>>>
    IN  [kv EXCEPT !.Val = zero]

Has(x, k) == \E i \in 1..Len(x) : x[i].Key = k

Tags(x) == SelectSeq(x, LAMBDA kv : kv.IsTag)
KVFields(x) == SelectSeq(x, LAMBDA kv : ~ kv.IsTag)

\* The first n elements that satisfy P stay, and all that do not.
Trim(x, n, P(_)) ==
    SelectSeq([i \in 1..Len(x) |-> <<i, x[i]>>],
              LAMBDA e : ~ P(e[2]) \/ Cardinality({j \in 1..e[1] : P(x[j])}) <= n)
Values(s) == [i \in 1..Len(s) |-> s[i][2]]
TrimFields(x, n) == IF Len(x) <= n THEN x ELSE Values(Trim(x, n, LAMBDA kv : ~ kv.IsTag))
TrimTags(x, n) == Values(Trim(x, n, LAMBDA kv : kv.IsTag))

\* A deleted element is replaced by the last one, which is looked at next.
RECURSIVE DelFrom(_, _, _)
DelFrom(x, i, k) ==
    IF i > Len(x) THEN x
    ELSE IF x[i].Key # k THEN DelFrom(x, i + 1, k)
    ELSE DelFrom(Front([x EXCEPT ![i] = Last(x)]), i, k)
Del(x, k) == DelFrom(x, 1, k)

\* kv is <<>> (nil) or <<kv>>: Set and SetKV override the first one with the
\* key, Add and AddKV leave it.
SetKV(x, kv) ==
    IF kv = <<>> THEN x
    ELSE IF ~ Has(x, kv[1].Key) THEN x \o kv
    ELSE LET i == CHOOSE i \in 1..Len(x) : x[i].Key = kv[1].Key
                                          /\ \A j \in 1..i - 1 : x[j].Key # kv[1].Key
         IN  [x EXCEPT ![i] = kv[1]]
AddKV(x, kv) ==
    IF kv = <<>> THEN x ELSE IF Has(x, kv[1].Key) THEN x ELSE x \o kv

AddTag(x, k, s) == AddKV(x, <<WithKVTagSet(NewKV(k, <<"S", s>>))>>)
SetTag(x, k, s) == SetKV(x, <<WithKVTagSet(NewKV(k, <<"S", s>>))>>)

Less(a, b) ==
    \/ \E n \in 1..Len(a) : n <= Len(b) /\ a[n] < b[n] /\ SubSeq(a, 1, n - 1) = SubSeq(b, 1, n - 1)
    \/ Len(a) < Len(b) /\ SubSeq(b, 1, Len(a)) = a
Sorted(x) == SortSeq(x, LAMBDA a, b : Less(a.Key, b.Key))

-----------------------------------------------------------------------------
(* The checker *)

trimSuffixAll(s, c) ==
    SubSeq(s, 1, CHOOSE n \in 0..Len(s) : /\ n = 0 \/ s[n] # c
                                         /\ \A m \in n + 1..Len(s) : s[m] = c)
adjustKV(s) == ReplaceAll(trimSuffixAll(s, Backslash), Newline, Space)

\* A limit of zero is none.
Truncated(s, max) == IF max > 0 /\ Len(s) > max THEN SubSeq(s, 1, max) ELSE s
Undotted(c, s) == IF c.enableDotInKey THEN s ELSE ReplaceAll(s, Dot, Underscore)

\* A key is given its new form, or its key-value is dropped if that is taken.
RenameTo(s, kvs, new, w) ==
    IF ~ s.ok \/ new = s.f.Key THEN s
    ELSE IF Has(kvs, new)
    THEN [s EXCEPT !.ok = FALSE, !.warns = @ \o <<Warning(w), Warning(WarnInvalidKey)>>]
    ELSE [s EXCEPT !.f.Key = new, !.warns = Append(@, Warning(w))]
Rename(s, kvs, New(_), w) == RenameTo(s, kvs, New(s.f.Key), w)

Drop(s, w) == [s EXCEPT !.ok = FALSE, !.warns = Append(@, Warning(w))]

keyDisabled(c, k) == k = <<>> \/ k \in c.disabledKeys

\* kvs holds the key-value at i under its old key.
keyConflict(kvs, i, k) == \E j \in 1..Len(kvs) : j # i /\ kvs[j].Key = k

CheckKey(s, c, kvs, i, skipKeyConflicts) ==
    IF ~ s.ok THEN s
    ELSE IF keyDisabled(c, s.f.Key) THEN Drop(s, WarnDisabled)
    ELSE IF ~ skipKeyConflicts /\ keyConflict(kvs, i, s.f.Key) THEN Drop(s, WarnConflict)
    ELSE s

\* A value that the check rewrites.
Rewrite(s, val) ==
    IF s.f.Val = val THEN s ELSE [s EXCEPT !.f.Val = val, !.warns = Append(@, Warning(WarnValue))]

RewriteText(s, New(_)) == Rewrite(s, <<"S", New(s.f.Val[2])>>)

\* A key-value whose check begins.
Unchecked(kv) == [f |-> kv, ok |-> TRUE, warns |-> <<>>]

checkTagValue(s, c) ==
    IF ~ s.ok THEN s
    ELSE RewriteText(RewriteText(s, adjustKV), LAMBDA v : Truncated(v, c.maxTagValLen))

checkTag(c, kvs, i, skipKeyConflicts) ==
    LET Short(s) == Rename(s, kvs, LAMBDA k : Truncated(k, c.maxTagKeyLen), WarnMaxKeyLen)
        Plain(s) == Rename(s, kvs, adjustKV, WarnInvalidKey)
        NoDot(s) == Rename(s, kvs, LAMBDA k : Undotted(c, k), WarnInvalidKey)
    IN  checkTagValue(CheckKey(NoDot(Plain(Short(Unchecked(kvs[i])))), c, kvs, i, skipKeyConflicts), c)

\* The infinities become math.MaxUint64 and math.MinInt64: the largest finite
\* double of the scaled word, and minus half of the word.
PosInf == (Word \div 2) - 2^(WordBits - 6)
NegInf == PosInf + (Word \div 2)
MaxUint64 == PosInf - 1
MinInt64 == NegInf - 2 * 2^(WordBits - 6)
Finite(d) == CASE d = PosInf -> MaxUint64 [] d = NegInf -> MinInt64 [] OTHER -> d

\* With a pool the field goes back to it, emptied, before its key and its
\* value are read to make the int64 field.
checkUint(s, c, pooled) ==
    IF c.enableU64Field THEN s
    ELSE IF s.f.Val[2] > (Word \div 2) - 1 THEN Drop(s, WarnValue)
    ELSE IF pooled
    THEN LET f == resetKV(clearKV(s.f)) IN [s EXCEPT !.f = NewKV(f.Key, <<"I", f.Val[2]>>)]
    ELSE [s EXCEPT !.f.Val = <<"I", s.f.Val[2]>>]

checkText(s, c) ==
    IF ~ c.enableStrField THEN Drop(s, WarnValue)
    ELSE Rewrite(s, IF s.f.Val[1] = "S" THEN <<"S", Truncated(s.f.Val[2], c.maxFieldValLen)>>
                    ELSE <<"D", [j \in 1..Len(s.f.Val[2]) |->
                                 Truncated(s.f.Val[2][j], c.maxFieldValLen)]>>)

checkFieldValue(s, c, pooled) ==
    IF ~ s.ok THEN s
    ELSE IF s.f.Val = <<>> THEN [s EXCEPT !.warns = Append(@, Warning(WarnNilField))]
    ELSE CASE s.f.Val[1] = "U" -> checkUint(s, c, pooled)
           [] s.f.Val[1] = "F" -> Rewrite(s, <<"F", Finite(s.f.Val[2])>>)
           [] s.f.Val[1] \in {"B", "I", "A"} -> s
           [] s.f.Val[1] \in {"D", "S"} -> checkText(s, c)

checkField(c, kvs, i, skipKeyConflicts, pooled) ==
    LET Short(s) == Rename(s, kvs, LAMBDA k : Truncated(k, c.maxFieldKeyLen), WarnMaxKeyLen)
        NoDot(s) == Rename(s, kvs, LAMBDA k : Undotted(c, k), WarnInvalidKey)
        Plain(s) == Rename(s, kvs, adjustKV, WarnInvalidKey)
    IN  checkFieldValue(CheckKey(Plain(NoDot(Short(Unchecked(kvs[i])))), c, kvs, i, skipKeyConflicts),
                        c, pooled)

checkKV(c, kvs, i, skipKeyConflicts, pooled) ==
    IF kvs[i].IsTag THEN checkTag(c, kvs, i, skipKeyConflicts)
    ELSE checkField(c, kvs, i, skipKeyConflicts, pooled)

\* Mutant: the keys of a wide point are not looked at.
canSkipWide(kvs) == Len(kvs) >= WideKVs

\* Below the threshold, and for keys that repeat, every key is searched for.
canSkipKeyConflicts(kvs) ==
    Len(kvs) >= WideKVs /\ \A i, j \in 1..Len(kvs) : kvs[i].Key = kvs[j].Key => i = j

\* What is left in its slot of a field that was dropped, or put back to the
\* pool for its conversion.
Slot(c, s, old, pooled) ==
    IF pooled /\ (~ s.ok \/ (~ old.IsTag /\ old.Val # <<>> /\ s.f.Val # <<>>
                             /\ old.Val[1] # s.f.Val[1]))
    THEN resetKV(clearKV(old)) ELSE s.f

\* The kept elements are moved to the front of the array that the next ones
\* are compared with.
Keep(a, i, s, left) ==
    [kvs |-> IF s.ok THEN [left EXCEPT ![a.idx + 1] = s.f] ELSE left,
     idx |-> IF s.ok THEN a.idx + 1 ELSE a.idx, warns |-> a.warns \o s.warns]
CheckEach(c, kvs, skipKeyConflicts, pooled) ==
    LET Next(a, i, s) == Keep(a, i, s, [a.kvs EXCEPT ![i] = Slot(c, s, a.kvs[i], pooled)])
    IN  FoldLeft(LAMBDA a, i : Next(a, i, checkKV(c, a.kvs, i, skipKeyConflicts, pooled)),
                 [kvs |-> kvs, idx |-> 0, warns |-> <<>>], [i \in 1..Len(kvs) |-> i])

CheckAll(c, kvs, pooled) == CheckEach(c, kvs, ~ pooled /\ canSkipKeyConflicts(kvs), pooled)

\* requiredKeys: <<key, default value>>, the value <<>> for none
keyMiss(c, a) ==
    FoldLeft(LAMBDA r, rk : IF Has(r.kvs, rk[1]) \/ rk[2] = <<>> THEN r
                            ELSE [kvs |-> SetKV(r.kvs, <<NewKV(rk[1], rk[2])>>),
                                  warns |-> Append(r.warns, Warning(WarnAddRequired))],
             a, c.requiredKeys)

checkKVs(c, kvs, pooled) ==
    LET manyFields == c.maxFields > 0 /\ Len(KVFields(kvs)) > c.maxFields
        manyTags   == c.maxTags > 0 /\ Len(Tags(kvs)) > c.maxTags
        trimmed == (IF manyFields THEN <<Warning(WarnMaxFields)>> ELSE <<>>)
                   \o (IF manyTags THEN <<Warning(WarnMaxFields)>> ELSE <<>>)
        FewFields(x) == IF manyFields THEN TrimFields(x, c.maxFields) ELSE x
        FewTags(x) == IF manyTags THEN TrimTags(x, c.maxTags) ELSE x
        Kept(a) == keyMiss(c, [kvs |-> SubSeq(a.kvs, 1, a.idx), warns |-> trimmed \o a.warns])
    IN  Kept(CheckAll(c, FewTags(FewFields(kvs)), pooled))

checkMeasurement(c, m) ==
    LET named == IF m = <<>> THEN DefaultMeasurementName ELSE m
        short == Truncated(named, c.maxMeasurementLen)
    IN  [name |-> short,
         warns |-> (IF m = <<>> THEN <<Warning(WarnInvalidMeasurement)>> ELSE <<>>)
                   \o (IF short # named THEN <<Warning(WarnInvalidMeasurement)>> ELSE <<>>)]

\* The point, and the warnings that the checker keeps.
Checked(pt, m, k) ==
    [pt |-> [pt EXCEPT !.Name = m.name, !.Fields = k.kvs, !.Warns = @ \o m.warns \o k.warns],
     warns |-> m.warns \o k.warns]
check(c, pt, pooled) == Checked(pt, checkMeasurement(c, pt.Name), checkKVs(c, pt.Fields, pooled))

-----------------------------------------------------------------------------
(* New points *)

Sort(c, kvs) == IF c.keySorted THEN Sorted(kvs) ELSE kvs

Precheck(c, pt, pooled) == IF c.precheck THEN check(c, pt, pooled).pt ELSE pt
Stamped(pt, c, now) ==
    [pt EXCEPT !.Fields = Sort(c, @), !.Time = IF c.timestamp >= 0 THEN c.timestamp ELSE now]

doNewPoint(name, kvs, c, pooled, now) ==
    LET extended == FoldLeft(LAMBDA x, t : AddTag(x, t.Key, t.Val[2]), kvs, c.extraTags)
        made == [Name |-> name, Fields |-> Sort(c, extended), Time |-> 0, Warns |-> <<>>, Debugs |-> <<>>]
    IN  Stamped(Precheck(c, made, pooled), c, now)

\* Every option but keySorted starts from the defaults.
NewPoint(name, kvs, opts, was, pooled, now) == doNewPoint(name, kvs, GetCfg(was, opts), pooled, now)

NewPointDeprecated(name, tags, fields, opts, was, pooled, now) ==
    IF fields = <<>> THEN Fail
    ELSE <<NewPoint(name, FoldLeft(LAMBDA x, t : SetTag(x, t[1], t[2]),
                                   [i \in 1..Len(fields) |-> NewKV(fields[i][1], fields[i][2])], tags),
                    opts, was, pooled, now)>>

\* The checker's warnings are one slice: a point whose warnings fit into its
\* array overwrites those of the points before, a point with more moves to a
\* larger array.
Overwrite(arr, w) == [j \in 1..Len(arr) |-> IF j <= Len(w) THEN w[j] ELSE arr[j]]
Grown(w) == Overwrite([j \in 1..2^Len64(Len(w) - 1) |-> <<>>], w)
KeepWarns(a, w) ==
    LET n    == Len(a.arrays)
        kept == [a.arrays EXCEPT ![n] = Overwrite(@, w)]
    IN  IF Len(w) <= Len(a.arrays[n])
        THEN [arrays |-> kept, slices |-> Append(a.slices, <<n, Len(w)>>)]
        ELSE [arrays |-> Append(kept, Grown(w)), slices |-> Append(a.slices, <<n + 1, Len(w)>>)]

\* The points of checks, with the warnings that are left in the checker's arrays:
\* those that a point had before are gone.
Rewarned(r, a) ==
    [i \in 1..Len(r) |-> [r[i].pt EXCEPT !.Warns = SubSeq(a.arrays[a.slices[i][1]], 1, a.slices[i][2])]]
AllWarns(r) ==
    FoldLeft(KeepWarns, [arrays |-> <<<<>>>>, slices |-> <<>>], [i \in 1..Len(r) |-> r[i].warns])
WithWarns(r) == Rewarned(r, AllWarns(r))

\* The check does not look at keySorted.
CheckPoints(pts, opts, pooled) ==
    WithWarns([i \in 1..Len(pts) |-> check(GetCfg(FALSE, opts), pts[i], pooled)])

=============================================================================
