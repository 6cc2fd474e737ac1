-------------------------------- MODULE Wire --------------------------------
(***************************************************************************)
(* The protobuf wire format as the generated code of point/point.pb.go and *)
(* its siblings reads and writes it: varints, tags, length-delimited data, *)
(* the skipping of unknown fields, and what every generated Marshal, Size, *)
(* Unmarshal and Equal does with one field.                                *)
(*                                                                         *)
(* A machine word has WordBits bits (64 in Go); int32 and a fixed32 have   *)
(* half of them.  Integers are the unsigned image of the word, doubles are *)
(* its bit pattern.  A string or a []byte is a sequence of bytes.  A       *)
(* function that may fail returns <<>> when the code returns an error.     *)
(***************************************************************************)
EXTENDS Integers, Sequences, SequencesExt

CONSTANT WordBits

Word == 2^WordBits
HalfWord == 2^(WordBits \div 2)
FixedLen == WordBits \div 8
MaxVarint == (WordBits + 6) \div 7

Fail == <<>>

Signed(v, modulus) == IF v < modulus \div 2 THEN v ELSE v - modulus

\* Mutant: the sign is lost.
Int32Unsigned(v) == v % HalfWord

Int32(v) == LET s == Signed(v % HalfWord, HalfWord) IN IF s < 0 THEN s + Word ELSE s

-----------------------------------------------------------------------------
(* Writing *)

RECURSIVE Len64(_)
Len64(x) == IF x = 0 THEN 0 ELSE 1 + Len64(x \div 2)

sov(x) == (Len64(IF x % 2 = 0 THEN x + 1 ELSE x) + 6) \div 7

RECURSIVE encodeVarint(_)
encodeVarint(v) == IF v < 128 THEN <<v>> ELSE <<(v % 128) + 128>> \o encodeVarint(v \div 128)

Fixed64(v) == [i \in 1..FixedLen |-> (v \div 256^(i - 1)) % 256]
Bytes(tag, b) == tag \o encodeVarint(Len(b)) \o b

\* One field: nothing is written for a zero value.
PutString(tag, s) == IF s = <<>> THEN <<>> ELSE Bytes(tag, s)
PutVarint(tag, v) == IF v = 0 THEN <<>> ELSE tag \o encodeVarint(v)
PutBool(tag, b) == IF b THEN tag \o <<1>> ELSE <<>>
PutAll(tag, s, Marshal(_)) == FlattenSeq([i \in 1..Len(s) |-> Bytes(tag, Marshal(s[i]))])
PutDoubles(tag, s) ==
    IF s = <<>> THEN <<>> ELSE Bytes(tag, FlattenSeq([i \in 1..Len(s) |-> Fixed64(s[i])]))

\* The size of one field, computed apart from the writing; n is the size of
\* its tag.
StringSize(n, s) == IF Len(s) > 0 THEN n + Len(s) + sov(Len(s)) ELSE 0
VarintSize(n, v) == IF v # 0 THEN n + sov(v) ELSE 0
BoolSize(n, b) == IF b THEN n + 1 ELSE 0
BytesSize(n, l) == n + l + sov(l)
AllSize(n, s, Size(_)) == FoldLeft(LAMBDA a, e : a + BytesSize(n, Size(e)), 0, s)
DoublesSize(n, s) == IF s = <<>> THEN 0 ELSE BytesSize(n, Len(s) * FixedLen)

-----------------------------------------------------------------------------
(* Reading *)

\* What follows a part that was read without an error.
Then(r, Next(_)) == IF r = Fail THEN Fail ELSE Next(r)

\* <<value, index after it>>
Varint(b, i) ==
    LET last == {j \in i..(i + MaxVarint - 1) : j <= Len(b) /\ b[j] < 128
                                                /\ \A k \in i..j - 1 : b[k] >= 128}
        Value(j) == FoldLeft(LAMBDA a, k : a + (b[i + k] % 128) * 2^(7 * k), 0,
                             [k \in 1..(j - i + 1) |-> k - 1]) % Word
    IN  IF last = {} THEN Fail ELSE LET j == CHOOSE j \in last : TRUE IN <<Value(j), j + 1>>

\* The number and the wire type of a tag.
Number(tag) == Signed((tag[1] \div 8) % HalfWord, HalfWord)
WireType(tag) == tag[1] % 8

\* Mutant: the length is not checked against the end of the buffer.
ExtentClipped(b, i) ==
    Then(Varint(b, i), LAMBDA n :
        IF n[1] >= Word \div 2 THEN Fail
        ELSE <<n[2], IF n[2] + n[1] > Len(b) THEN Len(b) + 1 ELSE n[2] + n[1]>>)

\* <<first byte, index after the data>> of length-delimited data
Extent(b, i) ==
    Then(Varint(b, i), LAMBDA n :
        IF n[1] >= Word \div 2 \/ n[2] + n[1] - 1 > Len(b) THEN Fail
        ELSE <<n[2], n[2] + n[1]>>)

\* The index after the data at i; a group's is that of its first field.
SkipData(b, i, wire, depth) ==
    CASE wire = 0 -> Then(Varint(b, i), LAMBDA v : <<v[2]>>)
      [] wire = 1 -> <<i + FixedLen>>
      [] wire = 2 -> Then(Varint(b, i), LAMBDA n :
                        IF n[1] >= Word \div 2 THEN Fail ELSE <<n[2] + n[1]>>)
      [] wire = 3 -> <<i>>
      [] wire = 4 -> IF depth = 0 THEN Fail ELSE <<i>>
      [] wire = 5 -> <<i + FixedLen \div 2>>
      [] OTHER    -> Fail

\* The index after the field at i, groups included.
RECURSIVE skip(_, _, _)
skip(b, i, depth) ==
    IF i > Len(b) THEN Fail
    ELSE Then(Varint(b, i), LAMBDA tag :
            LET wire == WireType(tag)
                deep == depth + (CASE wire = 3 -> 1 [] wire = 4 -> -1 [] OTHER -> 0)
            IN  Then(SkipData(b, tag[2], wire, depth), LAMBDA next :
                    IF deep = 0 THEN next ELSE skip(b, next[1], deep)))

\* One field of a message: its number, its wire type, its value (v) or data
\* (d), where the data starts (at) and where the next field does.
FieldData(b, i, data, f) ==
    CASE f.wire = 0 -> Then(Varint(b, data), LAMBDA v : <<[f EXCEPT !.v = v[1], !.next = v[2]]>>)
      [] f.wire = 1 -> IF data + FixedLen - 1 > Len(b) THEN Fail
                       ELSE <<[f EXCEPT !.v = b[data] + 256 * b[data + 1], !.next = data + FixedLen]>>
      [] f.wire = 2 -> Then(Extent(b, data), LAMBDA ext :
                          <<[f EXCEPT !.d = SubSeq(b, ext[1], ext[2] - 1), !.at = ext[1],
                                      !.next = ext[2]]>>)
      [] OTHER      -> Then(skip(b, i, 0), LAMBDA skp :
                          IF skp[1] - 1 > Len(b) THEN Fail ELSE <<[f EXCEPT !.next = skp[1]]>>)

Field(b, i) ==
    Then(Varint(b, i), LAMBDA tag :
        IF WireType(tag) = 4 \/ Number(tag) <= 0 THEN Fail
        ELSE FieldData(b, i, tag[2], [num |-> Number(tag), wire |-> WireType(tag), v |-> 0,
                                      d |-> <<>>, b |-> b, at |-> i, next |-> i]))

RECURSIVE Fields(_, _)
Fields(b, i) ==
    IF i > Len(b) THEN <<<<>>>>
    ELSE Then(Field(b, i), LAMBDA f :
            Then(Fields(b, f[1].next), LAMBDA rest : <<f \o rest[1]>>))

\* The loop of every Unmarshal: Step(m, f) is its switch on the field number.
Unmarshal(m, b, Step(_, _)) ==
    Then(Fields(b, 1), LAMBDA fs :
        FoldLeft(LAMBDA acc, f : IF acc = Fail THEN Fail ELSE Step(acc[1], f), <<m>>, fs[1]))

\* The cases of the switch: each checks the wire type and assigns.
GetString(m, x, f) == IF f.wire = 2 THEN <<[m EXCEPT ![x] = f.d]>> ELSE Fail
GetVarint(m, x, f) == IF f.wire = 0 THEN <<[m EXCEPT ![x] = f.v]>> ELSE Fail
GetInt32(m, x, f) == IF f.wire = 0 THEN <<[m EXCEPT ![x] = Int32(f.v)]>> ELSE Fail
GetBool(m, x, f) == IF f.wire = 0 THEN <<[m EXCEPT ![x] = f.v # 0]>> ELSE Fail
GetMessage(m, x, f, Read(_)) ==
    IF f.wire # 2 THEN Fail
    ELSE Then(Read(f.d), LAMBDA r : <<[m EXCEPT ![x] = Append(@, r[1])]>>)

\* A oneof member: <<name, value>>, <<>> when the oneof is not set.
OneVarint(m, x, name, f) == IF f.wire = 0 THEN <<[m EXCEPT ![x] = <<name, f.v>>]>> ELSE Fail
OneBool(m, x, name, f) == IF f.wire = 0 THEN <<[m EXCEPT ![x] = <<name, f.v # 0>>]>> ELSE Fail
OneDouble(m, x, name, f) == IF f.wire = 1 THEN <<[m EXCEPT ![x] = <<name, f.v>>]>> ELSE Fail
OneString(m, x, name, f) == IF f.wire = 2 THEN <<[m EXCEPT ![x] = <<name, f.d>>]>> ELSE Fail
OneBytes(m, x, name, f) == IF f.wire = 2 THEN <<[m EXCEPT ![x] = <<name, <<f.d>>>>]>> ELSE Fail
OneMessage(m, x, name, f, Read(_)) ==
    IF f.wire # 2 THEN Fail
    ELSE Then(Read(f.d), LAMBDA r : <<[m EXCEPT ![x] = <<name, r>>]>>)

\* The fields of a map entry, read without a look at their wire types and up
\* to the end of the buffer, not of the entry: <<key, values in order>>.
RECURSIVE Entry(_, _, _, _, _)
Entry(b, i, post, key, vals) ==
    IF i >= post THEN <<key, vals>>
    ELSE Then(Varint(b, i), LAMBDA tag :
            IF Number(tag) \in {1, 2}
            THEN Then(Extent(b, tag[2]), LAMBDA ext :
                    LET d == SubSeq(b, ext[1], ext[2] - 1)
                    IN  IF Number(tag) = 1 THEN Entry(b, ext[2], post, d, vals)
                        ELSE Entry(b, ext[2], post, key, Append(vals, d)))
            ELSE Then(skip(b, i, 0), LAMBDA skp :
                    IF skp[1] > post THEN Fail ELSE Entry(b, skp[1], post, key, vals)))

\* A map is the sequence of its <<key, value>> pairs in the order in which it
\* is ranged over, one pair per key.
MapSet(m, key, val) ==
    IF \E i \in 1..Len(m) : m[i][1] = key
    THEN [i \in 1..Len(m) |-> IF m[i][1] = key THEN <<key, val>> ELSE m[i]]
    ELSE Append(m, <<key, val>>)
MapGet(m, key, zero) ==
    IF \E i \in 1..Len(m) : m[i][1] = key
    THEN m[CHOOSE i \in 1..Len(m) : m[i][1] = key][2] ELSE zero

\* A map field: every value of the entry is decoded and the last one stays; a
\* map to messages holds nil when there is none.
EntrySet(m, x, key, vals) ==
    IF \E i \in DOMAIN vals : vals[i] = Fail THEN Fail
    ELSE <<[m EXCEPT ![x] = MapSet(@, key, IF vals = <<>> THEN <<>> ELSE Last(vals))]>>
GetEntry(m, x, f, Read(_)) ==
    IF f.wire # 2 THEN Fail
    ELSE Then(Entry(f.b, f.at, f.next, <<>>, <<>>), LAMBDA e :
            EntrySet(m, x, e[1], [i \in 1..Len(e[2]) |-> Read(e[2][i])]))

\* The lengths, and the values under the keys of m: a key that n lacks reads as
\* the zero value.
EqualMap(m, n, zero, Equal(_, _)) ==
    Len(m) = Len(n) /\ \A i \in 1..Len(m) : Equal(m[i][2], MapGet(n, m[i][1], zero))

\* A repeated double, field 1, packed or not.  A packed run is read in whole
\* doubles, past its end when its length is not a multiple of theirs.
RECURSIVE Doubles(_, _)
Doubles(b, i) ==
    LET Run(from, n) ==
            IF from + n * FixedLen - 1 > Len(b) THEN Fail
            ELSE Then(Doubles(b, from + n * FixedLen), LAMBDA rest :
                    <<[k \in 1..n |-> b[from + 2 * k - 2] + 256 * b[from + 2 * k - 1]] \o rest[1]>>)
    IN  IF i > Len(b) THEN <<<<>>>>
        ELSE Then(Field(b, i), LAMBDA f :
                CASE f[1].num # 1 -> Doubles(b, f[1].next)
                  [] f[1].num = 1 /\ f[1].wire = 1 -> Run(f[1].next - FixedLen, 1)
                  [] f[1].num = 1 /\ f[1].wire = 2 ->
                        Run(f[1].at, (Len(f[1].d) + FixedLen - 1) \div FixedLen)
                  [] OTHER -> Fail)

-----------------------------------------------------------------------------
(* Comparing *)

IsNaN(d) == d % (Word \div 2) > (Word \div 2) - 2^(WordBits - 6)
IsZero(d) == d % (Word \div 2) = 0
EqualDouble(a, b) == ~ IsNaN(a) /\ ~ IsNaN(b) /\ (a = b \/ (IsZero(a) /\ IsZero(b)))
EqualAll(a, b, Equal(_, _)) == Len(a) = Len(b) /\ \A i \in 1..Len(a) : Equal(a[i], b[i])

=============================================================================
