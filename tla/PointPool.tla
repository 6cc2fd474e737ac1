------------------------------ MODULE PointPool -----------------------------
(***************************************************************************)
(* The pool of points and key-values (ptpool.go), shared by goroutines     *)
(* that build, check, edit and give back their points.                     *)
(*                                                                         *)
(* A key-value is a place in the heap, so a slot that still refers to one  *)
(* that went back to the pool shows what its next owner made of it.  Every *)
(* kind of value has a pool of its own: a channel of Capacity places and,  *)
(* behind it, a sync.Pool, which may forget what it holds.                 *)
(***************************************************************************)
EXTENDS Integers, Sequences, FiniteSets

CONSTANTS
    Goroutines,
    Keys, Values,       \* of the key-values
    Inputs,             \* of the points: [kvs: <<key, kind, value>>s, enableU64Field]
    Kinds,              \* the kinds of values that have a pool
    Capacity,           \* reserved places of a pool
    MaxMalloc,          \* bound: key-values and points that are allocated
    MaxPoints           \* bound: points made by a goroutine

ASSUME KindsAssumption == "I" \in Kinds

ASSUME InputsAssumption == \A in \in Inputs : in.kvs \in Seq(Keys \X Kinds \X Values)

NoKey == ""
Zero == "0"             \* the value of a key-value that was reset
NoArray == "nil"        \* the array that could not be made

VARIABLES
    heap,               \* the key-values, [key, kind, val]
    ch, pool,           \* per kind: the channel and the sync.Pool
    freePoints,         \* points in the pool; ...
    points,             \* ... per point: its flag Ppooled
    g                   \* the goroutines: [pc, in, pt, kvs, i, idx, made]

vars == <<heap, ch, pool, freePoints, points, g>>

\* A goroutine that has no key-values.
Bare(pc, in, pt, n) == [pc |-> pc, in |-> in, pt |-> pt, kvs |-> <<>>, i |-> 1, idx |-> 0, made |-> n]

Init ==
    /\ heap = <<>> /\ ch = [k \in Kinds |-> <<>>] /\ pool = [k \in Kinds |-> {}]
    /\ freePoints = {} /\ points = <<>>
    /\ g = [p \in Goroutines |-> Bare("idle", <<>>, 0, 0)]

\* What get may return: the head of the channel; if it is empty, one of the
\* sync.Pool's, or a new one.
Got(k) ==
    IF ch[k] # <<>> THEN {Head(ch[k])}
    ELSE pool[k] \cup (IF Len(heap) < MaxMalloc THEN {Len(heap) + 1} ELSE {})

\* Mutant: a key-value of the pool is not given its key.
GetKVWithoutKey(f, key, k, v) ==
    LET zero == IF k = "A" THEN NoArray ELSE Zero
        Set(old) == [old EXCEPT !.val = IF v = NoArray THEN @ ELSE v]
    IN  /\ heap' = IF f > Len(heap) THEN Append(heap, Set([key |-> key, kind |-> k, val |-> zero]))
                   ELSE [heap EXCEPT ![f] = Set(@)]
        /\ ch' = [ch EXCEPT ![k] = IF @ = <<>> THEN @ ELSE Tail(@)]
        /\ pool' = [pool EXCEPT ![k] = @ \ {f}]

\* A failed array leaves the value of the key-value as it is.
GetKV(f, key, k, v) ==
    LET old == IF f > Len(heap) THEN [key |-> NoKey, kind |-> k, val |-> IF k = "A" THEN NoArray ELSE Zero]
               ELSE heap[f]
        new == [old EXCEPT !.key = key, !.val = IF v = NoArray THEN @ ELSE v]
    IN  /\ heap' = IF f > Len(heap) THEN Append(heap, new) ELSE [heap EXCEPT ![f] = new]
        /\ ch' = [ch EXCEPT ![k] = IF @ = <<>> THEN @ ELSE Tail(@)]
        /\ pool' = [pool EXCEPT ![k] = @ \ {f}]

\* Mutant: what the channel took goes to the sync.Pool as well.
PutKVTwice(f) ==
    LET k == heap[f].kind
    IN  /\ heap' = [heap EXCEPT ![f].key = NoKey, ![f].val = Zero]
        /\ ch' = [ch EXCEPT ![k] = IF Len(@) < Capacity THEN Append(@, f) ELSE @]
        /\ pool' = [pool EXCEPT ![k] = @ \cup {f}]

\* clearKV, resetKV, and the pool of the value's kind
PutKV(f) ==
    LET k == heap[f].kind
    IN  /\ heap' = [heap EXCEPT ![f].key = NoKey, ![f].val = Zero]
        /\ ch' = [ch EXCEPT ![k] = IF Len(@) < Capacity THEN Append(@, f) ELSE @]
        /\ pool' = [pool EXCEPT ![k] = IF Len(ch[k]) < Capacity THEN @ ELSE @ \cup {f}]

\* The dereference of a nil array
Panics(f) == heap[f].kind = "A" /\ heap[f].val = NoArray

StartPoint(p, in) ==
    /\ g[p].pc = "idle" /\ g[p].made < MaxPoints
    /\ g' = [g EXCEPT ![p] = Bare("build", in, 0, g[p].made + 1)]
    /\ UNCHANGED <<heap, ch, pool, freePoints, points>>

NewKV(p) ==
    /\ g[p].pc = "build" /\ g[p].i <= Len(g[p].in.kvs)
    /\ LET kv == g[p].in.kvs[g[p].i]
       IN  \E f \in Got(kv[2]) :
             /\ GetKV(f, kv[1], kv[2], kv[3])
             /\ g' = [g EXCEPT ![p].kvs = Append(@, f), ![p].i = @ + 1]
    /\ UNCHANGED <<freePoints, points>>

\* doNewPoint
Get(p) ==
    /\ g[p].pc = "build" /\ g[p].i > Len(g[p].in.kvs)
    /\ \E pt \in freePoints \cup (IF Len(points) < MaxMalloc THEN {Len(points) + 1} ELSE {}) :
         /\ points' = IF pt > Len(points) THEN Append(points, TRUE) ELSE [points EXCEPT ![pt] = TRUE]
         /\ freePoints' = freePoints \ {pt}
         /\ g' = [g EXCEPT ![p].pc = "check", ![p].pt = pt, ![p].i = 1]
    /\ UNCHANGED <<heap, ch, pool>>

\* keyDisabled or keyConflict: among the slots are those of key-values that are
\* no longer the goroutine's.
Dropped(p, f) ==
    \/ heap[f].key = NoKey
    \/ \E j \in 1..Len(g[p].kvs) : j # g[p].i /\ heap[g[p].kvs[j]].key = heap[f].key

Kept(s, f) == [s EXCEPT !.kvs[s.idx + 1] = f, !.idx = @ + 1, !.i = @ + 1, !.pc = "check"]

CheckKV(p) ==
    LET f == g[p].kvs[g[p].i]
    IN  /\ g[p].pc = "check" /\ g[p].i <= Len(g[p].kvs)
        /\ \/ /\ Dropped(p, f) /\ ~ Panics(f)
              /\ PutKV(f)
              /\ g' = [g EXCEPT ![p].i = @ + 1]
           \/ /\ Dropped(p, f) /\ Panics(f)
              /\ g' = [g EXCEPT ![p].pc = "panic"]
              /\ UNCHANGED <<heap, ch, pool>>
           \/ /\ ~ Dropped(p, f) /\ (heap[f].kind # "U" \/ g[p].in.enableU64Field)
              /\ g' = [g EXCEPT ![p] = Kept(@, f)]
              /\ UNCHANGED <<heap, ch, pool>>
           \/ /\ ~ Dropped(p, f) /\ heap[f].kind = "U" /\ ~ g[p].in.enableU64Field
              /\ PutKV(f)
              /\ g' = [g EXCEPT ![p].pc = "convert"]
        /\ UNCHANGED <<freePoints, points>>

\* GetKV(f.Key, int64(x.U)), after PutKV(f)
Convert(p) ==
    LET old == heap[g[p].kvs[g[p].i]]
    IN  /\ g[p].pc = "convert"
        /\ \E f \in Got("I") :
             /\ GetKV(f, old.key, "I", old.val)
             /\ g' = [g EXCEPT ![p] = Kept(@, f)]
        /\ UNCHANGED <<freePoints, points>>

Checked(p) ==
    /\ g[p].pc = "check" /\ g[p].i > Len(g[p].kvs)
    /\ g' = [g EXCEPT ![p].pc = "have", ![p].kvs = SubSeq(@, 1, g[p].idx)]
    /\ UNCHANGED <<heap, ch, pool, freePoints, points>>

\* KVs.Del: the last slot moves to the place of the deleted one.
Del(p, i) ==
    LET kvs == g[p].kvs
    IN  /\ g[p].pc = "have" /\ i \in 1..Len(kvs)
        /\ IF Panics(kvs[i]) THEN g' = [g EXCEPT ![p].pc = "panic"] /\ UNCHANGED <<heap, ch, pool>>
           ELSE /\ PutKV(kvs[i])
                /\ g' = [g EXCEPT ![p].kvs = SubSeq([kvs EXCEPT ![i] = kvs[Len(kvs)]], 1, Len(kvs) - 1)]
        /\ UNCHANGED <<freePoints, points>>

\* Put returns at once for a point that is not Ppooled.
Put(p) ==
    /\ g[p].pc = "have"
    /\ g' = [g EXCEPT ![p].pc = IF points[g[p].pt] THEN "put" ELSE "escaped", ![p].i = 1]
    /\ UNCHANGED <<heap, ch, pool, freePoints, points>>

PutNext(p) ==
    LET f == g[p].kvs[g[p].i]
    IN  /\ g[p].pc = "put" /\ g[p].i <= Len(g[p].kvs)
        /\ IF Panics(f) THEN g' = [g EXCEPT ![p].pc = "panic"] /\ UNCHANGED <<heap, ch, pool>>
           ELSE PutKV(f) /\ g' = [g EXCEPT ![p].i = @ + 1]
        /\ UNCHANGED <<freePoints, points>>

PutPoint(p) ==
    /\ g[p].pc = "put" /\ g[p].i > Len(g[p].kvs)
    /\ points' = [points EXCEPT ![g[p].pt] = FALSE]
    /\ freePoints' = freePoints \cup {g[p].pt}
    /\ g' = [g EXCEPT ![p] = Bare("gone", <<>>, g[p].pt, g[p].made)]
    /\ UNCHANGED <<heap, ch, pool>>

\* Its owner puts the point again, which has no flag if nobody took it, or
\* forgets it.
PutAgain(p) ==
    /\ g[p].pc = "gone" /\ ~ points[g[p].pt]
    /\ g' = [g EXCEPT ![p].pc = "idle", ![p].pt = 0]
    /\ UNCHANGED <<heap, ch, pool, freePoints, points>>

Forget(p) ==
    /\ g[p].pc = "gone"
    /\ g' = [g EXCEPT ![p].pc = "idle", ![p].pt = 0]
    /\ UNCHANGED <<heap, ch, pool, freePoints, points>>

Next ==
    \E p \in Goroutines :
        \/ \E in \in Inputs : StartPoint(p, in)
        \/ NewKV(p)
        \/ Get(p)
        \/ CheckKV(p)
        \/ Convert(p)
        \/ Checked(p)
        \/ \E i \in 1..Len(g[p].kvs) : Del(p, i)
        \/ Put(p)
        \/ PutNext(p)
        \/ PutPoint(p)
        \/ PutAgain(p)
        \/ Forget(p)

Spec == Init /\ [][Next]_vars

-----------------------------------------------------------------------------
(* Properties *)

\* The slots of a goroutine that hold key-values of its own.
OwnSlots(p) ==
    LET s == g[p]
    IN  CASE s.pc \in {"build", "have"} -> 1..Len(s.kvs)
          [] s.pc = "check" -> 1..s.idx \cup s.i..Len(s.kvs)
          [] s.pc = "convert" -> 1..s.idx \cup s.i + 1..Len(s.kvs)
          [] s.pc = "put" -> s.i..Len(s.kvs)
          [] OTHER -> {}
\* The key-values in the pool of a kind.
Free(k) == {ch[k][j] : j \in 1..Len(ch[k])} \cup pool[k]

\* A key-value has one owner: a slot of a goroutine, or the pool of its own
\* kind, once.  Otherwise two points would write the same memory.  Nor have two
\* goroutines the same point, but for one who kept it after its Put.
NoAlias ==
    /\ \A p, q \in Goroutines : \A i \in OwnSlots(p), j \in OwnSlots(q) :
         g[p].kvs[i] = g[q].kvs[j] => p = q /\ i = j
    /\ \A k \in Kinds :
         /\ \A i, j \in 1..Len(ch[k]) : ch[k][i] = ch[k][j] => i = j
         /\ \A i \in 1..Len(ch[k]) : ch[k][i] \notin pool[k]
         /\ \A f \in Free(k) : heap[f].kind = k
         /\ \A p \in Goroutines : \A i \in OwnSlots(p) : g[p].kvs[i] \notin Free(k)
    /\ \A p, q \in Goroutines : g[p].pc \in {"check", "convert", "have", "put"} =>
         g[p].pt \notin freePoints /\ (p # q /\ g[q].pc # "gone" => g[p].pt # g[q].pt)

Valid(kvs) == \A j, k \in 1..Len(kvs) : kvs[j][1] # NoKey /\ (kvs[j][1] = kvs[k][1] => j = k)
Intact(p) ==
    LET kvs == g[p].in.kvs
        At(j) == heap[g[p].kvs[j]]
    IN  /\ \A j \in OwnSlots(p) : \E k \in 1..Len(kvs) :
             /\ kvs[k][1] = At(j).key
             /\ kvs[k][3] = At(j).val \/ (kvs[k][3] = NoArray /\ At(j).val = Zero)
        /\ Valid(kvs) /\ g[p].pc = "check" /\ g[p].i > Len(g[p].kvs) => g[p].idx = Len(kvs)

\* What a point holds from its check on is what it was given, and all of it if
\* its keys are valid, whatever the other goroutines do with the key-values
\* that were dropped: nothing of the last owner of a key-value is left in it.
FieldsIntact ==
    \A p \in Goroutines : g[p].pc \in {"check", "have"} /\ g[p].in.enableU64Field => Intact(p)

=============================================================================
