-------------------------- MODULE PointPoolProofs --------------------------
(***************************************************************************)
(* No key-value and no point of the pool has two owners, and a point holds *)
(* what it was given, for every number of goroutines, every input and      *)
(* every capacity of the pool.                                             *)
(***************************************************************************)
EXTENDS PointPool, TLAPS

\* A leaf is first-order reasoning unless it names another prover.
USE Zenon

Texts == Keys \cup {NoKey}
Contents == Values \cup {Zero, NoArray}
Field == [key : Texts, kind : Kinds, val : Contents]

PCs == {"idle", "build", "check", "convert", "have", "put", "gone", "panic", "escaped"}

Goroutine == [pc : PCs, in : Inputs \cup {<<>>}, pt : Nat, kvs : Seq(Nat), i : Nat, idx : Nat,
              made : Nat]

\* These pools hold places of this heap, each once and in the pool of its kind.
PoolsOK(h, c, o) ==
    /\ h \in Seq(Field) /\ c \in [Kinds -> Seq(Nat)] /\ o \in [Kinds -> SUBSET Nat]
    /\ \A k \in Kinds :
         /\ \A i \in 1..Len(c[k]) : c[k][i] \in 1..Len(h) /\ h[c[k][i]].kind = k /\ c[k][i] \notin o[k]
         /\ \A i, j \in 1..Len(c[k]) : c[k][i] = c[k][j] => i = j
         /\ \A f \in o[k] : f \in 1..Len(h) /\ h[f].kind = k

\* A place in no pool.
Taken(f, c, o) == \A k \in Kinds : f \notin o[k] /\ \A i \in 1..Len(c[k]) : c[k][i] # f

-----------------------------------------------------------------------------
(* Get and put *)

\* A pool that a step leaves alone stays as it should be.
LEMMA OthersOK ==
    ASSUME PoolsOK(heap, ch, pool), NEW x \in Kinds, ch'[x] = ch[x], pool'[x] = pool[x],
           Len(heap') >= Len(heap), Len(heap') \in Nat,
           \A y \in 1..Len(heap) : heap'[y].kind = heap[y].kind
    PROVE  /\ \A i \in 1..Len(ch'[x]) : ch'[x][i] \in 1..Len(heap') /\ heap'[ch'[x][i]].kind = x
                                         /\ ch'[x][i] \notin pool'[x]
           /\ \A i, j \in 1..Len(ch'[x]) : ch'[x][i] = ch'[x][j] => i = j
           /\ \A y \in pool'[x] : y \in 1..Len(heap') /\ heap'[y].kind = x
<1>1. Len(heap) \in Nat
  BY SMT DEF PoolsOK
<1>2. /\ \A i \in 1..Len(ch[x]) : ch[x][i] \in 1..Len(heap) /\ heap[ch[x][i]].kind = x /\ ch[x][i] \notin pool[x]
      /\ \A i, j \in 1..Len(ch[x]) : ch[x][i] = ch[x][j] => i = j
      /\ \A y \in pool[x] : y \in 1..Len(heap) /\ heap[y].kind = x
  BY DEF PoolsOK
<1>3. \A y \in 1..Len(heap) : y \in 1..Len(heap')
  BY SMT, <1>1
<1> QED BY <1>2, <1>3

\* What get returns is in no pool afterwards, and was in one or is new.
LEMMA TakeKV ==
    ASSUME PoolsOK(heap, ch, pool), NEW k \in Kinds, NEW f \in Got(k),
           NEW key \in Texts, NEW v \in Contents, GetKV(f, key, k, v)
    PROVE  /\ PoolsOK(heap', ch', pool')
           /\ f \in 1..Len(heap') /\ Len(heap') >= Len(heap)
           /\ Taken(f, ch', pool')
           /\ ~ Taken(f, ch, pool) \/ f = Len(heap) + 1
           /\ \A x : Taken(x, ch, pool) => Taken(x, ch', pool')
<1> DEFINE s == ch[k]
<1>1. heap \in Seq(Field) /\ s \in Seq(Nat) /\ pool[k] \in SUBSET Nat
  BY DEF PoolsOK
<1>2. /\ f \in 1..Len(heap) + 1
      /\ f \in 1..Len(heap) => heap[f].kind = k
      /\ s # <<>> => f = s[1]
      /\ s = <<>> => f \in pool[k] \/ f = Len(heap) + 1
      /\ f \in 1..Len(heap) \/ f = Len(heap) + 1
  BY SMT, <1>1 DEF Got, PoolsOK
<1>3. /\ heap' \in Seq(Field) /\ Len(heap') >= Len(heap) /\ f \in 1..Len(heap')
      /\ \A x \in 1..Len(heap) : heap'[x].kind = heap[x].kind
      /\ Len(heap') \in {Len(heap), Len(heap) + 1}
  <2> DEFINE old == IF f > Len(heap) THEN [key |-> NoKey, kind |-> k, val |-> IF k = "A" THEN NoArray ELSE Zero]
                    ELSE heap[f]
             new == [old EXCEPT !.key = key, !.val = IF v = NoArray THEN @ ELSE v]
  <2>1. old \in Field /\ old.kind = k
    <3>1. CASE f > Len(heap)
      BY <3>1 DEF Field, Texts, Contents
    <3>2. CASE ~ (f > Len(heap))
      <4>1. f \in 1..Len(heap)
        BY SMT, <3>2, <1>1, <1>2
      <4>2. heap[f] \in Field
        BY SMT, <4>1, <1>1
      <4> QED BY <3>2, <4>1, <4>2, <1>2
    <3> QED BY <3>1, <3>2
  <2> HIDE DEF old
  <2>2. new \in Field /\ new.kind = k
    BY <2>1 DEF Field
  <2>3. heap' = IF f > Len(heap) THEN Append(heap, new) ELSE [heap EXCEPT ![f] = new]
    BY DEF GetKV, old
  <2> HIDE DEF new
  <2>4. CASE f > Len(heap)
    BY SMT, <2>2, <2>3, <2>4, <1>1, <1>2
  <2>5. CASE ~ (f > Len(heap))
    BY SMT, <2>2, <2>3, <2>5, <1>1, <1>2
  <2> QED BY <2>4, <2>5
<1>4. /\ ch' = [ch EXCEPT ![k] = IF s = <<>> THEN s ELSE Tail(s)]
      /\ pool' = [pool EXCEPT ![k] = pool[k] \ {f}]
  BY DEF GetKV
<1>5. ch' \in [Kinds -> Seq(Nat)] /\ pool' \in [Kinds -> SUBSET Nat]
  BY SMT, <1>1, <1>4 DEF PoolsOK
<1>6. \A x \in Kinds : x # k => ch'[x] = ch[x] /\ pool'[x] = pool[x]
  BY <1>4 DEF PoolsOK
<1>7. ch'[k] = (IF s = <<>> THEN s ELSE Tail(s)) /\ pool'[k] = pool[k] \ {f}
  BY <1>4 DEF PoolsOK
<1>8. \A i \in 1..Len(ch'[k]) : i + 1 \in 1..Len(s) /\ ch'[k][i] = s[i + 1] /\ s # <<>>
  BY SMT, <1>1, <1>7
<1> HIDE DEF s
<1>9. /\ \A i \in 1..Len(s) : s[i] \in 1..Len(heap) /\ heap[s[i]].kind = k /\ s[i] \notin pool[k]
      /\ \A i, j \in 1..Len(s) : s[i] = s[j] => i = j
      /\ \A x \in pool[k] : x \in 1..Len(heap) /\ heap[x].kind = k
      /\ Len(s) \in Nat /\ Len(heap) \in Nat /\ Len(ch'[k]) \in Nat
  BY SMT, <1>1, <1>5 DEF PoolsOK, s
<1>10. /\ \A i \in 1..Len(ch'[k]) : /\ ch'[k][i] \in 1..Len(heap') /\ heap'[ch'[k][i]].kind = k
                                    /\ ch'[k][i] \notin pool'[k] /\ ch'[k][i] # f
       /\ \A i, j \in 1..Len(ch'[k]) : ch'[k][i] = ch'[k][j] => i = j
       /\ \A x \in pool'[k] : x \in 1..Len(heap') /\ heap'[x].kind = k /\ x # f
  <2>1. ASSUME NEW i \in 1..Len(ch'[k]) PROVE i + 1 # 1 /\ 1 \in 1..Len(s)
    BY SMT, <1>8, <1>9
  <2>2. ASSUME NEW i \in 1..Len(ch'[k]), NEW j \in 1..Len(ch'[k]), i + 1 = j + 1 PROVE i = j
    BY SMT, <1>9, <2>2
  <2>3. \A x \in 1..Len(heap) : x \in 1..Len(heap')
    BY SMT, <1>3, <1>9
  <2>4. ASSUME NEW i \in 1..Len(ch'[k]) PROVE ch'[k][i] # f
    BY <1>2, <1>8, <1>9, <2>1
  <2>5. ASSUME NEW i \in 1..Len(ch'[k]), NEW j \in 1..Len(ch'[k]), ch'[k][i] = ch'[k][j] PROVE i = j
    BY <1>8, <1>9, <2>2, <2>5
  <2>6. ASSUME NEW i \in 1..Len(ch'[k])
        PROVE  ch'[k][i] \in 1..Len(heap') /\ heap'[ch'[k][i]].kind = k /\ ch'[k][i] \notin pool'[k]
    <3>1. i + 1 \in 1..Len(s) /\ ch'[k][i] = s[i + 1]
      BY <1>8
    <3>2. s[i + 1] \in 1..Len(heap) /\ heap[s[i + 1]].kind = k /\ s[i + 1] \notin pool[k]
      BY <1>9, <3>1
    <3> QED BY <1>3, <1>7, <2>3, <3>1, <3>2
  <2>7. \A x \in pool'[k] : x \in 1..Len(heap') /\ heap'[x].kind = k /\ x # f
    BY <1>3, <1>7, <1>9, <2>3
  <2> QED BY <2>4, <2>5, <2>6, <2>7
<1>11. PoolsOK(heap', ch', pool')
  <2>1. ASSUME NEW x \in Kinds, x # k
        PROVE  /\ \A i \in 1..Len(ch'[x]) : ch'[x][i] \in 1..Len(heap') /\ heap'[ch'[x][i]].kind = x
                                            /\ ch'[x][i] \notin pool'[x]
               /\ \A i, j \in 1..Len(ch'[x]) : ch'[x][i] = ch'[x][j] => i = j
               /\ \A y \in pool'[x] : y \in 1..Len(heap') /\ heap'[y].kind = x
    BY SMT, <1>3, <1>6, <2>1, OthersOK
  <2> QED BY <1>3, <1>5, <1>10, <2>1 DEF PoolsOK
<1>12. Taken(f, ch', pool')
  <2>1. ASSUME NEW x \in Kinds, x # k
        PROVE  f \notin pool'[x] /\ \A i \in 1..Len(ch'[x]) : ch'[x][i] # f
    BY SMTT(30), <1>2, <1>6, <1>9, <2>1 DEF PoolsOK
  <2> QED BY <1>10, <2>1 DEF Taken
<1>13. ~ Taken(f, ch, pool) \/ f = Len(heap) + 1
  <2>1. CASE s = <<>>
    BY <2>1, <1>2 DEF Taken
  <2>2. CASE s # <<>>
    <3>1. 1 \in 1..Len(ch[k]) /\ ch[k][1] = f
      BY SMT, <2>2, <1>1, <1>2 DEF s
    <3> QED BY <3>1 DEF Taken
  <2> QED BY <2>1, <2>2
<1>14. ASSUME NEW x, Taken(x, ch, pool) PROVE Taken(x, ch', pool')
  <2>1. \A i \in 1..Len(s) : s[i] # x
    BY <1>14 DEF Taken, s
  <2>2. x \notin pool'[k] /\ \A i \in 1..Len(ch'[k]) : ch'[k][i] # x
    BY <1>7, <1>8, <1>14, <2>1 DEF Taken
  <2> QED BY <1>6, <1>14, <2>2 DEF Taken
<1> QED BY <1>3, <1>11, <1>12, <1>13, <1>14

\* What is put was in no pool, and is in the one of its kind afterwards.
LEMMA GiveKV ==
    ASSUME PoolsOK(heap, ch, pool), NEW f \in 1..Len(heap), Taken(f, ch, pool), PutKV(f)
    PROVE  /\ PoolsOK(heap', ch', pool') /\ Len(heap') = Len(heap)
           /\ \A x : Taken(x, ch, pool) /\ x # f => Taken(x, ch', pool')
<1> DEFINE k == heap[f].kind
           s == ch[k]
<1>1. heap \in Seq(Field) /\ k \in Kinds /\ s \in Seq(Nat) /\ pool[k] \in SUBSET Nat
  <2>1. heap \in Seq(Field) /\ heap[f] \in Field
    BY SMT DEF PoolsOK
  <2>2. k \in Kinds
    BY <2>1 DEF Field
  <2> QED BY <2>1, <2>2 DEF PoolsOK
<1>2. /\ heap' \in Seq(Field) /\ Len(heap') = Len(heap)
      /\ \A x \in 1..Len(heap) : heap'[x].kind = heap[x].kind
  <2> DEFINE new == [heap[f] EXCEPT !.key = NoKey, !.val = Zero]
  <2>1. heap[f] \in Field
    BY SMT, <1>1
  <2>2. new \in Field /\ new.kind = heap[f].kind
    BY <2>1 DEF Field, Texts, Contents
  <2>3. heap' = [heap EXCEPT ![f] = new]
    BY <1>1 DEF PutKV
  <2> HIDE DEF new
  <2> QED BY SMT, <1>1, <2>2, <2>3
<1>3. /\ ch' = [ch EXCEPT ![k] = IF Len(s) < Capacity THEN Append(s, f) ELSE s]
      /\ pool' = [pool EXCEPT ![k] = IF Len(s) < Capacity THEN pool[k] ELSE pool[k] \cup {f}]
  BY DEF PutKV
<1>4. f \in Nat
  BY SMT, <1>1
<1>5. ch' \in [Kinds -> Seq(Nat)] /\ pool' \in [Kinds -> SUBSET Nat]
  BY SMT, <1>1, <1>3, <1>4 DEF PoolsOK
<1>6. \A x \in Kinds : x # k => ch'[x] = ch[x] /\ pool'[x] = pool[x]
  BY <1>3 DEF PoolsOK
<1>7. /\ ch'[k] = IF Len(s) < Capacity THEN Append(s, f) ELSE s
      /\ pool'[k] = IF Len(s) < Capacity THEN pool[k] ELSE pool[k] \cup {f}
  BY <1>1, <1>3 DEF PoolsOK
<1>8. /\ \A i \in 1..Len(s) : s[i] \in 1..Len(heap) /\ heap[s[i]].kind = k /\ s[i] \notin pool[k] /\ s[i] # f
      /\ \A i, j \in 1..Len(s) : s[i] = s[j] => i = j
      /\ \A x \in pool[k] : x \in 1..Len(heap) /\ heap[x].kind = k /\ x # f
  BY SMT, <1>1 DEF PoolsOK, Taken
<1>9. heap[f].kind = k
  OBVIOUS
<1>12. ASSUME NEW x \in Kinds, x # k
       PROVE  /\ \A i \in 1..Len(ch'[x]) : ch'[x][i] \in 1..Len(heap') /\ heap'[ch'[x][i]].kind = x
                                           /\ ch'[x][i] \notin pool'[x]
              /\ \A i, j \in 1..Len(ch'[x]) : ch'[x][i] = ch'[x][j] => i = j
              /\ \A y \in pool'[x] : y \in 1..Len(heap') /\ heap'[y].kind = x
  BY SMT, <1>2, <1>6, <1>12, OthersOK
<1> HIDE DEF s, k
<1>10. CASE Len(s) < Capacity
  <2>1. /\ Len(ch'[k]) = Len(s) + 1 /\ ch'[k][Len(s) + 1] = f
        /\ \A i \in 1..Len(s) : ch'[k][i] = s[i]
    BY SMT, <1>1, <1>4, <1>7, <1>10
  <2>2. \A i \in 1..Len(ch'[k]) : i \in 1..Len(s) \/ i = Len(s) + 1
    BY SMT, <1>1, <2>1
  <2>6. \A i \in 1..Len(ch'[k]) : \/ i \in 1..Len(s) /\ ch'[k][i] = s[i]
                                  \/ i = Len(s) + 1 /\ ch'[k][i] = f
    BY <2>1, <2>2
  <2>3. /\ \A i \in 1..Len(ch'[k]) : /\ ch'[k][i] \in 1..Len(heap') /\ heap'[ch'[k][i]].kind = k
                                     /\ ch'[k][i] \notin pool'[k]
        /\ \A i, j \in 1..Len(ch'[k]) : ch'[k][i] = ch'[k][j] => i = j
        /\ \A x \in pool'[k] : x \in 1..Len(heap') /\ heap'[x].kind = k
    <3>1. Len(heap') = Len(heap) /\ pool'[k] = pool[k] /\ heap'[f].kind = k /\ f \in 1..Len(heap)
      BY <1>2, <1>7, <1>9, <1>10
    <3>2. ASSUME NEW i \in 1..Len(ch'[k])
          PROVE  /\ ch'[k][i] \in 1..Len(heap') /\ heap'[ch'[k][i]].kind = k
                 /\ ch'[k][i] \notin pool'[k]
      <4>1. CASE ch'[k][i] = f
        BY <1>8, <3>1, <4>1
      <4>2. CASE i \in 1..Len(s) /\ ch'[k][i] = s[i]
        <5>1. s[i] \in 1..Len(heap) /\ heap[s[i]].kind = k /\ s[i] \notin pool[k]
          BY <1>8, <4>2
        <5> QED BY <1>2, <3>1, <4>2, <5>1
      <4> QED BY <2>6, <4>1, <4>2
    <3>3. ASSUME NEW i \in 1..Len(ch'[k]), NEW j \in 1..Len(ch'[k]), ch'[k][i] = ch'[k][j] PROVE i = j
      <4>1. CASE i = Len(s) + 1 \/ j = Len(s) + 1
        BY <1>8, <2>6, <3>3, <4>1
      <4>2. CASE i \in 1..Len(s) /\ j \in 1..Len(s)
        BY <1>8, <2>1, <3>3, <4>2
      <4> QED BY <2>2, <4>1, <4>2
    <3>4. \A x \in pool'[k] : x \in 1..Len(heap') /\ heap'[x].kind = k
      BY <1>2, <1>8, <3>1
    <3> QED BY <3>2, <3>3, <3>4
  <2>4. \A x : Taken(x, ch, pool) /\ x # f => Taken(x, ch', pool')
    <3> SUFFICES ASSUME NEW x, Taken(x, ch, pool), x # f, NEW y \in Kinds
                 PROVE  x \notin pool'[y] /\ \A i \in 1..Len(ch'[y]) : ch'[y][i] # x
      BY DEF Taken
    <3>1. CASE y # k
      BY <3>1, <1>6 DEF Taken
    <3>2. CASE y = k
      <4>1. x \notin pool[k] /\ \A i \in 1..Len(s) : s[i] # x
        BY <1>1 DEF Taken, s
      <4> QED BY <3>2, <4>1, <1>7, <1>10, <2>1, <2>2
    <3> QED BY <3>1, <3>2
  <2>5. PoolsOK(heap', ch', pool')
    BY <1>2, <1>5, <1>12, <2>3 DEF PoolsOK
  <2> QED BY <1>2, <2>4, <2>5
<1>11. CASE ~ (Len(s) < Capacity)
  <2>1. ch'[k] = s /\ pool'[k] = pool[k] \cup {f}
    BY <1>7, <1>11
  <2>2. /\ \A i \in 1..Len(ch'[k]) : /\ ch'[k][i] \in 1..Len(heap') /\ heap'[ch'[k][i]].kind = k
                                     /\ ch'[k][i] \notin pool'[k]
        /\ \A i, j \in 1..Len(ch'[k]) : ch'[k][i] = ch'[k][j] => i = j
        /\ \A x \in pool'[k] : x \in 1..Len(heap') /\ heap'[x].kind = k
    BY SMTT(30), <1>2, <1>8, <1>9, <2>1
  <2>3. \A x : Taken(x, ch, pool) /\ x # f => Taken(x, ch', pool')
    BY <1>1, <1>6, <2>1 DEF Taken, s
  <2>4. PoolsOK(heap', ch', pool')
    BY <1>2, <1>5, <1>12, <2>2 DEF PoolsOK
  <2> QED BY <1>2, <2>3, <2>4
<1> QED BY <1>10, <1>11

-----------------------------------------------------------------------------
(* The inductive invariant *)

\* OwnSlots of a goroutine in this state.
Slots(s) ==
    CASE s.pc \in {"build", "have"} -> 1..Len(s.kvs)
      [] s.pc = "check" -> 1..s.idx \cup s.i..Len(s.kvs)
      [] s.pc = "convert" -> 1..s.idx \cup s.i + 1..Len(s.kvs)
      [] s.pc = "put" -> s.i..Len(s.kvs)
      [] OTHER -> {}

\* The slots refer to places of a heap of n, and the check never writes to a
\* slot it has not read.
LocalOK(s, n) ==
    /\ s.i >= 1
    /\ \A j \in 1..Len(s.kvs) : s.kvs[j] \in 1..n
    /\ s.pc = "build" => s.in \in Inputs /\ s.idx = 0
    /\ s.pc = "check" => s.idx < s.i /\ s.i <= Len(s.kvs) + 1
    /\ s.pc = "convert" => s.idx < s.i /\ s.i <= Len(s.kvs)
    /\ s.pc \in {"idle", "build"} => s.pt = 0

\* A place has one owner, which is no pool.
OwnersOK(gs, c, o) ==
    /\ \A p, q \in Goroutines : \A i \in Slots(gs[p]), j \in Slots(gs[q]) :
         gs[p].kvs[i] = gs[q].kvs[j] => p = q /\ i = j
    /\ \A p \in Goroutines : \A i \in Slots(gs[p]) : Taken(gs[p].kvs[i], c, o)

\* The states of a goroutine that has a point.
Having == {"check", "convert", "have", "put", "panic", "escaped"}

PointsOK(gs, pts, free) ==
    /\ pts \in Seq(BOOLEAN) /\ free \subseteq 1..Len(pts)
    /\ \A p \in Goroutines : gs[p].pc \in Having => gs[p].pt \in 1..Len(pts) \ free
    /\ \A p, q \in Goroutines : p # q /\ gs[p].pc \in Having /\ gs[q].pc \in Having => gs[p].pt # gs[q].pt

AInv ==
    /\ g \in [Goroutines -> Goroutine]
    /\ PoolsOK(heap, ch, pool)
    /\ \A p \in Goroutines : LocalOK(g[p], Len(heap))
    /\ OwnersOK(g, ch, pool)
    /\ PointsOK(g, points, freePoints)

\* No goroutine but p owns f.
NobodyElse(p, f) == \A q \in Goroutines \ {p} : \A j \in Slots(g[q]) : g[q].kvs[j] # f

\* p owns f.
Owns(p, f) == \E j \in Slots(g[p]) : g[p].kvs[j] = f

-----------------------------------------------------------------------------
(* One goroutine moves *)

\* A slot refers to a place of the heap.
LEMMA SlotsInBounds ==
    ASSUME NEW s \in Goroutine, NEW n \in Nat, LocalOK(s, n), NEW j \in Slots(s)
    PROVE  j \in 1..Len(s.kvs) /\ s.kvs[j] \in 1..n
<1>1. Len(s.kvs) \in Nat /\ s.i \in Nat /\ s.idx \in Nat
  BY SMT DEF Goroutine
<1>2. j \in 1..Len(s.kvs)
  BY SMT, <1>1 DEF Slots, LocalOK
<1> QED BY <1>2 DEF LocalOK

\* p moves to the state s: what it then owns is its own alone.
LEMMA Moved ==
    ASSUME AInv, NEW p \in Goroutines, NEW s \in Goroutine, g' = [g EXCEPT ![p] = s],
           PoolsOK(heap', ch', pool'), Len(heap') >= Len(heap), LocalOK(s, Len(heap')),
           \A i, j \in Slots(s) : s.kvs[i] = s.kvs[j] => i = j,
           \A i \in Slots(s) : Taken(s.kvs[i], ch', pool') /\ NobodyElse(p, s.kvs[i]),
           \A q \in Goroutines \ {p} : \A j \in Slots(g[q]) : Taken(g[q].kvs[j], ch', pool'),
           PointsOK(g', points', freePoints')
    PROVE  AInv'
<1>1. /\ g \in [Goroutines -> Goroutine] /\ g' \in [Goroutines -> Goroutine]
      /\ g'[p] = s /\ \A q \in Goroutines \ {p} : g'[q] = g[q]
  BY DEF AInv
<1>2. Len(heap) \in Nat /\ Len(heap') \in Nat
  BY SMT DEF AInv, PoolsOK
<1>3. ASSUME NEW q \in Goroutines PROVE LocalOK(g'[q], Len(heap'))
  <2>1. CASE q = p
    BY <2>1, <1>1
  <2>2. CASE q # p
    <3>1. LocalOK(g[q], Len(heap)) /\ g'[q] = g[q]
      BY <2>2, <1>1 DEF AInv
    <3>2. \A x \in 1..Len(heap) : x \in 1..Len(heap')
      BY SMT, <1>2
    <3>3. LocalOK(g[q], Len(heap'))
      BY <3>1, <3>2 DEF LocalOK
    <3> QED BY <3>1, <3>3
  <2> QED BY <2>1, <2>2
<1>4. ASSUME NEW q \in Goroutines, NEW i \in Slots(g'[q]) PROVE Taken(g'[q].kvs[i], ch', pool')
  BY <1>1, <1>4
<1>5. ASSUME NEW q \in Goroutines, NEW r \in Goroutines, NEW i \in Slots(g'[q]), NEW j \in Slots(g'[r]),
             g'[q].kvs[i] = g'[r].kvs[j]
      PROVE  q = r /\ i = j
  <2>1. CASE q = p /\ r = p
    BY <2>1, <1>1, <1>5
  <2>2. CASE q = p /\ r # p
    BY SMT, <2>2, <1>1, <1>5 DEF NobodyElse
  <2>3. CASE q # p /\ r = p
    BY SMT, <2>3, <1>1, <1>5 DEF NobodyElse
  <2>4. CASE q # p /\ r # p
    BY <2>4, <1>1, <1>5 DEF AInv, OwnersOK
  <2> QED BY <2>1, <2>2, <2>3, <2>4
<1>6. OwnersOK(g', ch', pool')
  BY <1>4, <1>5 DEF OwnersOK
<1> QED BY <1>1, <1>3, <1>6 DEF AInv

LEMMA OwnsAlone ==
    ASSUME AInv, NEW p \in Goroutines, NEW f, Owns(p, f)
    PROVE  NobodyElse(p, f) /\ Taken(f, ch, pool)
BY SMT DEF AInv, OwnersOK, Owns, NobodyElse

\* A step that leaves the heap and the pools alone.
LEMMA MovedOnly ==
    ASSUME AInv, NEW p \in Goroutines, NEW s \in Goroutine, g' = [g EXCEPT ![p] = s],
           UNCHANGED <<heap, ch, pool>>, LocalOK(s, Len(heap)),
           \A i, j \in Slots(s) : s.kvs[i] = s.kvs[j] => i = j,
           \A i \in Slots(s) : Owns(p, s.kvs[i]),
           PointsOK(g', points', freePoints')
    PROVE  AInv'
<1>1. \A i \in Slots(s) : Taken(s.kvs[i], ch', pool') /\ NobodyElse(p, s.kvs[i])
  BY OwnsAlone
<1>2. \A q \in Goroutines \ {p} : \A j \in Slots(g[q]) : Taken(g[q].kvs[j], ch', pool')
  BY DEF AInv, OwnersOK
<1>3. PoolsOK(heap', ch', pool') /\ Len(heap') >= Len(heap) /\ LocalOK(s, Len(heap'))
  BY SMT DEF AInv, PoolsOK
<1> QED BY <1>1, <1>2, <1>3, Moved

\* A step that puts a key-value of p.
LEMMA MovedGiving ==
    ASSUME AInv, NEW p \in Goroutines, NEW s \in Goroutine, g' = [g EXCEPT ![p] = s],
           NEW f \in 1..Len(heap), Owns(p, f), PutKV(f), LocalOK(s, Len(heap)),
           \A i, j \in Slots(s) : s.kvs[i] = s.kvs[j] => i = j,
           \A i \in Slots(s) : Owns(p, s.kvs[i]) /\ s.kvs[i] # f,
           PointsOK(g', points', freePoints')
    PROVE  AInv'
<1>1. PoolsOK(heap, ch, pool) /\ Taken(f, ch, pool) /\ NobodyElse(p, f)
  BY OwnsAlone DEF AInv
<1>2. /\ PoolsOK(heap', ch', pool') /\ Len(heap') = Len(heap)
      /\ \A x : Taken(x, ch, pool) /\ x # f => Taken(x, ch', pool')
  BY <1>1, GiveKV
<1>3. \A i \in Slots(s) : Taken(s.kvs[i], ch', pool') /\ NobodyElse(p, s.kvs[i])
  BY <1>2, OwnsAlone
<1>4. \A q \in Goroutines \ {p} : \A j \in Slots(g[q]) : Taken(g[q].kvs[j], ch', pool')
  BY <1>1, <1>2 DEF AInv, OwnersOK, NobodyElse
<1>5. Len(heap') >= Len(heap) /\ LocalOK(s, Len(heap'))
  BY SMT, <1>2 DEF AInv, PoolsOK
<1> QED BY <1>2, <1>3, <1>4, <1>5, Moved

\* A step that gets a key-value for p.
LEMMA MovedTaking ==
    ASSUME AInv, NEW p \in Goroutines, NEW s \in Goroutine, g' = [g EXCEPT ![p] = s],
           NEW k \in Kinds, NEW f \in Got(k), NEW key \in Texts, NEW v \in Contents, GetKV(f, key, k, v),
           f \in 1..Len(heap') /\ Len(heap') >= Len(heap) => LocalOK(s, Len(heap')),
           \A i \in Slots(s) : s.kvs[i] = f \/ Owns(p, s.kvs[i]),
           ~ Owns(p, f) => \A i, j \in Slots(s) : s.kvs[i] = s.kvs[j] => i = j,
           PointsOK(g', points', freePoints')
    PROVE  AInv'
<1>1. /\ PoolsOK(heap', ch', pool') /\ f \in 1..Len(heap') /\ Len(heap') >= Len(heap)
      /\ Taken(f, ch', pool')
      /\ ~ Taken(f, ch, pool) \/ f = Len(heap) + 1
      /\ \A x : Taken(x, ch, pool) => Taken(x, ch', pool')
  BY TakeKV DEF AInv
<1>2. ASSUME NEW q \in Goroutines, NEW j \in Slots(g[q]) PROVE g[q].kvs[j] # f
  <2>1. Taken(g[q].kvs[j], ch, pool)
    BY DEF AInv, OwnersOK
  <2>2. g[q].kvs[j] \in 1..Len(heap)
    BY SMT, SlotsInBounds DEF AInv
  <2>3. Len(heap) \in Nat
    BY SMT DEF AInv, PoolsOK
  <2> QED BY SMT, <1>1, <2>1, <2>2, <2>3
<1>3. NobodyElse(p, f) /\ ~ Owns(p, f)
  BY <1>2 DEF NobodyElse, Owns
<1>4. \A i \in Slots(s) : Taken(s.kvs[i], ch', pool') /\ NobodyElse(p, s.kvs[i])
  BY <1>1, <1>3, OwnsAlone
<1>5. \A q \in Goroutines \ {p} : \A j \in Slots(g[q]) : Taken(g[q].kvs[j], ch', pool')
  BY <1>1 DEF AInv, OwnersOK
<1> QED BY <1>1, <1>3, <1>4, <1>5, Moved

\* A step that leaves the points alone.
LEMMA PointsSame ==
    ASSUME AInv, NEW p \in Goroutines, NEW s, g' = [g EXCEPT ![p] = s],
           s.pt = g[p].pt, s.pc \in Having => g[p].pc \in Having, UNCHANGED <<points, freePoints>>
    PROVE  PointsOK(g', points', freePoints')
<1>1. g'[p] = s /\ \A q \in Goroutines \ {p} : g'[q] = g[q]
  BY DEF AInv
<1> QED BY SMT, <1>1 DEF AInv, PointsOK

-----------------------------------------------------------------------------
(* The steps *)

LEMMA InitAInv == Init => AInv
<1> SUFFICES ASSUME Init PROVE AInv
  OBVIOUS
<1>1. Bare("idle", <<>>, 0, 0) \in Goroutine /\ Slots(Bare("idle", <<>>, 0, 0)) = {} /\ LocalOK(Bare("idle", <<>>, 0, 0), 0)
  BY SMT DEF Bare, Goroutine, PCs, Slots, LocalOK
<1>2. g \in [Goroutines -> Goroutine] /\ \A p \in Goroutines : g[p] = Bare("idle", <<>>, 0, 0)
  BY <1>1 DEF Init
<1>3. PoolsOK(heap, ch, pool) /\ Len(heap) = 0
  BY SMT DEF Init, PoolsOK
<1>4. OwnersOK(g, ch, pool)
  BY <1>1, <1>2 DEF OwnersOK
<1>5. PointsOK(g, points, freePoints)
  BY SMT, <1>2 DEF Init, PointsOK, Bare, Having
<1> QED BY <1>1, <1>2, <1>3, <1>4, <1>5 DEF AInv

LEMMA StartStep ==
    ASSUME AInv, NEW p \in Goroutines, NEW in \in Inputs, StartPoint(p, in)
    PROVE  AInv'
<1> DEFINE s == Bare("build", in, 0, g[p].made + 1)
<1>1. g[p] \in Goroutine /\ LocalOK(g[p], Len(heap))
  BY DEF AInv
<1>2. /\ s \in Goroutine /\ s.pc = "build" /\ s.kvs = <<>> /\ s.pt = 0
      /\ s.in = in /\ s.idx = 0 /\ s.i = 1
  <2>1. g[p].made + 1 \in Nat
    BY SMT, <1>1 DEF Goroutine
  <2> QED BY SMT, <2>1 DEF Bare, Goroutine, PCs
<1>3. g' = [g EXCEPT ![p] = s] /\ UNCHANGED <<heap, ch, pool, freePoints, points>> /\ g[p].pc = "idle"
  BY DEF StartPoint
<1> HIDE DEF s
<1>4. Slots(s) = {} /\ LocalOK(s, Len(heap))
  BY SMT, <1>2 DEF Slots, LocalOK
<1>5. s.pt = g[p].pt /\ s.pc \notin Having
  BY <1>1, <1>2, <1>3 DEF LocalOK, Having
<1>6. PointsOK(g', points', freePoints')
  BY <1>3, <1>5, PointsSame
<1> QED BY <1>2, <1>3, <1>4, <1>6, MovedOnly

LEMMA NewKVStep ==
    ASSUME AInv, NEW p \in Goroutines, NewKV(p)
    PROVE  AInv'
<1> DEFINE kv == g[p].in.kvs[g[p].i]
<1>1. g[p] \in Goroutine /\ LocalOK(g[p], Len(heap)) /\ g[p].pc = "build"
  BY DEF AInv, NewKV
<1>2. g[p].in \in Inputs /\ g[p].i \in 1..Len(g[p].in.kvs) /\ g[p].idx = 0 /\ g[p].pt = 0
  <2>1. g[p].in \in Inputs /\ g[p].idx = 0 /\ g[p].pt = 0 /\ g[p].i >= 1
    BY <1>1 DEF LocalOK
  <2>2. g[p].i \in Nat /\ Len(g[p].in.kvs) \in Nat /\ g[p].i <= Len(g[p].in.kvs)
    <3>1. Len(g[p].in.kvs) \in Nat
      BY SMT, <2>1, InputsAssumption
    <3>2. g[p].i \in Nat /\ g[p].i <= Len(g[p].in.kvs)
      BY <1>1 DEF Goroutine, NewKV
    <3> QED BY <3>1, <3>2
  <2> QED BY SMT, <2>1, <2>2
<1>3. kv \in Keys \X Kinds \X Values
  BY SMT, <1>2, InputsAssumption
<1>4. kv[1] \in Texts /\ kv[2] \in Kinds /\ kv[3] \in Contents
  BY <1>3 DEF Texts, Contents
<1>5. PICK f \in Got(kv[2]) : /\ GetKV(f, kv[1], kv[2], kv[3])
                              /\ g' = [g EXCEPT ![p].kvs = Append(@, f), ![p].i = @ + 1]
  BY DEF NewKV
<1> HIDE DEF kv
<1> DEFINE s == [g[p] EXCEPT !.kvs = Append(@, f), !.i = @ + 1]
<1>6. g' = [g EXCEPT ![p] = s]
  BY <1>5 DEF AInv
<1>7. f \in Nat
  BY SMT, <1>4, <1>5, TakeKV DEF AInv, PoolsOK
<1>8. /\ s \in Goroutine /\ s.pc = "build" /\ s.kvs = Append(g[p].kvs, f) /\ s.in = g[p].in
      /\ s.idx = 0 /\ s.i = g[p].i + 1 /\ s.pt = 0
  <2>1. Append(g[p].kvs, f) \in Seq(Nat) /\ g[p].i + 1 \in Nat
    BY SMT, <1>1, <1>7 DEF Goroutine
  <2> QED BY <1>1, <1>2, <2>1 DEF Goroutine
<1> HIDE DEF s
<1>9. g[p].kvs \in Seq(Nat) /\ Len(g[p].kvs) \in Nat
  BY SMT, <1>1 DEF Goroutine
<1>10. /\ Len(s.kvs) = Len(g[p].kvs) + 1 /\ s.kvs[Len(g[p].kvs) + 1] = f
       /\ \A j \in 1..Len(g[p].kvs) : s.kvs[j] = g[p].kvs[j]
       /\ \A j \in 1..Len(s.kvs) : j \in 1..Len(g[p].kvs) \/ j = Len(g[p].kvs) + 1
  BY SMTT(30), <1>7, <1>8, <1>9
<1>11. Slots(s) = 1..Len(s.kvs) /\ Slots(g[p]) = 1..Len(g[p].kvs)
  BY <1>1, <1>8 DEF Slots
<1>12. f \in 1..Len(heap') /\ Len(heap') >= Len(heap) => LocalOK(s, Len(heap'))
  <2> SUFFICES ASSUME f \in 1..Len(heap'), Len(heap') >= Len(heap) PROVE LocalOK(s, Len(heap'))
    OBVIOUS
  <2>1. Len(heap) \in Nat /\ Len(heap') \in Nat
    BY SMT, <1>4, <1>5, TakeKV DEF AInv, PoolsOK
  <2>2. \A j \in 1..Len(g[p].kvs) : g[p].kvs[j] \in 1..Len(heap')
    BY SMT, <1>1, <2>1 DEF LocalOK
  <2>3. \A j \in 1..Len(s.kvs) : s.kvs[j] \in 1..Len(heap')
    BY <1>10, <2>2
  <2>4. s.i >= 1
    BY SMT, <1>1, <1>8 DEF LocalOK, Goroutine
  <2> QED BY <1>2, <1>8, <2>3, <2>4 DEF LocalOK
<1>13. \A i \in Slots(s) : s.kvs[i] = f \/ Owns(p, s.kvs[i])
  BY <1>10, <1>11 DEF Owns
<1>14. ASSUME ~ Owns(p, f), NEW i \in Slots(s), NEW j \in Slots(s), s.kvs[i] = s.kvs[j] PROVE i = j
  <2>1. \A x, y \in 1..Len(g[p].kvs) : g[p].kvs[x] = g[p].kvs[y] => x = y
    BY <1>11 DEF AInv, OwnersOK
  <2>2. \A x \in 1..Len(g[p].kvs) : g[p].kvs[x] # f
    BY <1>11, <1>14 DEF Owns
  <2> QED BY <1>10, <1>11, <1>14, <2>1, <2>2
<1>15. PointsOK(g', points', freePoints')
  BY <1>1, <1>2, <1>6, <1>8, PointsSame DEF NewKV, Having
<1>16. ~ Owns(p, f) => \A i, j \in Slots(s) : s.kvs[i] = s.kvs[j] => i = j
  BY <1>14
<1>17. GetKV(f, kv[1], kv[2], kv[3])
  BY <1>5
<1>18. s \in Goroutine
  BY <1>8
<1> QED BY <1>4, <1>6, <1>12, <1>13, <1>15, <1>16, <1>17, <1>18, MovedTaking, ZenonT(30)

\* The point is new, or was in the pool.
LEMMA GetStep ==
    ASSUME AInv, NEW p \in Goroutines, Get(p)
    PROVE  AInv'
<1>1. g[p] \in Goroutine /\ LocalOK(g[p], Len(heap)) /\ g[p].pc = "build"
  BY DEF AInv, Get
<1>2. PICK pt \in freePoints \cup {Len(points) + 1} :
         /\ points' = IF pt > Len(points) THEN Append(points, TRUE) ELSE [points EXCEPT ![pt] = TRUE]
         /\ freePoints' = freePoints \ {pt}
         /\ g' = [g EXCEPT ![p].pc = "check", ![p].pt = pt, ![p].i = 1]
  BY DEF Get
<1>3. points \in Seq(BOOLEAN) /\ freePoints \subseteq 1..Len(points) /\ Len(points) \in Nat
  BY SMT DEF AInv, PointsOK
<1>4. pt \in Nat /\ (pt \in freePoints \/ pt = Len(points) + 1)
  BY SMT, <1>2, <1>3
<1> DEFINE s == [g[p] EXCEPT !.pc = "check", !.pt = pt, !.i = 1]
<1>5. g' = [g EXCEPT ![p] = s]
  BY <1>2 DEF AInv
<1>6. /\ s \in Goroutine /\ s.pc = "check" /\ s.pt = pt /\ s.kvs = g[p].kvs /\ s.i = 1
      /\ s.idx = g[p].idx
  BY <1>1, <1>4 DEF Goroutine, PCs
<1> HIDE DEF s
<1>7. g[p].idx = 0 /\ Len(g[p].kvs) \in Nat
  BY SMT, <1>1 DEF LocalOK, Goroutine
<1>8. LocalOK(s, Len(heap))
  BY SMT, <1>1, <1>6, <1>7 DEF LocalOK
<1>9. Slots(s) = 1..Len(g[p].kvs) /\ Slots(g[p]) = 1..Len(g[p].kvs)
  BY SMT, <1>1, <1>6, <1>7 DEF Slots
<1>10. \A i, j \in Slots(s) : s.kvs[i] = s.kvs[j] => i = j
  BY SMT, <1>6, <1>9 DEF AInv, OwnersOK
<1>11. \A i \in Slots(s) : Owns(p, s.kvs[i])
  BY <1>6, <1>9 DEF Owns
<1>12. PointsOK(g', points', freePoints')
  <2>1. /\ points' \in Seq(BOOLEAN) /\ Len(points') >= Len(points) /\ Len(points') \in Nat
        /\ pt \in 1..Len(points') /\ freePoints' \subseteq 1..Len(points')
    <3>1. CASE pt \in freePoints
      <4>1. pt \in 1..Len(points) /\ ~ (pt > Len(points))
        BY SMT, <1>3, <3>1
      <4>2. points' = [points EXCEPT ![pt] = TRUE]
        BY <1>2, <4>1, Zenon
      <4>3. points' \in Seq(BOOLEAN) /\ Len(points') = Len(points)
        BY SMT, <1>3, <4>1, <4>2
      <4>4. freePoints' \subseteq 1..Len(points')
        BY <1>2, <1>3, <4>3, Zenon
      <4> QED BY SMT, <1>3, <4>1, <4>3, <4>4
    <3>2. CASE pt = Len(points) + 1
      <4>1. pt > Len(points)
        BY SMT, <1>3, <3>2
      <4>2. points' = Append(points, TRUE)
        BY <1>2, <4>1, Zenon
      <4>3. points' \in Seq(BOOLEAN) /\ Len(points') = Len(points) + 1
        BY SMT, <1>3, <4>2
      <4>4. \A x \in 1..Len(points) : x \in 1..Len(points')
        BY SMT, <1>3, <4>3
      <4>5. freePoints' \subseteq 1..Len(points')
        BY <1>2, <1>3, <4>4, Zenon
      <4>6. Len(points') >= Len(points) /\ Len(points') \in Nat /\ pt \in 1..Len(points')
        BY SMT, <1>3, <3>2, <4>3
      <4> QED BY <4>3, <4>5, <4>6
    <3> QED BY <1>4, <3>1, <3>2
  <2>2. g'[p].pt = pt /\ \A q \in Goroutines \ {p} : g'[q] = g[q]
    BY <1>5, <1>6 DEF AInv
  <2>3. \A q \in Goroutines \ {p} : g[q].pc \in Having => g[q].pt # pt /\ g[q].pt \in 1..Len(points) \ freePoints
    BY SMT, <1>3, <1>4 DEF AInv, PointsOK
  <2>4. \A x \in 1..Len(points) : x \in 1..Len(points')
    BY SMT, <1>3, <2>1
  <2>5. \A q \in Goroutines : g'[q].pc \in Having => g'[q].pt \in 1..Len(points') \ freePoints'
    <3>1. pt \notin freePoints'
      BY <1>2
    <3>2. \A q \in Goroutines \ {p} : g'[q].pc \in Having => g'[q].pt \in 1..Len(points') /\ g'[q].pt \notin freePoints'
      <4> SUFFICES ASSUME NEW q \in Goroutines \ {p}, g'[q].pc \in Having
                   PROVE  g'[q].pt \in 1..Len(points') /\ g'[q].pt \notin freePoints'
        OBVIOUS
      <4>1. g'[q] = g[q]
        BY <2>2
      <4>2. g[q].pt \in 1..Len(points) /\ g[q].pt \notin freePoints
        BY <2>3, <4>1
      <4>3. g[q].pt \in 1..Len(points') /\ g[q].pt \notin freePoints'
        BY <1>2, <2>4, <4>2
      <4> QED BY <4>1, <4>3
    <3> QED BY <2>1, <2>2, <3>1, <3>2
  <2>6. ASSUME NEW q \in Goroutines, NEW r \in Goroutines, q # r, g'[q].pc \in Having, g'[r].pc \in Having
        PROVE  g'[q].pt # g'[r].pt
    BY <2>2, <2>3, <2>6 DEF AInv, PointsOK
  <2> QED BY <2>1, <2>5, <2>6 DEF PointsOK
<1>13. UNCHANGED <<heap, ch, pool>>
  BY DEF Get
<1> QED BY <1>5, <1>6, <1>8, <1>10, <1>11, <1>12, <1>13, MovedOnly

\* The slots the check has not given up.
Rest(s) == 1..s.idx \cup s.i + 1..Len(s.kvs)

\* What holds of them while a slot is checked.
LEMMA RestOK ==
    ASSUME AInv, NEW p \in Goroutines,
           \/ g[p].pc = "check" /\ g[p].i <= Len(g[p].kvs)
           \/ g[p].pc = "convert"
    PROVE  /\ g[p] \in Goroutine /\ g[p].kvs \in Seq(Nat) /\ Len(g[p].kvs) \in Nat
           /\ g[p].i \in 1..Len(g[p].kvs) /\ g[p].idx \in Nat /\ g[p].idx < g[p].i
           /\ \A j \in 1..Len(g[p].kvs) : g[p].kvs[j] \in 1..Len(heap)
           /\ \A j \in Rest(g[p]) : j \in 1..Len(g[p].kvs) /\ j # g[p].i /\ Owns(p, g[p].kvs[j])
           /\ \A i, j \in Rest(g[p]) : g[p].kvs[i] = g[p].kvs[j] => i = j
           /\ g[p].pc = "check" => /\ Owns(p, g[p].kvs[g[p].i])
                                   /\ \A j \in Rest(g[p]) : g[p].kvs[j] # g[p].kvs[g[p].i]
<1>1. g[p] \in Goroutine /\ LocalOK(g[p], Len(heap))
  BY DEF AInv
<1>2. /\ g[p].kvs \in Seq(Nat) /\ Len(g[p].kvs) \in Nat /\ g[p].i \in Nat /\ g[p].idx \in Nat
      /\ g[p].i >= 1 /\ g[p].idx < g[p].i /\ g[p].i <= Len(g[p].kvs)
      /\ \A j \in 1..Len(g[p].kvs) : g[p].kvs[j] \in 1..Len(heap)
  BY SMT, <1>1 DEF LocalOK, Goroutine
<1>3. \A j \in Rest(g[p]) : j \in 1..Len(g[p].kvs) /\ j # g[p].i
  BY SMT, <1>2 DEF Rest
<1>4. CASE g[p].pc = "check"
  <2>1. Slots(g[p]) = 1..g[p].idx \cup g[p].i..Len(g[p].kvs)
    BY <1>4 DEF Slots
  <2>2. Rest(g[p]) \subseteq Slots(g[p]) /\ g[p].i \in Slots(g[p])
    BY SMT, <1>2, <2>1 DEF Rest
  <2>3. \A i, j \in Slots(g[p]) : g[p].kvs[i] = g[p].kvs[j] => i = j
    BY DEF AInv, OwnersOK
  <2>4. \A j \in Slots(g[p]) : Owns(p, g[p].kvs[j])
    BY DEF Owns
  <2> QED BY SMTT(30), <1>1, <1>2, <1>3, <2>2, <2>3, <2>4
<1>5. CASE g[p].pc = "convert"
  <2>1. Slots(g[p]) = Rest(g[p])
    BY <1>5 DEF Slots, Rest
  <2>2. \A i, j \in Slots(g[p]) : g[p].kvs[i] = g[p].kvs[j] => i = j
    BY DEF AInv, OwnersOK
  <2>3. \A j \in Slots(g[p]) : Owns(p, g[p].kvs[j])
    BY DEF Owns
  <2> QED BY SMT, <1>1, <1>2, <1>3, <1>5, <2>1, <2>2, <2>3
<1> QED BY <1>4, <1>5

\* A slot that is kept moves down to the next free place.
LEMMA KeptOK ==
    ASSUME AInv, NEW p \in Goroutines, NEW f \in Nat,
           \/ g[p].pc = "check" /\ g[p].i <= Len(g[p].kvs)
           \/ g[p].pc = "convert"
    PROVE  LET s == Kept(g[p], f) IN
           /\ s \in Goroutine /\ s.pc = "check" /\ s.pt = g[p].pt
           /\ \A n \in Nat : f \in 1..n /\ n >= Len(heap) => LocalOK(s, n)
           /\ \A i \in Slots(s) : s.kvs[i] = f \/ \E j \in Rest(g[p]) : s.kvs[i] = g[p].kvs[j]
           /\ (\A j \in Rest(g[p]) : g[p].kvs[j] # f) =>
                 \A i, j \in Slots(s) : s.kvs[i] = s.kvs[j] => i = j
<1> DEFINE o == g[p]
           s == Kept(o, f)
<1>1. /\ o \in Goroutine /\ o.kvs \in Seq(Nat) /\ Len(o.kvs) \in Nat
      /\ o.i \in 1..Len(o.kvs) /\ o.idx \in Nat /\ o.idx < o.i
      /\ \A j \in 1..Len(o.kvs) : o.kvs[j] \in 1..Len(heap)
      /\ \A i, j \in Rest(o) : o.kvs[i] = o.kvs[j] => i = j
  BY RestOK
<1>2. [o.kvs EXCEPT ![o.idx + 1] = f] \in Seq(Nat) /\ o.idx + 1 \in Nat /\ o.i + 1 \in Nat
  <2>1. o.idx + 1 \in 1..Len(o.kvs) /\ o.idx + 1 \in Nat /\ o.i + 1 \in Nat
    BY SMT, <1>1
  <2> DEFINE n == o.idx + 1
             q == o.kvs
  <2>2. n \in 1..Len(q) /\ q \in Seq(Nat)
    BY <1>1, <2>1
  <2> HIDE DEF n, q
  <2>3. [q EXCEPT ![n] = f] \in Seq(Nat)
    BY SMT, <2>2
  <2> QED BY <2>1, <2>3 DEF n, q
<1>3. /\ s \in Goroutine /\ s.pc = "check" /\ s.pt = o.pt /\ s.idx = o.idx + 1 /\ s.i = o.i + 1
      /\ s.kvs = [o.kvs EXCEPT ![o.idx + 1] = f]
  BY <1>1, <1>2 DEF Kept, Goroutine, PCs
<1> HIDE DEF s, o
<1>4. /\ Len(s.kvs) = Len(o.kvs) /\ s.kvs[o.idx + 1] = f
      /\ \A j \in 1..Len(o.kvs) : j # o.idx + 1 => s.kvs[j] = o.kvs[j]
  BY SMTT(30), <1>1, <1>3
<1>5. Slots(s) = 1..o.idx + 1 \cup o.i + 1..Len(o.kvs)
  BY <1>3, <1>4 DEF Slots
<1>6. \A i \in Slots(s) : i = o.idx + 1 \/ (i \in Rest(o) /\ i \in 1..Len(o.kvs) /\ i # o.idx + 1)
  BY SMT, <1>1, <1>5 DEF Rest
<1>7. \A i \in Slots(s) : \/ i = o.idx + 1 /\ s.kvs[i] = f
                          \/ i \in Rest(o) /\ s.kvs[i] = o.kvs[i]
  BY <1>4, <1>6
<1>8. ASSUME NEW n \in Nat, f \in 1..n, n >= Len(heap) PROVE LocalOK(s, n)
  <2>1. Len(heap) \in Nat
    BY SMT DEF AInv, PoolsOK
  <2>2. \A x \in 1..Len(heap) : x \in 1..n
    BY SMT, <1>8, <2>1
  <2>3. \A j \in 1..Len(s.kvs) : s.kvs[j] \in 1..n
    BY <1>1, <1>4, <1>8, <2>2
  <2>4. s.i >= 1 /\ s.idx < s.i /\ s.i <= Len(s.kvs) + 1
    BY SMTT(30), <1>1, <1>3, <1>4
  <2> QED BY <1>3, <2>3, <2>4 DEF LocalOK
<1>9. \A i \in Slots(s) : s.kvs[i] = f \/ \E j \in Rest(o) : s.kvs[i] = o.kvs[j]
  BY <1>7
<1>10. ASSUME \A j \in Rest(o) : o.kvs[j] # f, NEW i \in Slots(s), NEW j \in Slots(s), s.kvs[i] = s.kvs[j]
       PROVE  i = j
  BY <1>1, <1>7, <1>10
<1> QED BY <1>3, <1>8, <1>9, <1>10 DEF s, o

LEMMA CheckStep ==
    ASSUME AInv, NEW p \in Goroutines, CheckKV(p)
    PROVE  AInv'
<1> DEFINE o == g[p]
           f == o.kvs[o.i]
<1>1. /\ o \in Goroutine /\ o.kvs \in Seq(Nat) /\ Len(o.kvs) \in Nat
      /\ o.i \in 1..Len(o.kvs) /\ o.idx \in Nat /\ o.idx < o.i
      /\ \A j \in 1..Len(o.kvs) : o.kvs[j] \in 1..Len(heap)
      /\ \A j \in Rest(o) : Owns(p, o.kvs[j]) /\ o.kvs[j] # f
      /\ \A i, j \in Rest(o) : o.kvs[i] = o.kvs[j] => i = j
      /\ Owns(p, f) /\ o.pc = "check"
  BY RestOK DEF CheckKV
<1>2. LocalOK(o, Len(heap)) /\ UNCHANGED <<points, freePoints>> /\ f \in 1..Len(heap)
  BY <1>1 DEF AInv, CheckKV
<1>3. o.pc \in Having /\ "check" \in Having /\ "convert" \in Having /\ "panic" \in Having
  BY <1>1 DEF Having
<1>4. CASE PutKV(f) /\ g' = [g EXCEPT ![p].i = @ + 1]
  <2> DEFINE s == [o EXCEPT !.i = @ + 1]
  <2>1. g' = [g EXCEPT ![p] = s]
    BY <1>4 DEF AInv
  <2>2. o.i + 1 \in Nat
    BY SMT, <1>1
  <2>3. s \in Goroutine /\ s.pc = "check" /\ s.pt = o.pt /\ s.kvs = o.kvs /\ s.idx = o.idx /\ s.i = o.i + 1
    BY <1>1, <2>2 DEF Goroutine
  <2> HIDE DEF s, o
  <2>4. Slots(s) = Rest(o)
    BY <2>3 DEF Slots, Rest
  <2>5. LocalOK(s, Len(heap))
    BY SMT, <1>1, <2>3 DEF LocalOK
  <2>6. PointsOK(g', points', freePoints')
    BY <1>2, <1>3, <2>1, <2>3, PointsSame DEF o
  <2>7. \A i, j \in Slots(s) : s.kvs[i] = s.kvs[j] => i = j
    BY <1>1, <2>3, <2>4
  <2>8. \A i \in Slots(s) : Owns(p, s.kvs[i]) /\ s.kvs[i] # f
    BY <1>1, <2>3, <2>4
  <2>9. s \in Goroutine /\ Owns(p, f) /\ PutKV(f) /\ f \in 1..Len(heap)
    BY <1>1, <1>2, <1>4, <2>3
  <2> HIDE DEF f
  <2> QED BY <2>1, <2>5, <2>6, <2>7, <2>8, <2>9, MovedGiving, ZenonT(30)
<1>5. CASE g' = [g EXCEPT ![p].pc = "panic"] /\ UNCHANGED <<heap, ch, pool>>
  <2> DEFINE s == [o EXCEPT !.pc = "panic"]
  <2>1. g' = [g EXCEPT ![p] = s]
    BY <1>5 DEF AInv
  <2>3. s \in Goroutine /\ s.pc = "panic" /\ s.pt = o.pt /\ s.kvs = o.kvs /\ s.idx = o.idx /\ s.i = o.i
    BY <1>1 DEF Goroutine, PCs
  <2> HIDE DEF s
  <2>4. Slots(s) = {} /\ LocalOK(s, Len(heap))
    BY <1>2, <2>3 DEF Slots, LocalOK
  <2>5. PointsOK(g', points', freePoints')
    BY <1>2, <1>3, <2>1, <2>3, PointsSame
  <2> QED BY <1>5, <2>1, <2>3, <2>4, <2>5, MovedOnly
<1>6. CASE g' = [g EXCEPT ![p] = Kept(@, f)] /\ UNCHANGED <<heap, ch, pool>>
  <2> DEFINE s == Kept(o, f)
  <2>1. g' = [g EXCEPT ![p] = s]
    BY <1>6 DEF AInv
  <2>2. f \in Nat /\ Len(heap) \in Nat
    BY SMT, <1>2 DEF AInv, PoolsOK
  <2>3. /\ s \in Goroutine /\ s.pc = "check" /\ s.pt = o.pt
        /\ \A n \in Nat : f \in 1..n /\ n >= Len(heap) => LocalOK(s, n)
        /\ \A i \in Slots(s) : s.kvs[i] = f \/ \E j \in Rest(o) : s.kvs[i] = o.kvs[j]
        /\ (\A j \in Rest(o) : o.kvs[j] # f) => \A i, j \in Slots(s) : s.kvs[i] = s.kvs[j] => i = j
    <3>1. g[p].pc = "check" /\ g[p].i <= Len(g[p].kvs)
      BY DEF CheckKV
    <3> HIDE DEF f
    <3> QED BY <2>2, <3>1, KeptOK
  <2> HIDE DEF s
  <2>4. LocalOK(s, Len(heap))
    BY SMT, <1>2, <2>2, <2>3
  <2>5. PointsOK(g', points', freePoints')
    BY <1>2, <1>3, <2>1, <2>3, PointsSame
  <2>6. \A i, j \in Slots(s) : s.kvs[i] = s.kvs[j] => i = j
    BY <1>1, <2>3
  <2>7. \A i \in Slots(s) : Owns(p, s.kvs[i])
    BY <1>1, <2>3
  <2>8. s \in Goroutine /\ UNCHANGED <<heap, ch, pool>>
    BY <1>6, <2>3
  <2> QED BY <2>1, <2>4, <2>5, <2>6, <2>7, <2>8, MovedOnly, ZenonT(30)
<1>7. CASE PutKV(f) /\ g' = [g EXCEPT ![p].pc = "convert"]
  <2> DEFINE s == [o EXCEPT !.pc = "convert"]
  <2>1. g' = [g EXCEPT ![p] = s]
    BY <1>7 DEF AInv
  <2>3. s \in Goroutine /\ s.pc = "convert" /\ s.pt = o.pt /\ s.kvs = o.kvs /\ s.idx = o.idx /\ s.i = o.i
    BY <1>1 DEF Goroutine, PCs
  <2> HIDE DEF s, o
  <2>4. Slots(s) = Rest(o)
    BY <2>3 DEF Slots, Rest
  <2>5. LocalOK(s, Len(heap))
    BY SMT, <1>1, <2>3 DEF LocalOK
  <2>6. PointsOK(g', points', freePoints')
    BY <1>2, <1>3, <2>1, <2>3, PointsSame DEF o
  <2>7. \A i, j \in Slots(s) : s.kvs[i] = s.kvs[j] => i = j
    BY <1>1, <2>3, <2>4
  <2>8. \A i \in Slots(s) : Owns(p, s.kvs[i]) /\ s.kvs[i] # f
    BY <1>1, <2>3, <2>4
  <2>9. s \in Goroutine /\ Owns(p, f) /\ PutKV(f) /\ f \in 1..Len(heap)
    BY <1>1, <1>2, <1>7, <2>3
  <2> HIDE DEF f
  <2> QED BY <2>1, <2>5, <2>6, <2>7, <2>8, <2>9, MovedGiving, ZenonT(30)
<1> QED BY <1>4, <1>5, <1>6, <1>7 DEF CheckKV

LEMMA ConvertStep ==
    ASSUME AInv, NEW p \in Goroutines, Convert(p)
    PROVE  AInv'
<1> DEFINE o == g[p]
           old == heap[o.kvs[o.i]]
<1>1. /\ o \in Goroutine /\ o.i \in 1..Len(o.kvs)
      /\ \A j \in 1..Len(o.kvs) : o.kvs[j] \in 1..Len(heap)
      /\ \A j \in Rest(o) : Owns(p, o.kvs[j])
      /\ o.pc = "convert"
  BY RestOK DEF Convert
<1>2. heap \in Seq(Field) /\ Len(heap) \in Nat
  BY SMT DEF AInv, PoolsOK
<1>3. old \in Field
  BY SMT, <1>1, <1>2
<1>4. old.key \in Texts /\ old.val \in Contents /\ "I" \in Kinds
  BY <1>3, KindsAssumption DEF Field
<1>5. PICK f \in Got("I") : /\ GetKV(f, old.key, "I", old.val)
                            /\ g' = [g EXCEPT ![p] = Kept(@, f)]
  BY DEF Convert
<1> DEFINE s == Kept(o, f)
<1>6. g' = [g EXCEPT ![p] = s]
  BY <1>5 DEF AInv
<1> HIDE DEF old
<1>7. PoolsOK(heap', ch', pool') /\ f \in 1..Len(heap')
  BY <1>4, <1>5, TakeKV DEF AInv
<1>8. f \in Nat /\ Len(heap') \in Nat
  BY SMT, <1>7 DEF PoolsOK
<1>9. /\ s \in Goroutine /\ s.pc = "check" /\ s.pt = o.pt
      /\ \A n \in Nat : f \in 1..n /\ n >= Len(heap) => LocalOK(s, n)
      /\ \A i \in Slots(s) : s.kvs[i] = f \/ \E j \in Rest(o) : s.kvs[i] = o.kvs[j]
      /\ (\A j \in Rest(o) : o.kvs[j] # f) => \A i, j \in Slots(s) : s.kvs[i] = s.kvs[j] => i = j
  BY <1>1, <1>8, KeptOK
<1> HIDE DEF s
<1>10. f \in 1..Len(heap') /\ Len(heap') >= Len(heap) => LocalOK(s, Len(heap'))
  BY <1>8, <1>9
<1>11. \A i \in Slots(s) : s.kvs[i] = f \/ Owns(p, s.kvs[i])
  BY <1>1, <1>9
<1>12. ~ Owns(p, f) => \A i, j \in Slots(s) : s.kvs[i] = s.kvs[j] => i = j
  BY <1>1, <1>9
<1>13. PointsOK(g', points', freePoints')
  <2>1. o.pc \in Having /\ UNCHANGED <<points, freePoints>>
    BY <1>1 DEF Having, Convert
  <2> QED BY <1>6, <1>9, <2>1, PointsSame
<1>14. s \in Goroutine /\ GetKV(f, old.key, "I", old.val)
  BY <1>5, <1>9
<1> HIDE DEF o
<1> QED BY <1>4, <1>6, <1>10, <1>11, <1>12, <1>13, <1>14, MovedTaking, ZenonT(30)

LEMMA CheckedStep ==
    ASSUME AInv, NEW p \in Goroutines, Checked(p)
    PROVE  AInv'
<1> DEFINE o == g[p]
           s == [o EXCEPT !.pc = "have", !.kvs = SubSeq(@, 1, o.idx)]
<1>1. /\ o \in Goroutine /\ LocalOK(o, Len(heap)) /\ o.pc = "check" /\ o.i > Len(o.kvs)
      /\ UNCHANGED <<heap, ch, pool, points, freePoints>>
  BY DEF AInv, Checked
<1>2. g' = [g EXCEPT ![p] = s]
  BY DEF AInv, Checked
<1>3. o.kvs \in Seq(Nat) /\ Len(o.kvs) \in Nat /\ o.idx \in Nat /\ o.i \in Nat /\ o.i >= 1 /\ o.idx <= Len(o.kvs)
  BY SMT, <1>1 DEF LocalOK, Goroutine
<1>4. SubSeq(o.kvs, 1, o.idx) \in Seq(Nat)
  BY SMTT(30), <1>3
<1>5. /\ s \in Goroutine /\ s.pc = "have" /\ s.pt = o.pt /\ s.kvs = SubSeq(o.kvs, 1, o.idx)
      /\ s.idx = o.idx /\ s.i = o.i
  BY <1>1, <1>4 DEF Goroutine, PCs
<1> HIDE DEF s
<1>6. Len(s.kvs) = o.idx /\ \A j \in 1..o.idx : s.kvs[j] = o.kvs[j] /\ j \in 1..Len(o.kvs)
  BY SMTT(30), <1>3, <1>5
<1>7. Slots(s) = 1..o.idx /\ 1..o.idx \subseteq Slots(o)
  BY <1>1, <1>5, <1>6 DEF Slots
<1>8. LocalOK(s, Len(heap))
  BY <1>1, <1>3, <1>5, <1>6 DEF LocalOK
<1>9. \A i, j \in Slots(s) : s.kvs[i] = s.kvs[j] => i = j
  BY SMT, <1>6, <1>7 DEF AInv, OwnersOK
<1>10. \A i \in Slots(s) : Owns(p, s.kvs[i])
  BY <1>6, <1>7 DEF Owns
<1>11. PointsOK(g', points', freePoints')
  BY <1>1, <1>2, <1>5, PointsSame DEF Having
<1>12. s \in Goroutine /\ UNCHANGED <<heap, ch, pool>>
  BY <1>1, <1>5
<1> HIDE DEF o
<1> QED BY <1>2, <1>8, <1>9, <1>10, <1>11, <1>12, MovedOnly, ZenonT(30)

\* A goroutine that panics owns nothing any more.
LEMMA PanicStep ==
    ASSUME AInv, NEW p \in Goroutines, g[p].pc \in Having, g' = [g EXCEPT ![p].pc = "panic"],
           UNCHANGED <<heap, ch, pool, points, freePoints>>
    PROVE  AInv'
<1> DEFINE s == [g[p] EXCEPT !.pc = "panic"]
<1>1. g[p] \in Goroutine /\ LocalOK(g[p], Len(heap)) /\ g' = [g EXCEPT ![p] = s]
  BY DEF AInv
<1>2. s \in Goroutine /\ s.pc = "panic" /\ s.pt = g[p].pt /\ s.kvs = g[p].kvs /\ s.i = g[p].i
  BY <1>1 DEF Goroutine, PCs
<1> HIDE DEF s
<1>3. Slots(s) = {} /\ LocalOK(s, Len(heap))
  BY <1>1, <1>2 DEF Slots, LocalOK
<1>4. PointsOK(g', points', freePoints')
  BY <1>1, <1>2, PointsSame
<1> QED BY <1>1, <1>2, <1>3, <1>4, MovedOnly

LEMMA DelStep ==
    ASSUME AInv, NEW p \in Goroutines, NEW i \in 1..Len(g[p].kvs), Del(p, i)
    PROVE  AInv'
<1> DEFINE o == g[p]
           n == Len(o.kvs)
           f == o.kvs[i]
           rest == SubSeq([o.kvs EXCEPT ![i] = o.kvs[n]], 1, n - 1)
           s == [o EXCEPT !.kvs = rest]
<1>1. /\ o \in Goroutine /\ LocalOK(o, Len(heap)) /\ o.pc = "have" /\ o.pc \in Having
      /\ UNCHANGED <<points, freePoints>>
  BY DEF AInv, Del, Having
<1>2. CASE Panics(f)
  BY <1>1, <1>2, PanicStep DEF Del
<1>3. CASE ~ Panics(f)
  <2>1. PutKV(f) /\ g' = [g EXCEPT ![p] = s]
    BY <1>3 DEF AInv, Del
  <2>2. o.kvs \in Seq(Nat) /\ n \in Nat /\ i \in 1..n /\ n >= 1 /\ o.kvs[n] \in Nat
    BY SMTT(30), <1>1 DEF Goroutine
  <2> DEFINE moved == [o.kvs EXCEPT ![i] = o.kvs[n]]
  <2>3. moved \in Seq(Nat) /\ Len(moved) = n /\ \A j \in 1..n : moved[j] = IF j = i THEN o.kvs[n] ELSE o.kvs[j]
    <3> DEFINE q == o.kvs
               v == o.kvs[n]
    <3>1. q \in Seq(Nat) /\ v \in Nat /\ i \in 1..Len(q)
      BY <2>2
    <3> HIDE DEF q, v
    <3>2. /\ [q EXCEPT ![i] = v] \in Seq(Nat) /\ Len([q EXCEPT ![i] = v]) = Len(q)
          /\ \A j \in 1..Len(q) : [q EXCEPT ![i] = v][j] = IF j = i THEN v ELSE q[j]
      BY SMT, <3>1
    <3> QED BY <3>2 DEF q, v
  <2> HIDE DEF moved
  <2>4. rest = SubSeq(moved, 1, n - 1)
    BY DEF moved
  <2>5. rest \in Seq(Nat) /\ Len(rest) = n - 1 /\ \A j \in 1..n - 1 : rest[j] = moved[j] /\ j \in 1..n
    <3> HIDE DEF rest, n
    <3> QED BY SMTT(30), <2>2, <2>3, <2>4
  <2> HIDE DEF rest
  <2>6. s \in Goroutine /\ s.pc = "have" /\ s.pt = o.pt /\ s.kvs = rest /\ s.i = o.i
    BY <1>1, <2>5 DEF Goroutine
  <2> HIDE DEF s
  <2>7. Slots(s) = 1..n - 1 /\ Slots(o) = 1..n
    BY <1>1, <2>5, <2>6 DEF Slots
  <2>8. \A x, y \in 1..n : o.kvs[x] = o.kvs[y] => x = y
    BY <2>7 DEF AInv, OwnersOK
  <2>9. \A j \in 1..n - 1 : s.kvs[j] = IF j = i THEN o.kvs[n] ELSE o.kvs[j]
    BY <2>3, <2>5, <2>6
  <2> HIDE DEF n
  <2>10. \A x, y \in Slots(s) : s.kvs[x] = s.kvs[y] => x = y
    BY SMTT(30), <2>2, <2>7, <2>8, <2>9
  <2>11. \A x \in Slots(s) : \E y \in 1..n : s.kvs[x] = o.kvs[y] /\ y # i
    BY SMT, <2>2, <2>7, <2>9
  <2>12. \A y \in 1..n : Owns(p, o.kvs[y])
    BY <2>7 DEF Owns
  <2>13. \A x \in Slots(s) : Owns(p, s.kvs[x]) /\ s.kvs[x] # f
    BY <2>2, <2>8, <2>11, <2>12
  <2>14. \A j \in 1..n : o.kvs[j] \in 1..Len(heap)
    BY <1>1 DEF LocalOK, n
  <2>15. \A j \in 1..Len(s.kvs) : s.kvs[j] \in 1..Len(heap)
    <3>1. 1..Len(s.kvs) = Slots(s)
      BY <2>5, <2>6, <2>7
    <3> QED BY <2>11, <2>14, <3>1, Zenon
  <2>16. LocalOK(s, Len(heap))
    BY <1>1, <2>6, <2>15 DEF LocalOK
  <2>17. PointsOK(g', points', freePoints')
    BY <1>1, <2>1, <2>6, PointsSame
  <2>18. s \in Goroutine /\ Owns(p, f) /\ f \in 1..Len(heap)
    BY <2>2, <2>6, <2>12, <2>14
  <2> HIDE DEF f, o
  <2> QED BY <2>1, <2>10, <2>13, <2>16, <2>17, <2>18, MovedGiving, ZenonT(30)
<1> QED BY <1>2, <1>3

LEMMA PutStep ==
    ASSUME AInv, NEW p \in Goroutines, Put(p)
    PROVE  AInv'
<1> DEFINE o == g[p]
           next == IF points[o.pt] THEN "put" ELSE "escaped"
           s == [o EXCEPT !.pc = next, !.i = 1]
<1>1. /\ o \in Goroutine /\ LocalOK(o, Len(heap)) /\ o.pc = "have"
      /\ UNCHANGED <<heap, ch, pool, points, freePoints>>
  BY DEF AInv, Put
<1>2. g' = [g EXCEPT ![p] = s]
  BY DEF AInv, Put
<1>3. next \in {"put", "escaped"}
  OBVIOUS
<1> HIDE DEF next
<1>4. s \in Goroutine /\ s.pc = next /\ s.pt = o.pt /\ s.kvs = o.kvs /\ s.i = 1
  BY <1>1, <1>3 DEF Goroutine, PCs
<1> HIDE DEF s
<1>5. Slots(o) = 1..Len(o.kvs) /\ (Slots(s) = 1..Len(o.kvs) \/ Slots(s) = {})
  BY <1>1, <1>3, <1>4 DEF Slots
<1>6. LocalOK(s, Len(heap))
  BY SMT, <1>1, <1>3, <1>4 DEF LocalOK
<1>7. \A i, j \in Slots(s) : s.kvs[i] = s.kvs[j] => i = j
  BY SMT, <1>4, <1>5 DEF AInv, OwnersOK
<1>8. \A i \in Slots(s) : Owns(p, s.kvs[i])
  BY <1>4, <1>5 DEF Owns
<1>9. PointsOK(g', points', freePoints')
  BY <1>1, <1>2, <1>4, PointsSame DEF Having
<1>10. s \in Goroutine /\ UNCHANGED <<heap, ch, pool>>
  BY <1>1, <1>4
<1> HIDE DEF o
<1> QED BY <1>2, <1>6, <1>7, <1>8, <1>9, <1>10, MovedOnly, ZenonT(30)

LEMMA PutNextStep ==
    ASSUME AInv, NEW p \in Goroutines, PutNext(p)
    PROVE  AInv'
<1> DEFINE o == g[p]
           f == o.kvs[o.i]
           s == [o EXCEPT !.i = @ + 1]
<1>1. /\ o \in Goroutine /\ LocalOK(o, Len(heap)) /\ o.pc = "put" /\ o.pc \in Having
      /\ o.i <= Len(o.kvs) /\ UNCHANGED <<points, freePoints>>
  BY DEF AInv, PutNext, Having
<1>2. CASE Panics(f)
  BY <1>1, <1>2, PanicStep DEF PutNext
<1>3. CASE ~ Panics(f)
  <2>1. PutKV(f) /\ g' = [g EXCEPT ![p] = s]
    BY <1>3 DEF AInv, PutNext
  <2>2. Len(o.kvs) \in Nat /\ o.i \in 1..Len(o.kvs) /\ o.i + 1 \in Nat
    BY SMT, <1>1 DEF Goroutine, LocalOK
  <2>3. s \in Goroutine /\ s.pc = "put" /\ s.pt = o.pt /\ s.kvs = o.kvs /\ s.i = o.i + 1
    BY <1>1, <2>2 DEF Goroutine
  <2> HIDE DEF s
  <2>4. Slots(o) = o.i..Len(o.kvs) /\ Slots(s) = o.i + 1..Len(o.kvs)
    BY <1>1, <2>3 DEF Slots
  <2>5. o.i \in Slots(o) /\ \A j \in Slots(s) : j \in Slots(o) /\ j # o.i
    BY SMT, <2>2, <2>4
  <2>6. \A x, y \in Slots(o) : o.kvs[x] = o.kvs[y] => x = y
    BY DEF AInv, OwnersOK
  <2>7. \A x \in Slots(o) : Owns(p, o.kvs[x])
    BY DEF Owns
  <2>8. \A x, y \in Slots(s) : s.kvs[x] = s.kvs[y] => x = y
    BY <2>3, <2>5, <2>6
  <2>9. \A x \in Slots(s) : Owns(p, s.kvs[x]) /\ s.kvs[x] # f
    BY <2>3, <2>5, <2>6, <2>7
  <2>10. LocalOK(s, Len(heap))
    <3>1. s.i >= 1
      BY SMT, <2>2, <2>3
    <3> QED BY <1>1, <2>3, <3>1 DEF LocalOK
  <2>11. PointsOK(g', points', freePoints')
    BY <1>1, <2>1, <2>3, PointsSame
  <2>12. s \in Goroutine /\ Owns(p, f) /\ f \in 1..Len(heap)
    BY <1>1, <2>2, <2>3, <2>5, <2>7 DEF LocalOK
  <2> HIDE DEF f, o
  <2> QED BY <2>1, <2>8, <2>9, <2>10, <2>11, <2>12, MovedGiving, ZenonT(30)
<1> QED BY <1>2, <1>3

LEMMA PutPointStep ==
    ASSUME AInv, NEW p \in Goroutines, PutPoint(p)
    PROVE  AInv'
<1> DEFINE pt == g[p].pt
           n == g[p].made
           s == Bare("gone", <<>>, pt, n)
<1>1. g[p] \in Goroutine /\ g[p].pc = "put" /\ UNCHANGED <<heap, ch, pool>>
  BY DEF AInv, PutPoint
<1>2. pt \in Nat /\ n \in Nat
  BY <1>1 DEF Goroutine
<1>3. g' = [g EXCEPT ![p] = s]
  BY DEF PutPoint
<1> HIDE DEF n
<1>4. s \in Goroutine /\ s.pc = "gone" /\ s.kvs = <<>> /\ s.i = 1
  BY SMT, <1>2 DEF Bare, Goroutine, PCs
<1> HIDE DEF s
<1>5. Slots(s) = {} /\ LocalOK(s, Len(heap))
  BY SMT, <1>4 DEF Slots, LocalOK
<1>6. PointsOK(g', points', freePoints')
  <2>1. points \in Seq(BOOLEAN) /\ freePoints \subseteq 1..Len(points) /\ pt \in 1..Len(points)
    BY <1>1 DEF AInv, PointsOK, Having
  <2>2. points' = [points EXCEPT ![pt] = FALSE] /\ freePoints' = freePoints \cup {pt}
    BY DEF PutPoint
  <2>3. points' \in Seq(BOOLEAN) /\ Len(points') = Len(points)
    BY SMT, <2>1, <2>2
  <2>4. freePoints' \subseteq 1..Len(points')
    BY <2>1, <2>2, <2>3, Zenon
  <2>5. g'[p].pc \notin Having /\ \A q \in Goroutines \ {p} : g'[q] = g[q]
    BY <1>3, <1>4 DEF AInv, Having
  <2>6. \A q \in Goroutines \ {p} : g[q].pc \in Having => g[q].pt # pt /\ g[q].pt \in 1..Len(points) \ freePoints
    BY <1>1 DEF AInv, PointsOK, Having
  <2>7. ASSUME NEW q \in Goroutines, g'[q].pc \in Having
        PROVE  g'[q].pt \in 1..Len(points') \ freePoints'
    <3>1. q # p /\ g'[q] = g[q]
      BY <2>5, <2>7
    <3>2. g[q].pt # pt /\ g[q].pt \in 1..Len(points) /\ g[q].pt \notin freePoints
      BY <2>6, <2>7, <3>1
    <3> QED BY <2>2, <2>3, <3>1, <3>2, Zenon
  <2>8. ASSUME NEW q \in Goroutines, NEW r \in Goroutines, q # r, g'[q].pc \in Having, g'[r].pc \in Having
        PROVE  g'[q].pt # g'[r].pt
    BY <2>5, <2>8 DEF AInv, PointsOK
  <2> QED BY <2>3, <2>4, <2>7, <2>8 DEF PointsOK
<1> QED BY <1>1, <1>3, <1>4, <1>5, <1>6, MovedOnly

LEMMA LeaveStep ==
    ASSUME AInv, NEW p \in Goroutines, PutAgain(p) \/ Forget(p)
    PROVE  AInv'
<1> DEFINE s == [g[p] EXCEPT !.pc = "idle", !.pt = 0]
<1>1. /\ g[p] \in Goroutine /\ LocalOK(g[p], Len(heap)) /\ g[p].pc = "gone" /\ g' = [g EXCEPT ![p] = s]
      /\ UNCHANGED <<heap, ch, pool, points, freePoints>>
  BY DEF AInv, PutAgain, Forget
<1>2. s \in Goroutine /\ s.pc = "idle" /\ s.pt = 0 /\ s.kvs = g[p].kvs /\ s.i = g[p].i
  BY <1>1 DEF Goroutine, PCs
<1> HIDE DEF s
<1>3. Slots(s) = {} /\ LocalOK(s, Len(heap))
  BY <1>1, <1>2 DEF Slots, LocalOK
<1>4. PointsOK(g', points', freePoints')
  <2>1. g'[p].pc \notin Having /\ \A q \in Goroutines \ {p} : g'[q] = g[q]
    BY <1>1, <1>2 DEF AInv, Having
  <2> QED BY <1>1, <2>1 DEF AInv, PointsOK
<1> QED BY <1>1, <1>2, <1>3, <1>4, MovedOnly

LEMMA NextAInv ==
    ASSUME AInv, [Next]_vars
    PROVE  AInv'
<1>1. CASE UNCHANGED vars
  BY <1>1 DEF vars, AInv
<1>2. CASE Next
  <2> SUFFICES ASSUME NEW p \in Goroutines,
                      \/ \E in \in Inputs : StartPoint(p, in)
                      \/ NewKV(p) \/ Get(p) \/ CheckKV(p) \/ Convert(p) \/ Checked(p)
                      \/ \E i \in 1..Len(g[p].kvs) : Del(p, i)
                      \/ Put(p) \/ PutNext(p) \/ PutPoint(p) \/ PutAgain(p) \/ Forget(p)
               PROVE  AInv'
    BY <1>2 DEF Next
  <2> QED BY StartStep, NewKVStep, GetStep, CheckStep, ConvertStep, CheckedStep, DelStep, PutStep,
             PutNextStep, PutPointStep, LeaveStep
<1> QED BY <1>1, <1>2

-----------------------------------------------------------------------------
(* One owner *)

LEMMA AInvNoAlias == AInv => NoAlias
<1> SUFFICES ASSUME AInv PROVE NoAlias
  OBVIOUS
<1>1. \A p : OwnSlots(p) = Slots(g[p])
  BY DEF OwnSlots, Slots
<1>2. \A p, q \in Goroutines : \A i \in OwnSlots(p), j \in OwnSlots(q) :
        g[p].kvs[i] = g[q].kvs[j] => p = q /\ i = j
  BY <1>1 DEF AInv, OwnersOK
<1>3. ASSUME NEW k \in Kinds
      PROVE  /\ \A i, j \in 1..Len(ch[k]) : ch[k][i] = ch[k][j] => i = j
             /\ \A i \in 1..Len(ch[k]) : ch[k][i] \notin pool[k]
             /\ \A f \in Free(k) : heap[f].kind = k
             /\ \A p \in Goroutines : \A i \in OwnSlots(p) : g[p].kvs[i] \notin Free(k)
  <2>1. /\ \A i \in 1..Len(ch[k]) : heap[ch[k][i]].kind = k /\ ch[k][i] \notin pool[k]
        /\ \A i, j \in 1..Len(ch[k]) : ch[k][i] = ch[k][j] => i = j
        /\ \A f \in pool[k] : heap[f].kind = k
    BY DEF AInv, PoolsOK
  <2>2. \A f : f \in Free(k) <=> f \in pool[k] \/ \E i \in 1..Len(ch[k]) : f = ch[k][i]
    BY DEF Free
  <2>3. \A p \in Goroutines : \A i \in OwnSlots(p) : Taken(g[p].kvs[i], ch, pool)
    BY <1>1 DEF AInv, OwnersOK
  <2>4. \A f : Taken(f, ch, pool) => f \notin Free(k)
    BY <2>2 DEF Taken
  <2> QED BY SMT, <2>1, <2>2, <2>3, <2>4
<1>4. ASSUME NEW p \in Goroutines, NEW q \in Goroutines, g[p].pc \in {"check", "convert", "have", "put"}
      PROVE  g[p].pt \notin freePoints /\ (p # q /\ g[q].pc # "gone" => g[p].pt # g[q].pt)
  <2>1. g[p].pc \in Having /\ g[p].pt \in 1..Len(points) /\ g[p].pt \notin freePoints
    BY <1>4 DEF AInv, PointsOK, Having
  <2>2. ASSUME p # q, g[q].pc # "gone" PROVE g[p].pt # g[q].pt
    <3>1. CASE g[q].pc \in Having
      BY <2>1, <2>2, <3>1 DEF AInv, PointsOK
    <3>2. CASE g[q].pc \notin Having
      <4>1. g[q] \in Goroutine /\ LocalOK(g[q], Len(heap))
        BY DEF AInv
      <4>2. g[q].pc \in {"idle", "build"}
        BY <2>2, <3>2, <4>1 DEF Goroutine, PCs, Having
      <4>3. g[q].pt = 0
        BY <4>1, <4>2 DEF LocalOK
      <4> QED BY SMT, <2>1, <4>3
    <3> QED BY <3>1, <3>2
  <2> QED BY <2>1, <2>2
<1> QED BY <1>2, <1>3, <1>4 DEF NoAlias

\* Whatever the goroutines build, drop, convert, delete and give back, and
\* however their steps interleave, no key-value and no point has two owners.
THEOREM PoolExclusive == Spec => []NoAlias
<1>1. Init => AInv
  BY InitAInv
<1>2. AInv /\ [Next]_vars => AInv'
  BY NextAInv
<1>3. AInv => NoAlias
  BY AInvNoAlias
<1> QED BY <1>1, <1>2, <1>3, PTL DEF Spec

-----------------------------------------------------------------------------
(* What the key-values hold *)

\* A key-value with this content was made of the input kv.
Matches(kv, x) ==
    /\ kv[1] = x.key
    /\ kv[3] = x.val \/ (kv[3] = NoArray /\ x.val = Zero)

\* What is in a pool was reset.
FreeClean(h, c, o) == \A f \in 1..Len(h) : Taken(f, c, o) \/ h[f].val = Zero

\* The key-values of a goroutine in the state s are those of its input, in its
\* order until the check drops one.
Filled(s, h) ==
    /\ s.in \in Inputs /\ Len(s.kvs) = s.i - 1 /\ s.i <= Len(s.in.kvs) + 1
    /\ \A j \in Slots(s) : Matches(s.in.kvs[j], h[s.kvs[j]])

Kin(s, h) == \A j \in Slots(s) : \E k \in 1..Len(s.in.kvs) : Matches(s.in.kvs[k], h[s.kvs[j]])

Whole(s, h) ==
    /\ s.idx = s.i - 1 /\ Len(s.kvs) = Len(s.in.kvs)
    /\ \A j \in Slots(s) : h[s.kvs[j]].key = s.in.kvs[j][1]

FieldsOK(s, h) ==
    /\ s.pc = "build" => Filled(s, h)
    /\ s.pc \in {"check", "have"} /\ s.in.enableU64Field => Kin(s, h)
    /\ s.pc = "check" /\ s.in.enableU64Field /\ Valid(s.in.kvs) => Whole(s, h)
    /\ s.pc = "convert" => ~ s.in.enableU64Field
    /\ s.pc \in {"check", "convert", "have"} => s.in \in Inputs

FInv ==
    /\ FreeClean(heap, ch, pool)
    /\ \A p \in Goroutines : FieldsOK(g[p], heap)

\* The heaps h and k differ outside the slots of s.
Same(s, h, k) == \A j \in Slots(s) : k[s.kvs[j]] = h[s.kvs[j]]

LEMMA Untouched ==
    ASSUME NEW s, NEW h, NEW k, FieldsOK(s, h), Same(s, h, k)
    PROVE  FieldsOK(s, k)
<1>1. Filled(s, h) => Filled(s, k)
  BY DEF Filled, Same
<1>2. Kin(s, h) => Kin(s, k)
  BY DEF Kin, Same
<1>3. Whole(s, h) => Whole(s, k)
  BY DEF Whole, Same
<1> QED BY <1>1, <1>2, <1>3 DEF FieldsOK

\* p moves to the state s.
LEMMA FilledMoved ==
    ASSUME AInv, FInv, NEW p \in Goroutines, NEW s, g' = [g EXCEPT ![p] = s],
           FreeClean(heap', ch', pool'), FieldsOK(s, heap'),
           \A q \in Goroutines \ {p} : Same(g[q], heap, heap')
    PROVE  FInv'
<1>1. g'[p] = s /\ \A q \in Goroutines \ {p} : g'[q] = g[q]
  BY DEF AInv
<1>2. ASSUME NEW q \in Goroutines \ {p} PROVE FieldsOK(g'[q], heap')
  <2>1. FieldsOK(g[q], heap) /\ g'[q] = g[q] /\ Same(g[q], heap, heap')
    BY <1>1 DEF FInv
  <2>2. FieldsOK(g[q], heap')
    BY <2>1, Untouched
  <2> QED BY <2>1, <2>2
<1> QED BY <1>1, <1>2 DEF FInv

\* A step that leaves the heap and the pools alone.
LEMMA FilledMovedOnly ==
    ASSUME AInv, FInv, NEW p \in Goroutines, NEW s, g' = [g EXCEPT ![p] = s],
           UNCHANGED <<heap, ch, pool>>, FieldsOK(s, heap)
    PROVE  FInv'
<1>1. FreeClean(heap', ch', pool') /\ FieldsOK(s, heap') /\ \A q \in Goroutines : Same(g[q], heap, heap')
  BY DEF FInv, Same
<1> QED BY <1>1, FilledMoved

\* A step that puts a key-value of p, which is reset.
LEMMA FilledMovedGiving ==
    ASSUME AInv, FInv, NEW p \in Goroutines, NEW s, g' = [g EXCEPT ![p] = s],
           NEW f \in 1..Len(heap), Owns(p, f), PutKV(f),
           (\A x \in 1..Len(heap) : x # f => heap'[x] = heap[x]) => FieldsOK(s, heap')
    PROVE  FInv'
<1>1. PoolsOK(heap, ch, pool) /\ Taken(f, ch, pool) /\ NobodyElse(p, f)
  BY OwnsAlone DEF AInv
<1>2. /\ Len(heap') = Len(heap)
      /\ \A x : Taken(x, ch, pool) /\ x # f => Taken(x, ch', pool')
  BY <1>1, GiveKV
<1>3. heap'[f].val = Zero /\ \A x \in 1..Len(heap) : x # f => heap'[x] = heap[x]
  <2>1. heap \in Seq(Field) /\ heap[f] \in Field
    BY SMT, <1>1 DEF PoolsOK
  <2> DEFINE new == [heap[f] EXCEPT !.key = NoKey, !.val = Zero]
  <2>2. new.val = Zero /\ heap' = [heap EXCEPT ![f] = new]
    BY <2>1 DEF PutKV, Field
  <2> HIDE DEF new
  <2> QED BY SMT, <2>1, <2>2
<1>4. FreeClean(heap', ch', pool')
  BY <1>2, <1>3 DEF FInv, FreeClean
<1>5. ASSUME NEW q \in Goroutines \ {p}, NEW j \in Slots(g[q]) PROVE heap'[g[q].kvs[j]] = heap[g[q].kvs[j]]
  <2>1. g[q].kvs[j] \in 1..Len(heap)
    BY SMT, SlotsInBounds DEF AInv, PoolsOK
  <2> QED BY <1>1, <1>3, <2>1 DEF NobodyElse
<1>6. \A q \in Goroutines \ {p} : Same(g[q], heap, heap')
  BY <1>5 DEF Same
<1> QED BY <1>3, <1>4, <1>6, FilledMoved

\* What f holds after it was got for this input.
Made(h, f, key, v) == h[f].key = key /\ (v = h[f].val \/ (v = NoArray /\ h[f].val = Zero))

\* A step that gets a key-value for p: nothing of its last owner is left.
LEMMA FilledMovedTaking ==
    ASSUME AInv, FInv, NEW p \in Goroutines, NEW s, g' = [g EXCEPT ![p] = s],
           NEW k \in Kinds, NEW f \in Got(k), NEW key \in Texts, NEW v \in Contents, GetKV(f, key, k, v),
           Made(heap', f, key, v) /\ Same(g[p], heap, heap') => FieldsOK(s, heap')
    PROVE  FInv'
<1>1. /\ PoolsOK(heap', ch', pool') /\ f \in 1..Len(heap') /\ Len(heap') >= Len(heap)
      /\ Taken(f, ch', pool')
      /\ ~ Taken(f, ch, pool) \/ f = Len(heap) + 1
      /\ \A x : Taken(x, ch, pool) => Taken(x, ch', pool')
  BY TakeKV DEF AInv
<1>2. heap \in Seq(Field) /\ heap' \in Seq(Field) /\ Len(heap) \in Nat /\ Len(heap') \in Nat /\ f \in Nat
  BY SMT, <1>1 DEF AInv, PoolsOK
<1>3. /\ Made(heap', f, key, v)
      /\ \A x \in 1..Len(heap) : x # f => heap'[x] = heap[x]
      /\ \A x \in 1..Len(heap') : x # f => x \in 1..Len(heap)
  <2> DEFINE old == IF f > Len(heap) THEN [key |-> NoKey, kind |-> k, val |-> IF k = "A" THEN NoArray ELSE Zero]
                    ELSE heap[f]
             new == [old EXCEPT !.key = key, !.val = IF v = NoArray THEN @ ELSE v]
  <2>1. old \in Field /\ old.val \in {NoArray, Zero}
    <3>1. CASE f > Len(heap)
      BY <3>1 DEF Field, Texts, Contents
    <3>2. CASE ~ (f > Len(heap))
      <4>1. f \in 1..Len(heap) /\ f # Len(heap) + 1
        BY SMT, <3>2, <1>1, <1>2
      <4>2. heap[f] \in Field
        BY SMT, <4>1, <1>2
      <4>3. heap[f].val = Zero
        BY <1>1, <4>1 DEF FInv, FreeClean
      <4> QED BY <3>2, <4>2, <4>3
    <3> QED BY <3>1, <3>2
  <2> HIDE DEF old
  <2>2. new.key = key /\ (v = new.val \/ (v = NoArray /\ new.val = Zero))
    BY <2>1 DEF Field
  <2>3. heap' = IF f > Len(heap) THEN Append(heap, new) ELSE [heap EXCEPT ![f] = new]
    BY DEF GetKV, old
  <2> HIDE DEF new
  <2>4. f \in 1..Len(heap) \/ f = Len(heap) + 1
    BY SMT, <1>1, <1>2, <2>3 DEF Got
  <2>5. heap'[f] = new
    BY SMT, <1>2, <2>3, <2>4
  <2>6. \A x \in 1..Len(heap) : x # f => heap'[x] = heap[x]
    BY SMT, <1>2, <2>3, <2>4
  <2>7. \A x \in 1..Len(heap') : x # f => x \in 1..Len(heap)
    BY SMT, <1>2, <2>3, <2>4
  <2> QED BY <2>2, <2>5, <2>6, <2>7 DEF Made
<1>4. ASSUME NEW q \in Goroutines, NEW j \in Slots(g[q]) PROVE heap'[g[q].kvs[j]] = heap[g[q].kvs[j]]
  <2>1. Taken(g[q].kvs[j], ch, pool)
    BY DEF AInv, OwnersOK
  <2>2. g[q].kvs[j] \in 1..Len(heap)
    BY SMT, SlotsInBounds DEF AInv, PoolsOK
  <2>3. g[q].kvs[j] # Len(heap) + 1
    BY SMT, <1>2, <2>2
  <2> QED BY <1>1, <1>3, <2>1, <2>2, <2>3
<1>5. FreeClean(heap', ch', pool')
  BY <1>1, <1>3 DEF FInv, FreeClean
<1>6. \A q \in Goroutines : Same(g[q], heap, heap')
  BY <1>4 DEF Same
<1> QED BY <1>3, <1>5, <1>6, FilledMoved

\* The states of a goroutine that says nothing of its key-values.
Quiet == {"idle", "put", "gone", "panic", "escaped"}

LEMMA QuietOK ==
    ASSUME NEW s, NEW h, s.pc \in Quiet
    PROVE  FieldsOK(s, h)
BY DEF FieldsOK, Quiet

\* What s has in the heap k, o had in the heap h.
Fewer(o, s, h, k) ==
    \A i \in Slots(s) : \E j \in Slots(o) : s.kvs[i] = o.kvs[j] /\ k[o.kvs[j]] = h[o.kvs[j]]

LEMMA FewerOK ==
    ASSUME NEW o, NEW s, NEW h, NEW k, Kin(o, h), s.in = o.in, Fewer(o, s, h, k)
    PROVE  Kin(s, k)
<1> SUFFICES ASSUME NEW i \in Slots(s) PROVE \E n \in 1..Len(s.in.kvs) : Matches(s.in.kvs[n], k[s.kvs[i]])
  BY DEF Kin
<1>1. PICK j \in Slots(o) : s.kvs[i] = o.kvs[j] /\ k[o.kvs[j]] = h[o.kvs[j]]
  BY DEF Fewer
<1>2. PICK n \in 1..Len(o.in.kvs) : Matches(o.in.kvs[n], h[o.kvs[j]])
  BY DEF Kin
<1> QED BY <1>1, <1>2

-----------------------------------------------------------------------------
(* The steps keep what they hold *)

LEMMA InitFInv == Init => FInv
<1> SUFFICES ASSUME Init PROVE FInv
  OBVIOUS
<1>1. Bare("idle", <<>>, 0, 0).pc \in Quiet
  BY DEF Bare, Quiet
<1>2. \A p \in Goroutines : FieldsOK(g[p], heap)
  BY <1>1, QuietOK DEF Init
<1>3. FreeClean(heap, ch, pool)
  BY SMT DEF Init, FreeClean
<1> QED BY <1>2, <1>3 DEF FInv

LEMMA StartFilled ==
    ASSUME AInv, FInv, NEW p \in Goroutines, NEW in \in Inputs, StartPoint(p, in)
    PROVE  FInv'
<1> DEFINE s == Bare("build", in, 0, g[p].made + 1)
<1>1. g' = [g EXCEPT ![p] = s] /\ UNCHANGED <<heap, ch, pool>>
  BY DEF StartPoint
<1>2. s.pc = "build" /\ s.in = in /\ s.kvs = <<>> /\ s.i = 1
  BY DEF Bare
<1> HIDE DEF s
<1>3. Slots(s) = {}
  BY SMT, <1>2 DEF Slots
<1>4. Len(in.kvs) \in Nat
  BY SMT, InputsAssumption
<1>5. Len(s.kvs) = s.i - 1 /\ s.i <= Len(s.in.kvs) + 1
  BY SMT, <1>2, <1>4
<1>6. Filled(s, heap)
  BY <1>2, <1>3, <1>5 DEF Filled
<1>7. FieldsOK(s, heap)
  BY <1>2, <1>6 DEF FieldsOK
<1> QED BY <1>1, <1>7, FilledMovedOnly

LEMMA NewKVFilled ==
    ASSUME AInv, FInv, NEW p \in Goroutines, NewKV(p)
    PROVE  FInv'
<1> DEFINE o == g[p]
           kv == o.in.kvs[o.i]
<1>1. o \in Goroutine /\ LocalOK(o, Len(heap)) /\ o.pc = "build" /\ o.i <= Len(o.in.kvs)
  BY DEF AInv, NewKV
<1>2. Filled(o, heap)
  BY <1>1 DEF FInv, FieldsOK
<1>3. o.in \in Inputs /\ Len(o.in.kvs) \in Nat /\ o.i \in 1..Len(o.in.kvs) /\ Len(o.kvs) = o.i - 1
  <2>1. Len(o.in.kvs) \in Nat
    BY SMT, <1>2, InputsAssumption DEF Filled
  <2>2. o.i \in Nat /\ o.i >= 1
    BY <1>1 DEF Goroutine, LocalOK
  <2>3. o.i \in 1..Len(o.in.kvs)
    BY SMT, <1>1, <2>1, <2>2
  <2> QED BY <1>2, <2>1, <2>3 DEF Filled
<1>4. kv \in Keys \X Kinds \X Values
  BY SMT, <1>3, InputsAssumption
<1>5. kv[1] \in Texts /\ kv[2] \in Kinds /\ kv[3] \in Contents
  BY <1>4 DEF Texts, Contents
<1>6. PICK f \in Got(kv[2]) : /\ GetKV(f, kv[1], kv[2], kv[3])
                              /\ g' = [g EXCEPT ![p].kvs = Append(@, f), ![p].i = @ + 1]
  BY DEF NewKV
<1> DEFINE s == [o EXCEPT !.kvs = Append(@, f), !.i = @ + 1]
<1>7. g' = [g EXCEPT ![p] = s]
  BY <1>6 DEF AInv
<1>8. s.pc = "build" /\ s.kvs = Append(o.kvs, f) /\ s.in = o.in /\ s.i = o.i + 1
  BY <1>1 DEF Goroutine
<1> HIDE DEF s
<1>9. o.kvs \in Seq(Nat) /\ f \in Nat /\ o.i \in Nat
  <2>1. f \in Nat
    <3> HIDE DEF kv
    <3> QED BY SMT, <1>5, <1>6, TakeKV DEF AInv, PoolsOK
  <2> QED BY <1>1, <2>1 DEF Goroutine
<1>10. /\ Len(s.kvs) = s.i - 1 /\ s.i <= Len(s.in.kvs) + 1 /\ s.kvs[o.i] = f
       /\ \A j \in 1..Len(s.kvs) : j = o.i \/ (j \in 1..Len(o.kvs) /\ s.kvs[j] = o.kvs[j])
  <2> DEFINE q == o.kvs
             i == o.i
  <2>1. q \in Seq(Nat) /\ i \in Nat /\ Len(q) = i - 1 /\ s.kvs = Append(q, f) /\ s.i = i + 1
    BY <1>3, <1>8, <1>9
  <2>2. s.i <= Len(s.in.kvs) + 1
    BY SMT, <1>3, <1>8
  <2> HIDE DEF q, i
  <2>3. /\ Len(s.kvs) = s.i - 1 /\ s.kvs[i] = f
        /\ \A j \in 1..Len(s.kvs) : j = i \/ (j \in 1..Len(q) /\ s.kvs[j] = q[j])
    BY SMT, <1>9, <2>1
  <2> QED BY <2>2, <2>3 DEF q, i
<1>11. Slots(s) = 1..Len(s.kvs) /\ Slots(o) = 1..Len(o.kvs)
  BY <1>1, <1>8 DEF Slots
<1>12. ASSUME Made(heap', f, kv[1], kv[3]), Same(o, heap, heap')
       PROVE  FieldsOK(s, heap')
  <2>1. Matches(kv, heap'[f])
    BY <1>12 DEF Made, Matches
  <2>2. \A j \in Slots(o) : Matches(o.in.kvs[j], heap'[o.kvs[j]])
    BY <1>2, <1>12 DEF Filled, Same
  <2> HIDE DEF o
  <2>3. \A j \in Slots(s) : Matches(s.in.kvs[j], heap'[s.kvs[j]])
    BY <1>8, <1>10, <1>11, <2>1, <2>2
  <2>4. Filled(s, heap')
    BY <1>3, <1>8, <1>10, <2>3 DEF Filled
  <2> QED BY <1>8, <2>4 DEF FieldsOK
<1> HIDE DEF kv
<1> QED BY <1>5, <1>6, <1>7, <1>12, FilledMovedTaking

LEMMA GetFilled ==
    ASSUME AInv, FInv, NEW p \in Goroutines, Get(p)
    PROVE  FInv'
<1> DEFINE o == g[p]
<1>1. /\ o \in Goroutine /\ LocalOK(o, Len(heap)) /\ o.pc = "build" /\ o.i > Len(o.in.kvs)
      /\ UNCHANGED <<heap, ch, pool>>
  BY DEF AInv, Get
<1>2. PICK pt : g' = [g EXCEPT ![p].pc = "check", ![p].pt = pt, ![p].i = 1]
  BY DEF Get
<1> DEFINE s == [o EXCEPT !.pc = "check", !.pt = pt, !.i = 1]
<1>3. g' = [g EXCEPT ![p] = s]
  BY <1>2 DEF AInv
<1>4. s.pc = "check" /\ s.kvs = o.kvs /\ s.in = o.in /\ s.i = 1 /\ s.idx = 0
  BY <1>1 DEF Goroutine, LocalOK
<1>5. Filled(o, heap)
  BY <1>1 DEF FInv, FieldsOK
<1> HIDE DEF s, o
<1>6. /\ o.in \in Inputs /\ Len(o.in.kvs) \in Nat /\ o.i \in Nat /\ Len(o.kvs) \in Nat
      /\ Len(o.kvs) = o.i - 1 /\ o.i <= Len(o.in.kvs) + 1
  <2>1. Len(o.in.kvs) \in Nat
    BY SMT, <1>5, InputsAssumption DEF Filled
  <2>2. Len(o.kvs) \in Nat
    BY SMT, <1>1 DEF Goroutine
  <2> QED BY <1>1, <1>5, <2>1, <2>2 DEF Filled, Goroutine
<1>7. Len(s.kvs) = Len(s.in.kvs) /\ s.idx = s.i - 1
  BY SMT, <1>1, <1>4, <1>6
<1>8. Slots(s) = 1..Len(o.kvs) /\ Slots(o) = 1..Len(o.kvs)
  BY SMT, <1>1, <1>4, <1>6 DEF Slots
<1>9. \A j \in Slots(s) : Matches(s.in.kvs[j], heap[s.kvs[j]]) /\ j \in 1..Len(s.in.kvs)
  BY <1>4, <1>5, <1>7, <1>8 DEF Filled
<1>10. Kin(s, heap) /\ Whole(s, heap)
  BY <1>7, <1>9 DEF Kin, Whole, Matches
<1>11. FieldsOK(s, heap)
  BY <1>4, <1>6, <1>10 DEF FieldsOK
<1> QED BY <1>1, <1>3, <1>11, FilledMovedOnly

\* With valid keys and with uint64s enabled no slot is dropped.
LEMMA NoneDropped ==
    ASSUME AInv, NEW p \in Goroutines, g[p].pc = "check", g[p].i <= Len(g[p].kvs),
           Whole(g[p], heap), Valid(g[p].in.kvs)
    PROVE  ~ Dropped(p, g[p].kvs[g[p].i])
<1> DEFINE o == g[p]
<1>1. /\ Len(o.kvs) \in Nat /\ o.i \in 1..Len(o.kvs) /\ o.idx \in Nat /\ o.idx = o.i - 1
      /\ Len(o.kvs) = Len(o.in.kvs)
  BY RestOK DEF Whole
<1>2. Slots(o) = 1..o.idx \cup o.i..Len(o.kvs)
  BY DEF Slots
<1> HIDE DEF o
<1>3. 1..Len(o.kvs) \subseteq Slots(o)
  BY SMT, <1>1, <1>2
<1>4. \A j \in 1..Len(o.kvs) : heap[o.kvs[j]].key = o.in.kvs[j][1]
  BY <1>3 DEF Whole, o
<1>5. \A j, k \in 1..Len(o.kvs) : o.in.kvs[j][1] # NoKey /\ (o.in.kvs[j][1] = o.in.kvs[k][1] => j = k)
  BY <1>1 DEF Valid, o
<1>6. heap[o.kvs[o.i]].key # NoKey
  BY <1>1, <1>4, <1>5
<1>7. \A j \in 1..Len(o.kvs) : j # o.i => heap[o.kvs[j]].key # heap[o.kvs[o.i]].key
  <2> SUFFICES ASSUME NEW j \in 1..Len(o.kvs), j # o.i, heap[o.kvs[j]].key = heap[o.kvs[o.i]].key
               PROVE  FALSE
    OBVIOUS
  <2>1. heap[o.kvs[j]].key = o.in.kvs[j][1] /\ heap[o.kvs[o.i]].key = o.in.kvs[o.i][1]
    BY <1>1, <1>4
  <2> QED BY <1>1, <1>5, <2>1
<1> QED BY <1>6, <1>7 DEF Dropped, o

LEMMA CheckFilled ==
    ASSUME AInv, FInv, NEW p \in Goroutines, CheckKV(p)
    PROVE  FInv'
<1> DEFINE o == g[p]
           f == o.kvs[o.i]
<1>1. /\ o \in Goroutine /\ o.kvs \in Seq(Nat) /\ Len(o.kvs) \in Nat
      /\ o.i \in 1..Len(o.kvs) /\ o.idx \in Nat /\ o.idx < o.i
      /\ \A j \in 1..Len(o.kvs) : o.kvs[j] \in 1..Len(heap)
      /\ \A j \in Rest(o) : j \in 1..Len(o.kvs) /\ o.kvs[j] # f
      /\ Owns(p, f) /\ o.pc = "check" /\ o.i <= Len(o.kvs)
  BY RestOK DEF CheckKV
<1>2. FieldsOK(o, heap) /\ f \in 1..Len(heap)
  BY <1>1 DEF FInv
<1>3. Rest(o) \subseteq Slots(o) /\ o.i \in Slots(o)
  <2>1. Slots(o) = 1..o.idx \cup o.i..Len(o.kvs)
    BY <1>1 DEF Slots
  <2> QED BY SMT, <1>1, <2>1 DEF Rest
<1>4. CASE Dropped(p, f) /\ PutKV(f) /\ g' = [g EXCEPT ![p].i = @ + 1]
  <2> DEFINE s == [o EXCEPT !.i = @ + 1]
  <2>1. g' = [g EXCEPT ![p] = s]
    BY <1>4 DEF AInv
  <2>2. s.pc = "check" /\ s.kvs = o.kvs /\ s.in = o.in /\ s.idx = o.idx /\ s.i = o.i + 1
    BY <1>1 DEF Goroutine
  <2> HIDE DEF s
  <2>3. Slots(s) = Rest(o)
    BY <2>2 DEF Slots, Rest
  <2>4. ASSUME \A x \in 1..Len(heap) : x # f => heap'[x] = heap[x]
        PROVE  FieldsOK(s, heap')
    <3>1. \A i \in Slots(s) : i \in Slots(o) /\ s.kvs[i] = o.kvs[i] /\ heap'[o.kvs[i]] = heap[o.kvs[i]]
      BY <1>1, <1>3, <2>2, <2>3, <2>4
    <3>2. Kin(o, heap) => Kin(s, heap')
      <4>1. Fewer(o, s, heap, heap')
        BY <3>1 DEF Fewer
      <4> HIDE DEF o
      <4> QED BY <2>2, <4>1, FewerOK
    <3>3. ~ (o.in.enableU64Field /\ Valid(o.in.kvs))
      BY <1>1, <1>2, <1>4, NoneDropped DEF FieldsOK
    <3> QED BY <1>1, <1>2, <2>2, <3>2, <3>3 DEF FieldsOK
  <2>5. PutKV(f) /\ Owns(p, f) /\ f \in 1..Len(heap)
    BY <1>1, <1>2, <1>4
  <2> HIDE DEF f
  <2> QED BY <2>1, <2>4, <2>5, FilledMovedGiving
<1>5. CASE g' = [g EXCEPT ![p].pc = "panic"] /\ UNCHANGED <<heap, ch, pool>>
  <2> DEFINE s == [o EXCEPT !.pc = "panic"]
  <2>1. g' = [g EXCEPT ![p] = s] /\ s.pc \in Quiet
    BY <1>1, <1>5 DEF AInv, Goroutine, Quiet
  <2> HIDE DEF s
  <2>2. FieldsOK(s, heap)
    BY <2>1, QuietOK
  <2> QED BY <1>5, <2>1, <2>2, FilledMovedOnly
<1>6. CASE g' = [g EXCEPT ![p] = Kept(@, f)] /\ UNCHANGED <<heap, ch, pool>>
  <2> DEFINE s == Kept(o, f)
  <2>1. g' = [g EXCEPT ![p] = s]
    BY <1>6 DEF AInv
  <2>2. /\ s.pc = "check" /\ s.in = o.in /\ s.idx = o.idx + 1 /\ s.i = o.i + 1
        /\ s.kvs = [o.kvs EXCEPT ![o.idx + 1] = f]
    BY <1>1 DEF Kept, Goroutine
  <2> HIDE DEF s
  <2>3. \A i \in Slots(s) : s.kvs[i] = f \/ \E j \in Rest(o) : s.kvs[i] = o.kvs[j]
    <3>1. f \in Nat
      BY SMT, <1>2 DEF AInv, PoolsOK
    <3> HIDE DEF f
    <3> QED BY <1>1, <3>1, KeptOK DEF s
  <2>4. Fewer(o, s, heap, heap)
    BY <1>3, <2>3 DEF Fewer
  <2>5. Kin(o, heap) => Kin(s, heap)
    <3> HIDE DEF o
    <3> QED BY <2>2, <2>4, FewerOK
  <2>6. Whole(o, heap) => Whole(s, heap)
    <3> SUFFICES ASSUME Whole(o, heap) PROVE Whole(s, heap)
      OBVIOUS
    <3>1. o.idx = o.i - 1 /\ Len(o.kvs) = Len(o.in.kvs)
      BY DEF Whole
    <3>2. o.idx + 1 = o.i /\ s.idx = s.i - 1
      BY SMT, <1>1, <2>2, <3>1
    <3>3. s.kvs = o.kvs
      <4> DEFINE q == o.kvs
                 n == o.i
      <4>1. q \in Seq(Nat) /\ n \in 1..Len(q) /\ s.kvs = [q EXCEPT ![n] = q[n]]
        BY <1>1, <2>2, <3>2
      <4> HIDE DEF q, n
      <4>2. s.kvs = q
        BY SMT, <4>1
      <4> QED BY <4>2 DEF q
    <3>4. Slots(s) = 1..o.i \cup o.i + 1..Len(o.kvs) /\ Slots(o) = 1..o.idx \cup o.i..Len(o.kvs)
      BY <1>1, <2>2, <3>2, <3>3 DEF Slots
    <3> HIDE DEF o
    <3>5. Slots(s) = Slots(o)
      BY SMT, <1>1, <3>1, <3>4
    <3> QED BY <2>2, <3>1, <3>2, <3>3, <3>5 DEF Whole
  <2>7. FieldsOK(s, heap)
    BY <1>1, <1>2, <2>2, <2>5, <2>6 DEF FieldsOK
  <2> QED BY <1>6, <2>1, <2>7, FilledMovedOnly
<1>7. CASE ~ o.in.enableU64Field /\ PutKV(f) /\ g' = [g EXCEPT ![p].pc = "convert"]
  <2> DEFINE s == [o EXCEPT !.pc = "convert"]
  <2>1. g' = [g EXCEPT ![p] = s]
    BY <1>7 DEF AInv
  <2>2. s.pc = "convert" /\ s.in = o.in
    BY <1>1 DEF Goroutine
  <2> HIDE DEF s
  <2>3. FieldsOK(s, heap')
    BY <1>1, <1>2, <1>7, <2>2 DEF FieldsOK
  <2>4. PutKV(f) /\ Owns(p, f) /\ f \in 1..Len(heap)
    BY <1>1, <1>2, <1>7
  <2> HIDE DEF f
  <2> QED BY <2>1, <2>3, <2>4, FilledMovedGiving
<1> QED BY <1>4, <1>5, <1>6, <1>7 DEF CheckKV

\* A conversion happens to a goroutine for which nothing is claimed.
LEMMA ConvertFilled ==
    ASSUME AInv, FInv, NEW p \in Goroutines, Convert(p)
    PROVE  FInv'
<1> DEFINE o == g[p]
           old == heap[o.kvs[o.i]]
<1>1. /\ o \in Goroutine /\ o.i \in 1..Len(o.kvs) /\ o.pc = "convert"
      /\ \A j \in 1..Len(o.kvs) : o.kvs[j] \in 1..Len(heap)
  BY RestOK DEF Convert
<1>2. heap \in Seq(Field) /\ Len(heap) \in Nat
  BY SMT DEF AInv, PoolsOK
<1>3. old \in Field
  BY SMT, <1>1, <1>2
<1>4. old.key \in Texts /\ old.val \in Contents /\ "I" \in Kinds
  BY <1>3, KindsAssumption DEF Field
<1>5. PICK f \in Got("I") : /\ GetKV(f, old.key, "I", old.val)
                            /\ g' = [g EXCEPT ![p] = Kept(@, f)]
  BY DEF Convert
<1> DEFINE s == Kept(o, f)
<1>6. g' = [g EXCEPT ![p] = s]
  BY <1>5 DEF AInv
<1>7. s.pc = "check" /\ s.in = o.in
  BY <1>1 DEF Kept, Goroutine
<1> HIDE DEF s, old
<1>8. FieldsOK(o, heap)
  BY DEF FInv
<1>9. FieldsOK(s, heap')
  BY <1>1, <1>7, <1>8 DEF FieldsOK
<1> QED BY <1>4, <1>5, <1>6, <1>9, FilledMovedTaking

LEMMA CheckedFilled ==
    ASSUME AInv, FInv, NEW p \in Goroutines, Checked(p)
    PROVE  FInv'
<1> DEFINE o == g[p]
           s == [o EXCEPT !.pc = "have", !.kvs = SubSeq(@, 1, o.idx)]
<1>1. /\ o \in Goroutine /\ LocalOK(o, Len(heap)) /\ o.pc = "check" /\ o.i > Len(o.kvs)
      /\ UNCHANGED <<heap, ch, pool>> /\ FieldsOK(o, heap)
  BY DEF AInv, FInv, Checked
<1>2. g' = [g EXCEPT ![p] = s]
  BY DEF AInv, Checked
<1>3. o.kvs \in Seq(Nat) /\ Len(o.kvs) \in Nat /\ o.idx \in Nat /\ o.i \in Nat /\ o.i >= 1 /\ o.idx <= Len(o.kvs)
  BY SMT, <1>1 DEF LocalOK, Goroutine
<1>4. s.pc = "have" /\ s.in = o.in /\ s.kvs = SubSeq(o.kvs, 1, o.idx)
  BY <1>1 DEF Goroutine
<1> HIDE DEF s, o
<1>5. Len(s.kvs) = o.idx /\ \A j \in 1..o.idx : s.kvs[j] = o.kvs[j]
  BY SMTT(30), <1>3, <1>4
<1>6. Slots(s) = 1..o.idx /\ 1..o.idx \subseteq Slots(o)
  BY <1>1, <1>4, <1>5 DEF Slots
<1>7. Fewer(o, s, heap, heap)
  BY <1>5, <1>6 DEF Fewer
<1>8. Kin(o, heap) => Kin(s, heap)
  BY <1>4, <1>7, FewerOK
<1>9. FieldsOK(s, heap)
  BY <1>1, <1>4, <1>8 DEF FieldsOK
<1> QED BY <1>1, <1>2, <1>9, FilledMovedOnly

\* A goroutine that stops using its key-values.
LEMMA QuietStep ==
    ASSUME AInv, FInv, NEW p \in Goroutines, NEW s, g' = [g EXCEPT ![p] = s], s.pc \in Quiet,
           UNCHANGED <<heap, ch, pool>>
    PROVE  FInv'
<1>1. FieldsOK(s, heap)
  BY QuietOK
<1> QED BY <1>1, FilledMovedOnly

LEMMA DelFilled ==
    ASSUME AInv, FInv, NEW p \in Goroutines, NEW i \in 1..Len(g[p].kvs), Del(p, i)
    PROVE  FInv'
<1> DEFINE o == g[p]
           n == Len(o.kvs)
           f == o.kvs[i]
           rest == SubSeq([o.kvs EXCEPT ![i] = o.kvs[n]], 1, n - 1)
<1>1. o \in Goroutine /\ LocalOK(o, Len(heap)) /\ o.pc = "have" /\ FieldsOK(o, heap)
  BY DEF AInv, FInv, Del
<1>2. CASE Panics(f)
  <2> DEFINE s == [o EXCEPT !.pc = "panic"]
  <2>1. g' = [g EXCEPT ![p] = s] /\ s.pc \in Quiet /\ UNCHANGED <<heap, ch, pool>>
    BY <1>1, <1>2 DEF AInv, Del, Goroutine, Quiet
  <2> HIDE DEF s
  <2> QED BY <2>1, QuietStep
<1>3. CASE ~ Panics(f)
  <2> DEFINE s == [o EXCEPT !.kvs = rest]
  <2>1. PutKV(f) /\ g' = [g EXCEPT ![p] = s]
    BY <1>3 DEF AInv, Del
  <2>2. s.pc = "have" /\ s.in = o.in /\ s.kvs = rest
    BY <1>1 DEF Goroutine
  <2> HIDE DEF s
  <2>3. o.kvs \in Seq(Nat) /\ n \in Nat /\ i \in 1..n /\ n \in 1..n
    BY SMT, <1>1 DEF Goroutine
  <2>4. /\ Len(rest) \in Nat /\ Len(rest) = n - 1
        /\ \A j \in 1..n - 1 : rest[j] = (IF j = i THEN o.kvs[n] ELSE o.kvs[j])
    <3> DEFINE q == o.kvs
               m == n
               v == q[m]
               moved == [q EXCEPT ![i] = v]
    <3>1. q \in Seq(Nat) /\ m = Len(q) /\ m \in Nat /\ i \in 1..m /\ m \in 1..m /\ rest = SubSeq(moved, 1, m - 1)
      BY <2>3
    <3>2. v \in Nat
      <4> HIDE DEF q, m
      <4> QED BY SMT, <3>1
    <3> HIDE DEF q, m, v, rest
    <3>3. moved \in Seq(Nat) /\ Len(moved) = m /\ \A j \in 1..m : moved[j] = IF j = i THEN v ELSE q[j]
      BY SMT, <3>1, <3>2
    <3> HIDE DEF moved
    <3>4. Len(rest) = m - 1 /\ \A j \in 1..m - 1 : rest[j] = moved[j] /\ j \in 1..m
      BY SMTT(30), <3>1, <3>3
    <3>5. Len(rest) \in Nat
      BY SMT, <3>1, <3>4
    <3> QED BY <3>3, <3>4, <3>5 DEF q, m, v
  <2>5. Slots(s) = 1..n - 1 /\ Slots(o) = 1..n
    BY <1>1, <2>2, <2>4 DEF Slots
  <2>6. \A x, y \in 1..n : o.kvs[x] = o.kvs[y] => x = y
    BY <2>5 DEF AInv, OwnersOK
  <2>7. \A x \in 1..n : o.kvs[x] \in 1..Len(heap)
    BY <1>1 DEF LocalOK
  <2> HIDE DEF n, rest
  <2>8. \A x \in 1..n - 1 : x \in 1..n /\ x # n
    BY SMT, <2>3
  <2>9. \A x \in Slots(s) : \E y \in 1..n : s.kvs[x] = o.kvs[y] /\ y # i
    BY <2>2, <2>3, <2>4, <2>5, <2>8
  <2>10. \A x \in Slots(s) : \E y \in Slots(o) : s.kvs[x] = o.kvs[y] /\ o.kvs[y] \in 1..Len(heap) /\ o.kvs[y] # f
    BY <2>3, <2>5, <2>6, <2>7, <2>9
  <2>11. ASSUME \A x \in 1..Len(heap) : x # f => heap'[x] = heap[x]
         PROVE  FieldsOK(s, heap')
    <3>1. Fewer(o, s, heap, heap')
      <4> SUFFICES ASSUME NEW x \in Slots(s)
                   PROVE  \E y \in Slots(o) : s.kvs[x] = o.kvs[y] /\ heap'[o.kvs[y]] = heap[o.kvs[y]]
        BY DEF Fewer
      <4>1. PICK y \in Slots(o) : s.kvs[x] = o.kvs[y] /\ o.kvs[y] \in 1..Len(heap) /\ o.kvs[y] # f
        BY <2>10
      <4> QED BY <2>11, <4>1
    <3> HIDE DEF o
    <3>2. Kin(o, heap) => Kin(s, heap')
      BY <2>2, <3>1, FewerOK
    <3> QED BY <1>1, <2>2, <3>2 DEF FieldsOK
  <2>12. f \in 1..Len(heap) /\ Owns(p, f)
    BY <2>3, <2>5, <2>7 DEF Owns
  <2> HIDE DEF f
  <2> QED BY <2>1, <2>11, <2>12, FilledMovedGiving
<1> QED BY <1>2, <1>3

LEMMA PutFilled ==
    ASSUME AInv, FInv, NEW p \in Goroutines, Put(p)
    PROVE  FInv'
<1> DEFINE s == [g[p] EXCEPT !.pc = IF points[g[p].pt] THEN "put" ELSE "escaped", !.i = 1]
<1>1. g' = [g EXCEPT ![p] = s] /\ UNCHANGED <<heap, ch, pool>>
  BY DEF AInv, Put
<1>2. s.pc \in Quiet
  BY DEF AInv, Goroutine, Quiet
<1> HIDE DEF s
<1> QED BY <1>1, <1>2, QuietStep

LEMMA PutNextFilled ==
    ASSUME AInv, FInv, NEW p \in Goroutines, PutNext(p)
    PROVE  FInv'
<1> DEFINE o == g[p]
           f == o.kvs[o.i]
<1>1. o \in Goroutine /\ LocalOK(o, Len(heap)) /\ o.pc = "put" /\ o.i <= Len(o.kvs)
  BY DEF AInv, PutNext
<1>2. CASE Panics(f)
  <2> DEFINE s == [o EXCEPT !.pc = "panic"]
  <2>1. g' = [g EXCEPT ![p] = s] /\ s.pc \in Quiet /\ UNCHANGED <<heap, ch, pool>>
    BY <1>1, <1>2 DEF AInv, PutNext, Goroutine, Quiet
  <2> HIDE DEF s
  <2> QED BY <2>1, QuietStep
<1>3. CASE ~ Panics(f)
  <2> DEFINE s == [o EXCEPT !.i = @ + 1]
  <2>1. PutKV(f) /\ g' = [g EXCEPT ![p] = s]
    BY <1>3 DEF AInv, PutNext
  <2>2. s.pc \in Quiet
    BY <1>1 DEF Goroutine, Quiet
  <2> HIDE DEF s
  <2>3. FieldsOK(s, heap')
    BY <2>2, QuietOK
  <2>4. Len(o.kvs) \in Nat /\ o.i \in 1..Len(o.kvs)
    BY SMT, <1>1 DEF Goroutine, LocalOK
  <2>5. Slots(o) = o.i..Len(o.kvs)
    BY <1>1 DEF Slots
  <2>6. o.i \in Slots(o)
    BY SMT, <2>4, <2>5
  <2>7. f \in 1..Len(heap) /\ Owns(p, f)
    BY <1>1, <2>4, <2>6 DEF LocalOK, Owns
  <2> HIDE DEF f
  <2> QED BY <2>1, <2>3, <2>7, FilledMovedGiving
<1> QED BY <1>2, <1>3

LEMMA LeaveFilled ==
    ASSUME AInv, FInv, NEW p \in Goroutines, PutPoint(p) \/ PutAgain(p) \/ Forget(p)
    PROVE  FInv'
<1>1. CASE PutPoint(p)
  <2> DEFINE s == Bare("gone", <<>>, g[p].pt, g[p].made)
  <2>1. g' = [g EXCEPT ![p] = s] /\ UNCHANGED <<heap, ch, pool>>
    BY <1>1 DEF PutPoint
  <2>2. s.pc \in Quiet
    BY DEF Bare, Quiet
  <2> HIDE DEF s
  <2> QED BY <2>1, <2>2, QuietStep
<1>2. CASE PutAgain(p) \/ Forget(p)
  <2> DEFINE s == [g[p] EXCEPT !.pc = "idle", !.pt = 0]
  <2>1. g' = [g EXCEPT ![p] = s] /\ UNCHANGED <<heap, ch, pool>>
    BY <1>2 DEF AInv, PutAgain, Forget
  <2>2. s.pc \in Quiet
    BY DEF AInv, Goroutine, Quiet
  <2> HIDE DEF s
  <2> QED BY <2>1, <2>2, QuietStep
<1> QED BY <1>1, <1>2

LEMMA NextFInv ==
    ASSUME AInv, FInv, [Next]_vars
    PROVE  FInv'
<1>1. CASE UNCHANGED vars
  BY <1>1 DEF vars, FInv
<1>2. CASE Next
  <2> SUFFICES ASSUME NEW p \in Goroutines,
                      \/ \E in \in Inputs : StartPoint(p, in)
                      \/ NewKV(p) \/ Get(p) \/ CheckKV(p) \/ Convert(p) \/ Checked(p)
                      \/ \E i \in 1..Len(g[p].kvs) : Del(p, i)
                      \/ Put(p) \/ PutNext(p) \/ PutPoint(p) \/ PutAgain(p) \/ Forget(p)
               PROVE  FInv'
    BY <1>2 DEF Next
  <2> QED BY StartFilled, NewKVFilled, GetFilled, CheckFilled, ConvertFilled, CheckedFilled, DelFilled,
             PutFilled, PutNextFilled, LeaveFilled
<1> QED BY <1>1, <1>2

LEMMA FInvFieldsIntact == AInv /\ FInv => FieldsIntact
<1> SUFFICES ASSUME AInv, FInv, NEW p \in Goroutines, g[p].pc \in {"check", "have"}, g[p].in.enableU64Field
             PROVE  Intact(p)
  BY DEF FieldsIntact
<1> DEFINE o == g[p]
<1>1. o \in Goroutine /\ LocalOK(o, Len(heap)) /\ FieldsOK(o, heap) /\ OwnSlots(p) = Slots(o)
  BY DEF AInv, FInv, OwnSlots, Slots
<1>2. \A j \in OwnSlots(p) : \E k \in 1..Len(o.in.kvs) :
        /\ o.in.kvs[k][1] = heap[o.kvs[j]].key
        /\ o.in.kvs[k][3] = heap[o.kvs[j]].val \/ (o.in.kvs[k][3] = NoArray /\ heap[o.kvs[j]].val = Zero)
  BY <1>1 DEF FieldsOK, Kin, Matches
<1>3. ASSUME Valid(o.in.kvs), o.pc = "check", o.i > Len(o.kvs) PROVE o.idx = Len(o.in.kvs)
  <2>1. o.idx = o.i - 1 /\ Len(o.kvs) = Len(o.in.kvs)
    BY <1>1, <1>3 DEF FieldsOK, Whole
  <2>2. o.i <= Len(o.kvs) + 1 /\ o.i \in Nat /\ Len(o.kvs) \in Nat
    BY SMT, <1>1, <1>3 DEF LocalOK, Goroutine
  <2> HIDE DEF o
  <2> QED BY SMT, <1>3, <2>1, <2>2
<1> QED BY <1>2, <1>3 DEF Intact

\* However the goroutines get and give back key-values between its steps, a
\* point holds what it was given and nothing of the last owner of a key-value,
\* and the check drops nothing of a point whose keys are valid.
THEOREM PoolFieldsIntact == Spec => []FieldsIntact
<1>1. Init => AInv /\ FInv
  BY InitAInv, InitFInv
<1>2. AInv /\ FInv /\ [Next]_vars => AInv' /\ FInv'
  BY NextAInv, NextFInv
<1>3. AInv /\ FInv => FieldsIntact
  BY FInvFieldsIntact
<1> QED BY <1>1, <1>2, <1>3, PTL DEF Spec

============================================================================
