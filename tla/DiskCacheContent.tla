-------------------------- MODULE DiskCacheContent --------------------------
(***************************************************************************)
(* What the files of the disk cache hold: whole records, closed by one end *)
(* marker; and a write file that is whole records and what the goroutine   *)
(* that has wlock is writing.  For every cache whose writes do not fail    *)
(* half-way.                                                               *)
(***************************************************************************)
EXTENDS DiskCacheProofs

\* A leaf is first-order reasoning unless it names another prover.
USE Zenon

\* No write fails half-way, nobody streams, and no kill comes between the two
\* writes of a record, or between the end marker and the rename.
WholeWrites ==
    /\ "write" \notin Faults /\ "StreamPut" \notin Calls
    /\ "p_data" \notin KillAt /\ "r_ren" \notin KillAt

-----------------------------------------------------------------------------
(* Records, markers and batches *)

\* The cells of two pieces put together.
LEMMA ConcatCells ==
    ASSUME NEW a \in Seq(Cell), NEW b \in Seq(Cell)
    PROVE  /\ \A i \in 1..Len(a) : (a \o b)[i] = a[i]
           /\ \A i \in Len(a) + 1..Len(a) + Len(b) : (a \o b)[i] = b[i - Len(a)]
<1>1. \A i \in 1..Len(a) : (a \o b)[i] = a[i]
    BY SMT
<1>2. \A i \in Len(a) + 1..Len(a) + Len(b) : (a \o b)[i] = b[i - Len(a)]
    BY SMT
<1> QED
    BY <1>1, <1>2

\* A cell holds a number.
LEMMA CellNumber ==
    ASSUME NEW s \in Seq(Cell), NEW i \in 1..Len(s)
    PROVE  s[i] \in Cell /\ s[i].n \in Nat /\ s[i].id \in Nat /\ s[i].t \in {"hdr", "dat", "eof"}
<1>1. s[i] \in Cell
    BY SMT
<1> QED
    BY <1>1 DEF Cell

\* The cells t of a batch s to which a record was appended.
Extended(s, id, n, t) ==
    /\ t \in Seq(Cell) /\ Len(t) = Len(s) + 1 + n
    /\ \A i \in 1..Len(s) : t[i] = s[i]
    /\ t[Len(s) + 1] = Hdr(id, n)
    /\ \A i \in Len(s) + 2..Len(s) + 1 + n : t[i] = Dat(id, n)

LEMMA RecordCells ==
    ASSUME NEW s \in Seq(Cell), NEW id \in Nat, NEW n \in Nat
    PROVE  Extended(s, id, n, Append(s, Hdr(id, n)) \o Payload(id, n, n))
<1> DEFINE t == Append(s, Hdr(id, n)) \o Payload(id, n, n)
<1>1. Hdr(id, n) \in Cell /\ Dat(id, n) \in Cell
    BY CellFacts
<1> DEFINE h == Hdr(id, n)
           d == Dat(id, n)
           b == Payload(id, n, n)
<1>2. h \in Cell /\ d \in Cell
    BY <1>1
<1>3. b = [j \in 1..n |-> d]
    BY DEF Payload
<1>4. t = Append(s, h) \o b
    OBVIOUS
<1> HIDE DEF h, d, b, t
<1>5. b \in Seq(Cell) /\ Len(b) = n /\ \A j \in 1..n : b[j] = d
    BY SMT, <1>2, <1>3
<1>6. /\ Append(s, h) \in Seq(Cell) /\ Len(Append(s, h)) = Len(s) + 1
      /\ \A i \in 1..Len(s) : Append(s, h)[i] = s[i]
      /\ Append(s, h)[Len(s) + 1] = h
    BY SMT, <1>2
<1> DEFINE a == Append(s, h)
<1>7. a \in Seq(Cell) /\ t = a \o b /\ Len(a) = Len(s) + 1
    BY <1>4, <1>6
<1> HIDE DEF a
<1>8. /\ t \in Seq(Cell) /\ Len(t) = Len(a) + Len(b)
      /\ \A i \in 1..Len(a) : t[i] = a[i]
      /\ \A i \in Len(a) + 1..Len(a) + Len(b) : t[i] = b[i - Len(a)]
    <2>1. a \o b \in Seq(Cell) /\ Len(a \o b) = Len(a) + Len(b)
        BY <1>5, <1>7, ConcatType
    <2>2. /\ \A i \in 1..Len(a) : (a \o b)[i] = a[i]
          /\ \A i \in Len(a) + 1..Len(a) + Len(b) : (a \o b)[i] = b[i - Len(a)]
        BY <1>5, <1>7, ConcatCells
    <2> QED
        BY <1>7, <2>1, <2>2
<1>9. Len(s) \in Nat
    BY SMT
<1>10. \A i \in 1..Len(s) : i \in 1..Len(a)
    BY SMT, <1>7, <1>9
<1>11. Len(s) + 1 \in 1..Len(a)
    BY SMT, <1>7, <1>9
<1>12. \A i \in Len(s) + 2..Len(s) + 1 + n :
           i \in Len(a) + 1..Len(a) + Len(b) /\ i - Len(a) \in 1..n
    BY SMT, <1>5, <1>7, <1>9
<1>13. \A i \in 1..Len(s) : t[i] = s[i]
    BY <1>6, <1>8, <1>10 DEF a
<1>14. t[Len(s) + 1] = h
    BY <1>6, <1>8, <1>11 DEF a
<1>15. \A i \in Len(s) + 2..Len(s) + 1 + n : t[i] = d
    BY <1>5, <1>8, <1>12
<1>16. t \in Seq(Cell) /\ Len(t) = Len(s) + 1 + n
    BY SMT, <1>5, <1>7, <1>8, <1>9
<1> QED
    BY <1>13, <1>14, <1>15, <1>16 DEF h, d, t, Extended

\* A batch stays whole when a record is appended.
LEMMA RecordWhole ==
    ASSUME NEW s \in Seq(Cell), Whole(s), NEW id \in Nat, NEW n \in Nat, n \in Lens
    PROVE  Whole(Append(s, Hdr(id, n)) \o Payload(id, n, n))
<1> DEFINE t == Append(s, Hdr(id, n)) \o Payload(id, n, n)
           m == Len(s)
<1>0. Extended(s, id, n, t) /\ m \in Nat
    <2>1. m \in Nat
        BY SMT
    <2> QED
        BY <2>1, RecordCells
<1> HIDE DEF t
<1>1. /\ t \in Seq(Cell) /\ Len(t) = m + 1 + n /\ m \in Nat
      /\ \A i \in 1..m : t[i] = s[i]
      /\ t[m + 1] = Hdr(id, n)
      /\ \A i \in m + 2..m + 1 + n : t[i] = Dat(id, n)
    BY <1>0 DEF Extended
<1>2. /\ Hdr(id, n).t = "hdr" /\ Hdr(id, n).n = n /\ Hdr(id, n).id = id /\ Dat(id, n).t = "dat"
    BY DEF Hdr, Dat
<1>3. \A i \in 1..Len(t) : i \in 1..m \/ i = m + 1 \/ i \in m + 2..m + 1 + n
    BY SMT, <1>1
<1>4. /\ \A i \in 1..m : s[i].t = "hdr" =>
            i + s[i].n <= m /\ \A j \in i + 1..i + s[i].n : s[j] = Dat(s[i].id, s[i].n)
      /\ \A i \in 1..m : s[i].t = "dat" => \E h \in 1..i - 1 : s[h].t = "hdr" /\ h + s[h].n >= i
      /\ \A i \in 1..m : s[i].t # "eof"
      /\ \A i \in 1..m : s[i].t = "hdr" => s[i].n \in Lens
    BY DEF Whole, Framed, NoEOF, Sized
<1>5. \A i \in 1..m : s[i].n \in Nat
    BY CellNumber
<1>6. ASSUME NEW i \in 1..Len(t), t[i].t = "hdr"
      PROVE  i + t[i].n <= Len(t) /\ \A j \in i + 1..i + t[i].n : t[j] = Dat(t[i].id, t[i].n)
    <2>1. CASE i \in 1..m
        <3>1. t[i] = s[i] /\ s[i].t = "hdr" /\ s[i].n \in Nat /\ i + s[i].n <= m
            BY <1>1, <1>4, <1>5, <1>6, <2>1
        <3>2. \A j \in i + 1..i + s[i].n : j \in 1..m
            BY SMT, <1>1, <2>1, <3>1
        <3>3. \A j \in i + 1..i + s[i].n : t[j] = Dat(s[i].id, s[i].n)
            BY <1>1, <1>4, <2>1, <3>1, <3>2
        <3>4. i + s[i].n <= Len(t)
            BY SMT, <1>1, <2>1, <3>1
        <3> QED
            BY <3>1, <3>3, <3>4
    <2>2. CASE i = m + 1
        <3>1. t[i].n = n /\ t[i].id = id
            BY <1>1, <1>2, <2>2
        <3>2. i + n <= Len(t) /\ \A j \in i + 1..i + n : j \in m + 2..m + 1 + n
            BY SMT, <1>1, <2>2
        <3> QED
            BY <1>1, <3>1, <3>2
    <2>3. CASE i \in m + 2..m + 1 + n
        BY <1>1, <1>2, <1>6, <2>3
    <2> QED
        BY <1>3, <2>1, <2>2, <2>3
<1>7. ASSUME NEW i \in 1..Len(t), t[i].t = "dat"
      PROVE  \E h \in 1..i - 1 : t[h].t = "hdr" /\ h + t[h].n >= i
    <2>1. CASE i \in 1..m
        <3>1. s[i].t = "dat"
            BY <1>1, <1>7, <2>1
        <3>2. PICK h \in 1..i - 1 : s[h].t = "hdr" /\ h + s[h].n >= i
            BY <1>4, <2>1, <3>1
        <3>3. h \in 1..m
            BY SMT, <1>1, <2>1
        <3> QED
            BY <1>1, <3>2, <3>3
    <2>2. CASE i = m + 1
        BY <1>1, <1>2, <1>7, <2>2
    <2>3. CASE i \in m + 2..m + 1 + n
        <3>1. m + 1 \in 1..i - 1 /\ m + 1 + n >= i
            BY SMT, <1>1, <2>3
        <3> QED
            BY <1>1, <1>2, <3>1
    <2> QED
        BY <1>3, <2>1, <2>2, <2>3
<1>8. \A i \in 1..Len(t) : t[i].t # "eof"
    BY <1>1, <1>2, <1>3, <1>4
<1>9. \A i \in 1..Len(t) : t[i].t = "hdr" => t[i].n \in Lens
    BY <1>1, <1>2, <1>3, <1>4
<1>10. Framed(t)
    BY <1>6, <1>7, <1>8 DEF Framed
<1>11. Whole(t)
    BY <1>8, <1>9, <1>10 DEF Whole, NoEOF, Sized
<1> QED
    BY <1>11 DEF t

\* The end marker completes a batch.
LEMMA MarkerCompletes ==
    ASSUME NEW s \in Seq(Cell), Whole(s)
    PROVE  Complete(Append(s, EOF))
<1> DEFINE t == Append(s, EOF)
           m == Len(s)
           e == EOF
<1>1. e \in Cell /\ e.t = "eof"
    BY CellFacts DEF EOF
<1> HIDE DEF e
<1>2. /\ Append(s, e) \in Seq(Cell) /\ Len(Append(s, e)) = m + 1 /\ m \in Nat
      /\ \A i \in 1..m : Append(s, e)[i] = s[i]
      /\ Append(s, e)[m + 1] = e /\ Append(s, e) # <<>>
    BY SMT, <1>1
<1>3. /\ t \in Seq(Cell) /\ Len(t) = m + 1 /\ m \in Nat
      /\ \A i \in 1..m : t[i] = s[i]
      /\ t[m + 1] = e /\ t # <<>>
    BY <1>2 DEF e
<1> HIDE DEF t
<1>4. \A i \in 1..Len(t) : i \in 1..m \/ i = m + 1
    BY SMT, <1>3
<1>5. /\ \A i \in 1..m : s[i].t = "hdr" =>
            i + s[i].n <= m /\ \A j \in i + 1..i + s[i].n : s[j] = Dat(s[i].id, s[i].n)
      /\ \A i \in 1..m : s[i].t = "dat" => \E h \in 1..i - 1 : s[h].t = "hdr" /\ h + s[h].n >= i
      /\ \A i \in 1..m : s[i].t # "eof"
      /\ \A i \in 1..m : s[i].t = "hdr" => s[i].n \in Lens
    BY DEF Whole, Framed, NoEOF, Sized
<1>6. \A i \in 1..m : s[i].n \in Nat
    BY CellNumber
<1>7. ASSUME NEW i \in 1..Len(t), t[i].t = "hdr"
      PROVE  i + t[i].n <= Len(t) /\ \A j \in i + 1..i + t[i].n : t[j] = Dat(t[i].id, t[i].n)
    <2>1. i \in 1..m
        BY <1>1, <1>3, <1>4, <1>7
    <2>2. t[i] = s[i] /\ s[i].t = "hdr" /\ s[i].n \in Nat /\ i + s[i].n <= m
        BY <1>3, <1>5, <1>6, <1>7, <2>1
    <2>3. \A j \in i + 1..i + s[i].n : j \in 1..m
        BY SMT, <1>3, <2>1, <2>2
    <2>4. \A j \in i + 1..i + s[i].n : t[j] = Dat(s[i].id, s[i].n)
        BY <1>3, <1>5, <2>1, <2>2, <2>3
    <2>5. i + s[i].n <= Len(t)
        BY SMT, <1>3, <2>1, <2>2
    <2> QED
        BY <2>2, <2>4, <2>5
<1>8. ASSUME NEW i \in 1..Len(t), t[i].t = "dat"
      PROVE  \E h \in 1..i - 1 : t[h].t = "hdr" /\ h + t[h].n >= i
    <2>1. i \in 1..m
        BY <1>1, <1>3, <1>4, <1>8
    <2>2. s[i].t = "dat"
        BY <1>3, <1>8, <2>1
    <2>3. PICK h \in 1..i - 1 : s[h].t = "hdr" /\ h + s[h].n >= i
        BY <1>5, <2>1, <2>2
    <2>4. h \in 1..m
        BY SMT, <1>3, <2>1
    <2> QED
        BY <1>3, <2>3, <2>4
<1>9. \A i \in 1..Len(t) : t[i].t = "eof" => i = Len(t)
    BY <1>3, <1>4, <1>5
<1>10. \A i \in 1..Len(t) : t[i].t = "hdr" => t[i].n \in Lens
    BY <1>1, <1>3, <1>4, <1>5
<1>11. Framed(t) /\ Sized(t)
    BY <1>7, <1>8, <1>9, <1>10 DEF Framed, Sized
<1>12. t # <<>> /\ t[Len(t)] = EOF
    BY <1>3 DEF e
<1> QED
    BY <1>11, <1>12 DEF Complete, t

LEMMA DatTag == \A i, n : Dat(i, n).t = "dat"
BY DEF Dat

\* The record of a header ends between two records.
LEMMA BoundaryAfter ==
    ASSUME NEW s \in Seq(Cell), Framed(s), NEW r \in 1..Len(s), s[r].t = "hdr"
    PROVE  r + s[r].n <= Len(s) /\ Boundary(s, r + s[r].n)
<1>1. PICK n \in Nat : n = s[r].n
    BY CellNumber
<1>2. r + n <= Len(s) /\ \A i \in r + 1..r + n : s[i] = Dat(s[r].id, n)
    BY <1>1 DEF Framed
<1>3. Len(s) \in Nat /\ r \in Nat
    BY SMT
<1>4. ASSUME r + n < Len(s), s[r + n + 1].t = "dat" PROVE FALSE
    <2> DEFINE j == r + n + 1
    <2>1. j \in 1..Len(s)
        BY SMT, <1>3, <1>4
    <2>2. s[j].t = "dat"
        BY <1>4
    <2> HIDE DEF j
    <2>3. PICK h \in 1..j - 1 : s[h].t = "hdr" /\ h + s[h].n >= j
        BY <2>1, <2>2 DEF Framed
    <2>4. h \in 1..Len(s) /\ h \in Nat
        BY SMT, <1>3, <2>1
    <2>5. PICK m \in Nat : m = s[h].n
        BY <2>4, CellNumber
    <2>6. CASE h = r
        BY SMT, <1>1, <1>3, <2>3, <2>6 DEF j
    <2>7. CASE h < r
        <3>1. r \in h + 1..h + m
            BY SMT, <1>3, <2>3, <2>4, <2>5, <2>7 DEF j
        <3>2. s[r] = Dat(s[h].id, m)
            BY <2>3, <2>4, <2>5, <3>1 DEF Framed
        <3>3. s[r].t = "dat"
            BY <3>2, DatTag
        <3> QED
            BY <3>3
    <2>8. CASE h > r
        <3>1. h \in r + 1..r + n
            BY SMT, <1>3, <2>4, <2>8 DEF j
        <3>2. s[h] = Dat(s[r].id, n)
            BY <1>2, <3>1
        <3>3. s[h].t = "dat"
            BY <3>2, DatTag
        <3> QED
            BY <2>3, <3>3
    <2> QED
        BY SMT, <1>3, <2>4, <2>6, <2>7, <2>8
<1> QED
    BY <1>1, <1>2, <1>4 DEF Boundary

\* A file begins with a record or the end marker.
LEMMA BoundaryFirst ==
    ASSUME NEW s \in Seq(Cell), Framed(s)
    PROVE  Boundary(s, 0)
<1>1. ASSUME 0 < Len(s), s[0 + 1].t = "dat" PROVE FALSE
    <2>1. 1 \in 1..Len(s) /\ s[1].t = "dat"
        BY SMT, <1>1
    <2>2. PICK h \in 1..1 - 1 : s[h].t = "hdr" /\ h + s[h].n >= 1
        BY <2>1 DEF Framed
    <2> QED
        BY SMT, <2>2
<1> QED
    BY <1>1 DEF Boundary

\* A batch without what was written behind it and not counted.
LEMMA CutBack ==
    ASSUME NEW s \in Seq(Cell), NEW x \in Cell
    PROVE  SubSeq(s, 1, Len(s)) = s /\ SubSeq(Append(s, x), 1, Len(s)) = s
<1>1. SubSeq(s, 1, Len(s)) = s
    BY SMT
<1>2. SubSeq(Append(s, x), 1, Len(s)) = s
    BY SMT
<1> QED
    BY <1>1, <1>2

\* The counted part of the write file.
LEMMA CountedPart ==
    ASSUME DataInv
    PROVE  SubSeq(data, 1, curBatchSize) \in Seq(Cell)
BY SMT DEF DataInv, DiskOK, MemoryOK, WriteInv

-----------------------------------------------------------------------------
(* Steps *)

\* A step that leaves the write file alone, and at most removes files.
LEMMA BatchFrame ==
    ASSUME ControlOK, BatchInv, NEW p \in Procs, NEW l, Goto(p, l),
           pc[p] \notin {"p_data", "r_ren"},
           l \notin {"p_data", "r_ren", "s_lock", "s_hdr", "s_write", "s_copy"},
           UNCHANGED <<data, curBatchSize>>,
           \A q \in Procs \ {p} : loc'[q] = loc[q],
           l \in {"p_lock", "p_drop", "p_size", "p_hdr"} => loc'[p].n \in Lens,
           \A f \in DOMAIN files' : f \in DOMAIN files /\ files'[f] = files[f]
    PROVE  BatchInv'
<1>1. \A q \in Procs : pc'[q] = IF q = p THEN l ELSE pc[q]
    BY DEF ControlOK, Goto
<1>2. \A f \in DOMAIN files' : Complete(files'[f])
    BY DEF BatchInv
<1>3. PICK s : s = SubSeq(data, 1, curBatchSize)
    OBVIOUS
<1>4. Batch(s)
    BY <1>3 DEF BatchInv
<1>5. Batch(s)'
    BY <1>1, <1>4 DEF Batch
<1>6. s = SubSeq(data', 1, curBatchSize')
    BY <1>3
<1>7. \A q \in Procs : Putting(q)'
    BY <1>1 DEF BatchInv, Putting
<1>8. Batch(SubSeq(data, 1, curBatchSize))'
    BY <1>5, <1>6 DEF Batch
<1> QED
    BY <1>2, <1>7, <1>8 DEF BatchInv

\* A step of the goroutine that has wlock, which leaves whole records s, counted.
LEMMA BatchWritten ==
    ASSUME ControlOK, LockInv, BatchInv, NEW p \in Procs, wlock = p,
           NEW l \in {"p_data", "r_ren", "r_eof", "idle", "g_open"}, Goto(p, l),
           NEW s \in Seq(Cell), Whole(s), curBatchSize' = Len(s), NEW x \in Cell,
           data' = IF l \in {"p_data", "r_ren"} THEN Append(s, x) ELSE s,
           l = "p_data" => x = Hdr(loc[p].id, loc[p].n) /\ loc[p].n \in Lens,
           l = "r_ren" => x = EOF,
           loc' = loc,
           \A f \in DOMAIN files' : Complete(files'[f])
    PROVE  BatchInv'
<1>1. \A q \in Procs : pc'[q] = IF q = p THEN l ELSE pc[q]
    BY DEF ControlOK, Goto
<1>2. \A q \in Procs \ {p} : pc[q] \notin {"p_data", "r_ren"}
    BY DEF LockInv, Writing, WritePCs
<1>3. s = SubSeq(data', 1, curBatchSize')
    BY CutBack
<1>4. Batch(s)'
    <2>1. \A q \in Procs : pc'[q] = "p_data" => data' = Append(s, Hdr(loc'[q].id, loc'[q].n))
        BY <1>1, <1>2
    <2>2. \A q \in Procs : pc'[q] = "r_ren" => data' = Append(s, EOF)
        BY <1>1, <1>2
    <2>3. (\A q \in Procs : pc'[q] \notin {"p_data", "r_ren"}) => data' = s
        BY <1>1
    <2> QED
        BY <2>1, <2>2, <2>3 DEF Batch
<1>5. \A q \in Procs : Putting(q)'
    BY <1>1 DEF BatchInv, Putting
<1>6. Batch(SubSeq(data, 1, curBatchSize))'
    BY <1>3, <1>4 DEF Batch
<1> QED
    BY <1>5, <1>6 DEF BatchInv

Framing == ControlOK /\ LockInv /\ DataInv /\ BatchInv

\* The steps of Put, Rotate and Close that do not write, and what streams.
LEMMA QuietBatchSteps ==
    ASSUME WholeWrites, Framing, NEW p \in Procs,
           \/ PutStart(p) \/ PutLock(p) \/ PutSize(p)
           \/ StreamStart(p) \/ StreamLock(p) \/ StreamHeader(p) \/ StreamWrite(p)
           \/ StreamCopy(p) \/ RotateStart(p) \/ RotateLock(p)
           \/ CloseStart(p) \/ CloseFinish(p)
    PROVE  BatchInv'
<1>1. CASE StreamStart(p)
    BY <1>1 DEF WholeWrites, StreamStart, Enter
<1>2. CASE StreamLock(p) \/ StreamHeader(p) \/ StreamWrite(p) \/ StreamCopy(p)
    BY <1>2 DEF Framing, BatchInv, Putting, StreamLock, StreamHeader, StreamWrite, StreamCopy
<1>3. CASE PutStart(p)
    <2>1. /\ UNCHANGED <<files, data, curBatchSize>> /\ Goto(p, "p_lock") /\ pc[p] = "idle"
          /\ \E n \in Lens : Set(p, [n |-> n, id |-> nxt, hdr |-> EOF])
        BY <1>3 DEF PutStart, Enter, disk, writer
    <2>2. loc'[p].n \in Lens /\ \A q \in Procs \ {p} : loc'[q] = loc[q]
        <3>1. PICK n \in Lens : loc' = [loc EXCEPT ![p] = [n |-> n, id |-> nxt, hdr |-> EOF]]
            BY <2>1 DEF Set
        <3>2. loc'[p] = [n |-> n, id |-> nxt, hdr |-> EOF]
            BY <3>1 DEF Framing, DataInv, LocalOK
        <3> QED
            BY <3>1, <3>2 DEF Framing, DataInv, LocalOK
    <2> QED
        BY <2>1, <2>2, BatchFrame DEF Framing
<1>4. CASE PutLock(p) \/ PutSize(p)
    <2>1. UNCHANGED <<files, data, curBatchSize, loc>>
        BY <1>4 DEF PutLock, PutSize, disk, writer
    <2>2. PICK l \in {"idle", "p_drop", "p_size", "p_hdr"} : Goto(p, l)
        BY <1>4 DEF PutLock, PutSize, Return
    <2>3. pc[p] \notin {"p_data", "r_ren"} /\ loc[p].n \in Lens
        BY <1>4 DEF PutLock, PutSize, Framing, BatchInv, Putting
    <2> QED
        BY <2>1, <2>2, <2>3, BatchFrame DEF Framing
<1>5. CASE RotateStart(p) \/ RotateLock(p) \/ CloseStart(p) \/ CloseFinish(p)
    <2>1. UNCHANGED <<files, data, curBatchSize, loc>>
        BY <1>5 DEF RotateStart, RotateLock, CloseStart, CloseFinish, Enter, disk, writer
    <2>2. PICK l \in {"idle", "x_lock", "r_eof", "c_wait"} : Goto(p, l)
        BY <1>5 DEF RotateStart, RotateLock, CloseStart, CloseFinish, Enter
    <2>3. pc[p] \notin {"p_data", "r_ren"}
        BY <1>5 DEF RotateStart, RotateLock, CloseStart, CloseFinish, Enter
    <2> QED
        BY <2>1, <2>2, <2>3, BatchFrame DEF Framing
<1> QED
    BY <1>1, <1>2, <1>3, <1>4, <1>5

\* The steps that remove a file.
LEMMA RemoveBatchSteps ==
    ASSUME Framing, NEW p \in Procs, PutDrop(p) \/ NextRemove(p)
    PROVE  BatchInv'
<1>1. UNCHANGED <<data, curBatchSize, loc>>
    BY DEF PutDrop, NextRemove, writer
<1>2. PICK l \in {"idle", "n_reset", "p_size"} : Goto(p, l)
    BY DEF PutDrop, NextRemove, Return
<1>3. pc[p] \notin {"p_data", "r_ren"}
    BY DEF PutDrop, NextRemove
<1>4. l \in {"p_lock", "p_drop", "p_size", "p_hdr"} => loc'[p].n \in Lens
    <2>1. CASE PutDrop(p)
        BY <1>1, <2>1 DEF PutDrop, Framing, BatchInv, Putting
    <2>2. CASE NextRemove(p)
        BY <1>2, <2>2 DEF NextRemove, Return, Goto, Framing, ControlOK
    <2> QED
        BY <2>1, <2>2
<1>5. files' = files \/ \E f : files' = RemoveFile(f)
    BY DEF PutDrop, NextRemove
<1>6. \A f \in DOMAIN files' : f \in DOMAIN files /\ files'[f] = files[f]
    BY <1>5, RemoveFileType DEF Framing, DataInv
<1> QED
    BY <1>1, <1>2, <1>3, <1>4, <1>6, BatchFrame DEF Framing

\* The steps of Get.
LEMMA ReaderBatchSteps ==
    ASSUME Framing, NEW p \in Procs,
           \/ GetStart(p) \/ GetLock(p) \/ GetWake(p) \/ GetNoWake(p) \/ GetOpen(p)
           \/ GetRetry(p) \/ GetHeader(p) \/ GetLength(p) \/ GetData(p) \/ GetFn(p)
           \/ NextReset(p) \/ NextOpen(p) \/ GetPos(p) \/ GetDump(p)
    PROVE  BatchInv'
<1>1. UNCHANGED <<files, data, curBatchSize>>
    BY DEF GetStart, GetLock, GetWake, GetNoWake, GetOpen, GetRetry, GetHeader, GetLength,
       GetData, GetFn, NextReset, NextOpen, GetPos, GetDump, Enter, disk, writer
<1>2. PICK l : /\ Goto(p, l)
               /\ l \in {"idle", "r_eof"} \cup ReadPCs \cup {"g_lock"}
    BY DEF GetStart, GetLock, GetWake, GetNoWake, GetOpen, GetRetry, GetHeader, GetLength,
       GetData, GetFn, NextReset, NextOpen, GetPos, GetDump, Enter, Return, Switch, ReadPCs
<1>3. pc[p] \notin {"p_data", "r_ren"}
    BY DEF GetStart, GetLock, GetWake, GetNoWake, GetOpen, GetRetry, GetHeader, GetLength,
       GetData, GetFn, NextReset, NextOpen, GetPos, GetDump, Enter
<1>4. loc' = loc \/ \E r : Set(p, r)
    BY DEF GetStart, GetLock, GetWake, GetNoWake, GetOpen, GetRetry, GetHeader, GetLength,
       GetData, GetFn, NextReset, NextOpen, GetPos, GetDump, Enter
<1>5. \A q \in Procs \ {p} : loc'[q] = loc[q]
    BY <1>4 DEF Set, Framing, DataInv, LocalOK
<1> QED
    BY <1>1, <1>2, <1>3, <1>5, BatchFrame DEF Framing, ReadPCs

\* What a goroutine that has wlock finds, unless it wrote and did not count yet.
LEMMA BatchFound ==
    ASSUME Framing, NEW p \in Procs, Writing(p), pc[p] \notin {"p_data", "r_ren"}
    PROVE  /\ data \in Seq(Cell) /\ Whole(data) /\ wlock = p
           /\ curBatchSize = Len(data) /\ OpenedBatchSize = Len(data)
<1>1. wlock = p
    BY HoldsWlock DEF Framing
<1>2. \A q \in Procs : pc[q] \notin {"p_data", "r_ren"}
    BY <1>1 DEF Framing, LockInv, Writing, WritePCs
<1>3. PICK s : s = SubSeq(data, 1, curBatchSize)
    OBVIOUS
<1>4. Batch(s)
    BY <1>3 DEF Framing, BatchInv
<1>5. data = s /\ Whole(s) /\ curBatchSize = Len(s)
    BY <1>2, <1>4 DEF Batch
<1> QED
    BY <1>1, <1>5 DEF OpenedBatchSize, Framing, DataInv, DiskOK

\* Put: the header is behind the counted records.
LEMMA HeaderBatchStep ==
    ASSUME WholeWrites, Framing, NEW p \in Procs, PutHeader(p)
    PROVE  BatchInv'
<1>1. /\ data \in Seq(Cell) /\ Whole(data) /\ wlock = p
      /\ curBatchSize = Len(data) /\ OpenedBatchSize = Len(data)
    BY BatchFound DEF PutHeader, Writing, WritePCs
<1> DEFINE h == Hdr(loc[p].id, loc[p].n)
<1>2. /\ h \in Cell /\ loc' = loc /\ loc[p].n \in Lens
      /\ \A f \in DOMAIN files' : Complete(files'[f])
    BY LocalType, CellFacts DEF PutHeader, Framing, DataInv, BatchInv, Putting
<1>3. /\ curBatchSize' = Len(data)
      /\ \/ data' = Append(data, h) /\ Goto(p, "p_data")
         \/ data' = data /\ Goto(p, "idle")
    BY <1>1 DEF PutHeader, WholeWrites, EnsureFails, Return
<1>4. CASE data' = Append(data, h) /\ Goto(p, "p_data")
    BY <1>1, <1>2, <1>3, <1>4, BatchWritten DEF Framing
<1>5. CASE data' = data /\ Goto(p, "idle")
    BY <1>1, <1>2, <1>3, <1>5, BatchWritten DEF Framing
<1> QED
    BY <1>3, <1>4, <1>5

\* rotate: the end marker is behind the counted records.
LEMMA MarkerBatchStep ==
    ASSUME WholeWrites, Framing, NEW p \in Procs, RotateEOF(p)
    PROVE  BatchInv'
<1>1. /\ data \in Seq(Cell) /\ Whole(data) /\ wlock = p
      /\ curBatchSize = Len(data) /\ OpenedBatchSize = Len(data)
    BY BatchFound DEF RotateEOF, Writing, WritePCs
<1>2. /\ EOF \in Cell /\ loc' = loc /\ \A f \in DOMAIN files' : Complete(files'[f])
    BY CellFacts DEF RotateEOF, Framing, BatchInv
<1>3. /\ curBatchSize' = Len(data)
      /\ \/ data' = Append(data, EOF) /\ Goto(p, "r_ren")
         \/ data' = data /\ Goto(p, "idle")
    BY <1>1 DEF RotateEOF, WholeWrites, EnsureFails, Return, WithEOF
<1>4. CASE data' = Append(data, EOF) /\ Goto(p, "r_ren")
    BY <1>1, <1>2, <1>3, <1>4, BatchWritten DEF Framing
<1>5. CASE data' = data /\ Goto(p, "idle")
    BY <1>1, <1>2, <1>3, <1>5, BatchWritten DEF Framing
<1> QED
    BY <1>3, <1>4, <1>5

\* What the goroutine between its two writes finds.
LEMMA BatchBetween ==
    ASSUME Framing, NEW p \in Procs, pc[p] \in {"p_data", "r_ren"}
    PROVE  \E s \in Seq(Cell) :
              /\ Whole(s) /\ curBatchSize = Len(s) /\ Truncated = s
              /\ pc[p] = "p_data" => data = Append(s, Hdr(loc[p].id, loc[p].n))
              /\ pc[p] = "r_ren" => data = Append(s, EOF)
<1>1. PICK s : s = SubSeq(data, 1, curBatchSize)
    OBVIOUS
<1>2. Batch(s)
    BY <1>1 DEF Framing, BatchInv
<1>3. s \in Seq(Cell)
    BY <1>1, CountedPart DEF Framing
<1>4. Truncated = s
    BY <1>1 DEF Truncated
<1> QED
    BY <1>2, <1>3, <1>4 DEF Batch

\* Put: the data completes the record, which is counted.
LEMMA DataBatchStep ==
    ASSUME WholeWrites, Framing, NEW p \in Procs, PutData(p)
    PROVE  BatchInv'
<1>1. pc[p] = "p_data" /\ wlock = p
    BY HoldsWlock DEF PutData, Framing, Writing, WritePCs
<1>2. PICK s \in Seq(Cell) : /\ Whole(s) /\ curBatchSize = Len(s)
                             /\ data = Append(s, Hdr(loc[p].id, loc[p].n))
    BY <1>1, BatchBetween
<1>3. PICK n \in Nat, id \in Nat : n = loc[p].n /\ id = loc[p].id
    BY LocalType DEF Framing, DataInv
<1>4. /\ n \in Lens /\ loc' = loc /\ EOF \in Cell
      /\ \A f \in DOMAIN files' : Complete(files'[f])
    BY <1>1, <1>3, CellFacts DEF PutData, Framing, BatchInv, Putting
<1>5. data' = data \o Payload(id, n, n) /\ curBatchSize' = curBatchSize + n + 1
    BY <1>3 DEF PutData, WholeWrites
<1>6. PICK l \in {"r_eof", "idle"} : Goto(p, l)
    BY DEF PutData, WholeWrites, AfterWrite, Return
<1> DEFINE t == Append(s, Hdr(id, n)) \o Payload(id, n, n)
<1>7. data' = t
    BY <1>2, <1>3, <1>5
<1>8. Whole(t)
    BY <1>2, <1>4, RecordWhole
<1>9. t \in Seq(Cell) /\ Len(t) = Len(s) + 1 + n
    BY RecordCells DEF Extended
<1> HIDE DEF t
<1>10. curBatchSize' = Len(t)
    <2>1. Len(s) \in Nat
        BY SMT
    <2> QED
        BY SMT, <1>2, <1>5, <1>9, <2>1
<1> QED
    BY <1>1, <1>4, <1>6, <1>7, <1>8, <1>9, <1>10, BatchWritten DEF Framing

\* The empty write file.
LEMMA EmptyWhole == <<>> \in Seq(Cell) /\ Whole(<<>>) /\ Len(<<>>) = 0
<1>1. <<>> \in Seq(Cell) /\ Len(<<>>) = 0 /\ 1..0 = {}
    BY SMT
<1> QED
    BY <1>1 DEF Whole, Framed, NoEOF, Sized

\* rotate: the batch becomes a file, or the marker is taken back.
LEMMA RenameBatchStep ==
    ASSUME Framing, NEW p \in Procs, RotateRename(p)
    PROVE  BatchInv'
<1>1. pc[p] = "r_ren" /\ wlock = p /\ loc' = loc /\ EOF \in Cell
    BY HoldsWlock, CellFacts DEF RotateRename, Framing, Writing, WritePCs
<1>2. PICK s \in Seq(Cell) : /\ Whole(s) /\ curBatchSize = Len(s) /\ Truncated = s
                             /\ data = Append(s, EOF)
    BY <1>1, BatchBetween
<1>3. PICK l \in {"idle", "g_open"} : Goto(p, l)
    BY DEF RotateRename, AfterRotate, Return
<1>4. CASE files' = AddFile(NewFile, data) /\ data' = <<>> /\ curBatchSize' = 0
    <2>1. Complete(data)
        BY <1>2, MarkerCompletes
    <2>2. \A f \in DOMAIN files' : Complete(files'[f])
        BY <1>4, <2>1 DEF AddFile, Framing, BatchInv
    <2> QED
        BY <1>1, <1>3, <1>4, <2>2, EmptyWhole, BatchWritten DEF Framing
<1>5. CASE files' = files /\ data' = Truncated /\ curBatchSize' = Len(data')
    <2>1. \A f \in DOMAIN files' : Complete(files'[f])
        BY <1>5 DEF Framing, BatchInv
    <2> QED
        BY <1>1, <1>2, <1>3, <1>5, <2>1, BatchWritten DEF Framing
<1> QED
    BY <1>4, <1>5 DEF RotateRename

\* Kill and Open: the size of the write file is what was counted.
LEMMA RestartBatchSteps ==
    ASSUME WholeWrites, Framing, Kill \/ Open
    PROVE  BatchInv'
<1>1. UNCHANGED <<files, data>> /\ \A p \in Procs : pc[p] \notin {"p_data", "r_ren"}
    <2>1. CASE Kill
        BY <2>1 DEF Kill, disk, WholeWrites
    <2>2. CASE Open
        BY <2>2, ConstantsAssumption DEF Open, Framing, LockInv
    <2> QED
        BY <2>1, <2>2
<1>2. \A p \in Procs : pc'[p] = "idle"
    <2>1. CASE Kill
        BY <2>1 DEF Kill
    <2>2. CASE Open
        BY <2>2, ConstantsAssumption DEF Open, Framing, LockInv
    <2> QED
        BY <2>1, <2>2
<1>3. PICK s : s = SubSeq(data, 1, curBatchSize)
    OBVIOUS
<1>4. Batch(s)
    BY <1>3 DEF Framing, BatchInv
<1>5. data = s /\ Whole(s) /\ curBatchSize = Len(s)
    BY <1>1, <1>4 DEF Batch
<1>6. curBatchSize' = Len(s)
    BY <1>5 DEF Kill, Open
<1>7. s \in Seq(Cell) /\ EOF \in Cell
    BY <1>3, CountedPart, CellFacts DEF Framing
<1>8. s = SubSeq(data', 1, curBatchSize')
    BY <1>1, <1>5, <1>6, <1>7, CutBack
<1>9. Batch(s)'
    BY <1>1, <1>2, <1>5, <1>6 DEF Batch
<1>10. Batch(SubSeq(data, 1, curBatchSize))'
    BY <1>8, <1>9 DEF Batch
<1>11. \A p \in Procs : Putting(p)'
    BY <1>2 DEF Putting
<1> QED
    BY <1>1, <1>10, <1>11 DEF Framing, BatchInv

\* Every step keeps the files complete and the batch whole.
LEMMA BatchInvKept ==
    ASSUME WholeWrites, Framing, [Next]_vars
    PROVE  BatchInv'
<1>1. CASE UNCHANGED vars
    BY <1>1 DEF vars, disk, index, reader, writer, Framing, BatchInv, Batch, Putting
<1>2. ASSUME NEW p \in Procs, Step(p) PROVE BatchInv'
    <2>1. CASE PutHeader(p) \/ PutData(p) \/ RotateEOF(p) \/ RotateRename(p)
        BY <2>1, HeaderBatchStep, DataBatchStep, MarkerBatchStep, RenameBatchStep
    <2> QED
        BY <1>2, <2>1, QuietBatchSteps, RemoveBatchSteps, ReaderBatchSteps DEF Step
<1> QED
    BY <1>1, <1>2, RestartBatchSteps DEF Next

LEMMA AlwaysFramed == WholeWrites /\ Spec => []Framing
<1>1. Init => BatchInv
    <2> SUFFICES ASSUME Init PROVE BatchInv
        OBVIOUS
    <2>1. data = <<>> /\ curBatchSize = 0 /\ DOMAIN files = {} /\ \A p \in Procs : pc[p] = "idle"
        BY DEF Init
    <2>2. SubSeq(data, 1, curBatchSize) = <<>>
        BY SMT, <2>1
    <2>3. Batch(<<>>)
        BY <2>1, EmptyWhole DEF Batch
    <2> QED
        BY <2>1, <2>2, <2>3 DEF BatchInv, Putting
<1>2. WholeWrites /\ Framing /\ [Next]_vars => (WholeWrites /\ BatchInv)'
    <2>1. WholeWrites => WholeWrites'
        BY DEF WholeWrites
    <2> QED
        BY <2>1, BatchInvKept
<1> QED
    BY <1>1, <1>2, Locks, Types, PTL DEF Spec, Framing

\* The file being read, when it has cells.
LEMMA FileBeingRead ==
    ASSUME Framing
    PROVE  /\ Content(curReadfile) \in Seq(Cell)
           /\ Content(curReadfile) # <<>> =>
                 Framed(Content(curReadfile)) /\ Sized(Content(curReadfile))
<1>1. Content(curReadfile) \in Seq(Cell)
    BY ContentType DEF Framing, DataInv
<1>2. ASSUME Content(curReadfile) # <<>>
      PROVE  Framed(Content(curReadfile)) /\ Sized(Content(curReadfile))
    <2>1. curReadfile \in DOMAIN files /\ Content(curReadfile) = files[curReadfile]
        BY <1>2 DEF Content
    <2> QED
        BY <2>1 DEF Framing, BatchInv, Complete
<1> QED
    BY <1>1, <1>2

\* Every rotated file is whole records closed by one end marker, and the marker of
\* a rotate whose rename failed is taken back.
THEOREM RotatedFilesComplete == WholeWrites /\ Spec => []FilesComplete
<1>1. Framing => FilesComplete
    <2> SUFFICES ASSUME Framing PROVE FilesComplete
        OBVIOUS
    <2>1. PICK s : s = SubSeq(data, 1, curBatchSize)
        OBVIOUS
    <2>2. Batch(s) /\ s \in Seq(Cell)
        BY <2>1, CountedPart DEF Framing, BatchInv
    <2>3. ASSUME \A p \in Procs : pc[p] # "r_ren" PROVE NoEOF(data)
        <3>1. CASE data = s
            BY <2>2, <3>1 DEF Batch, Whole
        <3>2. CASE data # s
            <4>1. PICK p \in Procs : pc[p] = "p_data"
                BY <2>2, <2>3, <3>2 DEF Batch
            <4>2. PICK h \in Cell : h.t = "hdr" /\ data = Append(s, h)
                BY <2>2, <4>1, LocalType, CellFacts DEF Batch, Hdr, Framing, DataInv
            <4>3. /\ \A i \in 1..Len(data) : i \in 1..Len(s) \/ i = Len(s) + 1
                  /\ data[Len(s) + 1] = h /\ \A i \in 1..Len(s) : data[i] = s[i]
                BY SMT, <2>2, <4>2
            <4> QED
                BY <2>2, <4>2, <4>3 DEF Batch, Whole, NoEOF
        <3> QED
            BY <3>1, <3>2
    <2>4. \A f \in DOMAIN files : Complete(files[f])
        BY DEF Framing, BatchInv
    <2> QED
        BY <2>3, <2>4 DEF FilesComplete, Complete
<1> QED
    BY <1>1, AlwaysFramed, PTL

=============================================================================
