--------------------------- MODULE DiskCacheOrder ---------------------------
(***************************************************************************)
(* Records are delivered in the order in which they were written, each     *)
(* once: for every cache whose writes do not fail half-way, within one     *)
(* life of the process, with or without dropBatch.                         *)
(***************************************************************************)
EXTENDS DiskCacheContent

\* A leaf is first-order reasoning unless it names another prover.
USE Zenon

-----------------------------------------------------------------------------
(* Records and their order *)

\* Fewer records lie behind a later offset, and all behind offset 0.
LEMMA RecordsLater ==
    ASSUME NEW s \in Seq(Cell), NEW a \in Int, NEW b \in Int, a <= b
    PROVE  /\ RecordsAfter(s, b) \subseteq RecordsAfter(s, a)
           /\ RecordsAfter(s, a) \subseteq RecordsOf(s)
<1>1. \A k \in 1..Len(s) : k > b => k > a
    BY SMT
<1>2. ASSUME NEW x \in RecordsAfter(s, b) PROVE x \in RecordsAfter(s, a)
    <2>1. PICK k \in 1..Len(s) : k > b /\ s[k].t = "hdr" /\ x = s[k].id
        BY DEF RecordsOf, RecordsAfter
    <2> QED
        BY <1>1, <2>1 DEF RecordsOf, RecordsAfter
<1>3. \A x \in RecordsAfter(s, a) : x \in RecordsOf(s)
    BY DEF RecordsOf, RecordsAfter
<1> QED
    BY <1>2, <1>3

\* The end marker is no record, an appended record is one.
LEMMA MarkerNoRecord ==
    ASSUME NEW s \in Seq(Cell)
    PROVE  RecordsOf(Append(s, EOF)) = RecordsOf(s)
<1> DEFINE t == Append(s, EOF)
           e == EOF
<1>1. e \in Cell /\ e.t = "eof"
    BY CellFacts DEF EOF
<1> HIDE DEF e
<1>2. /\ Len(Append(s, e)) = Len(s) + 1 /\ Len(s) \in Nat
      /\ \A i \in 1..Len(s) : Append(s, e)[i] = s[i]
      /\ Append(s, e)[Len(s) + 1] = e
    BY SMT, <1>1
<1>3. /\ Len(t) = Len(s) + 1 /\ Len(s) \in Nat
      /\ \A i \in 1..Len(s) : t[i] = s[i]
      /\ t[Len(s) + 1] = e
    BY <1>2 DEF e
<1> HIDE DEF t
<1>4. /\ \A k \in 1..Len(t) : k \in 1..Len(s) \/ k = Len(s) + 1
      /\ \A k \in 1..Len(s) : k \in 1..Len(t)
    BY SMT, <1>3
<1>5. ASSUME NEW x \in RecordsOf(t) PROVE x \in RecordsOf(s)
    <2>1. PICK k \in 1..Len(t) : t[k].t = "hdr" /\ x = t[k].id
        BY DEF RecordsOf, RecordsAfter
    <2>2. k \in 1..Len(s) /\ s[k].t = "hdr" /\ x = s[k].id
        BY <1>1, <1>3, <1>4, <2>1
    <2> QED
        BY <2>2 DEF RecordsOf, RecordsAfter
<1>6. ASSUME NEW x \in RecordsOf(s) PROVE x \in RecordsOf(t)
    <2>1. PICK k \in 1..Len(s) : s[k].t = "hdr" /\ x = s[k].id
        BY DEF RecordsOf, RecordsAfter
    <2>2. k \in 1..Len(t) /\ t[k].t = "hdr" /\ x = t[k].id
        BY <1>3, <1>4, <2>1
    <2> QED
        BY <2>2 DEF RecordsOf, RecordsAfter
<1> QED
    BY <1>5, <1>6 DEF t

LEMMA MarkerOrdered ==
    ASSUME NEW s \in Seq(Cell), Ordered(s)
    PROVE  Ordered(Append(s, EOF))
<1> DEFINE t == Append(s, EOF)
           e == EOF
<1>1. e \in Cell /\ e.t = "eof"
    BY CellFacts DEF EOF
<1> HIDE DEF e
<1>2. /\ Len(Append(s, e)) = Len(s) + 1 /\ Len(s) \in Nat
      /\ \A i \in 1..Len(s) : Append(s, e)[i] = s[i]
      /\ Append(s, e)[Len(s) + 1] = e
    BY SMT, <1>1
<1>3. /\ Len(t) = Len(s) + 1 /\ Len(s) \in Nat
      /\ \A i \in 1..Len(s) : t[i] = s[i]
      /\ t[Len(s) + 1] = e
    BY <1>2 DEF e
<1> HIDE DEF t
<1>4. \A k \in 1..Len(t) : k \in 1..Len(s) \/ k = Len(s) + 1
    BY SMT, <1>3
<1>5. Ordered(t)
    BY <1>1, <1>3, <1>4 DEF Ordered
<1> QED
    BY <1>5 DEF t

LEMMA RecordAdded ==
    ASSUME NEW s \in Seq(Cell), NEW id \in Nat, NEW n \in Nat, NEW t, Extended(s, id, n, t)
    PROVE  RecordsOf(t) = RecordsOf(s) \cup {id}
<1>1. /\ Len(t) = Len(s) + 1 + n /\ Len(s) \in Nat
      /\ \A i \in 1..Len(s) : t[i] = s[i]
      /\ t[Len(s) + 1] = Hdr(id, n)
      /\ \A i \in Len(s) + 2..Len(s) + 1 + n : t[i] = Dat(id, n)
    <2>1. Len(s) \in Nat
        BY SMT
    <2> QED
        BY <2>1 DEF Extended
<1>2. Hdr(id, n).t = "hdr" /\ Hdr(id, n).id = id /\ Dat(id, n).t = "dat"
    BY DEF Hdr, Dat
<1>3. /\ \A i \in 1..Len(t) : i \in 1..Len(s) \/ i = Len(s) + 1 \/ i \in Len(s) + 2..Len(s) + 1 + n
      /\ \A i \in 1..Len(s) : i \in 1..Len(t)
      /\ Len(s) + 1 \in 1..Len(t)
    BY SMT, <1>1
<1>4. ASSUME NEW x \in RecordsOf(t) PROVE x \in RecordsOf(s) \cup {id}
    <2>1. PICK k \in 1..Len(t) : t[k].t = "hdr" /\ x = t[k].id
        BY DEF RecordsOf, RecordsAfter
    <2>2. CASE k \in 1..Len(s)
        <3>1. s[k].t = "hdr" /\ x = s[k].id
            BY <1>1, <2>1, <2>2
        <3> QED
            BY <2>2, <3>1 DEF RecordsOf, RecordsAfter
    <2>3. CASE k = Len(s) + 1
        BY <1>1, <1>2, <2>1, <2>3
    <2>4. CASE k \in Len(s) + 2..Len(s) + 1 + n
        BY <1>1, <1>2, <2>1, <2>4
    <2> QED
        BY <1>3, <2>2, <2>3, <2>4
<1>5. ASSUME NEW x \in RecordsOf(s) PROVE x \in RecordsOf(t)
    <2>1. PICK k \in 1..Len(s) : s[k].t = "hdr" /\ x = s[k].id
        BY DEF RecordsOf, RecordsAfter
    <2>2. k \in 1..Len(t) /\ t[k].t = "hdr" /\ x = t[k].id
        BY <1>1, <1>3, <2>1
    <2> QED
        BY <2>2 DEF RecordsOf, RecordsAfter
<1>6. id \in RecordsOf(t)
    <2>1. t[Len(s) + 1].t = "hdr" /\ id = t[Len(s) + 1].id
        BY <1>1, <1>2
    <2> QED
        BY <1>3, <2>1 DEF RecordsOf, RecordsAfter
<1> QED
    BY <1>4, <1>5, <1>6

\* A record that is written comes after all that are.
LEMMA WrittenLast ==
    ASSUME NEW id \in Nat, written \in Seq(Nat), written' = Append(written, id)
    PROVE  /\ \A a, b : Before(a, b) => Before(a, b)'
           /\ \A a \in Range(written) : Before(a, id)'
           /\ Range(written') = Range(written) \cup {id}
<1>1. /\ Len(written') = Len(written) + 1 /\ Len(written) \in Nat
      /\ \A i \in 1..Len(written) : written'[i] = written[i]
      /\ written'[Len(written) + 1] = id
      /\ DOMAIN written = 1..Len(written)
    BY SMT
<1>2. /\ \A i \in 1..Len(written) : i \in 1..Len(written') /\ i < Len(written) + 1
      /\ Len(written) + 1 \in 1..Len(written')
    BY SMT, <1>1
<1>3. ASSUME NEW a, NEW b, Before(a, b) PROVE Before(a, b)'
    BY <1>1, <1>2, <1>3 DEF Before
<1>4. ASSUME NEW a \in Range(written) PROVE Before(a, id)'
    <2>1. PICK k \in 1..Len(written) : written[k] = a
        BY <1>1 DEF Range
    <2> QED
        BY <1>1, <1>2, <2>1 DEF Before
<1>5. Range(written') = Range(written) \cup {id}
    BY RangeAppend
<1> QED
    BY <1>3, <1>4, <1>5

LEMMA NoRecords == RecordsOf(<<>>) = {} /\ Ordered(<<>>)
<1>1. 1..Len(<<>>) = {}
    BY SMT
<1> QED
    BY <1>1 DEF RecordsOf, Ordered

LEMMA SameBefore ==
    ASSUME written' = written
    PROVE  \A a, b : Before(a, b)' <=> Before(a, b)
BY DEF Before

\* The step writes no record, and what is left to open was left before.
Shrunk ==
    /\ written' = written /\ Truncated' = Truncated
    /\ \A f \in Listing' : f \in Listing /\ (Content(f)' = Content(f) \/ Content(f)' = <<>>)
    /\ \A f \in Listing' \ {curReadfile'} : f # curReadfile \/ Content(f)' = <<>>

\* Such a step keeps the order on disk ...
LEMMA WrittenShrinks ==
    ASSUME WrittenInOrder, Shrunk
    PROVE  WrittenInOrder'
<1>1. written' = written /\ Truncated' = Truncated
    BY DEF Shrunk
<1>2. \A a, b : Before(a, b)' <=> Before(a, b)
    BY <1>1, SameBefore
<1>3. InBatch' = InBatch
    BY <1>1 DEF InBatch
<1>4. ASSUME NEW f \in Listing'
      PROVE  f \in Listing /\ \A x \in RecordsIn(f)' : x \in RecordsIn(f)
    BY <1>4, NoRecords DEF Shrunk, RecordsIn
<1>5. ASSUME NEW f \in Listing' PROVE Ordered(Content(f))'
    <2>1. CASE Content(f)' = Content(f)
        <3>1. Ordered(Content(f))
            BY <1>5 DEF Shrunk, WrittenInOrder
        <3> QED
            BY <1>2, <2>1, <3>1 DEF Ordered
    <2>2. CASE Content(f)' = <<>>
        <3>1. 1..Len(<<>>) = {}
            BY SMT
        <3> QED
            BY <2>2, <3>1 DEF Ordered
    <2> QED
        BY <1>5, <2>1, <2>2 DEF Shrunk
<1>6. Ordered(Truncated)'
    BY <1>1, <1>2 DEF Ordered, WrittenInOrder
<1>7. \A f \in Listing' : RecordsIn(f)' \subseteq Range(written')
    BY <1>1, <1>4 DEF WrittenInOrder
<1>8. ASSUME NEW f \in Listing', NEW g \in Listing', f < g
      PROVE  AllBefore(RecordsIn(f), RecordsIn(g))'
    <2>1. AllBefore(RecordsIn(f), RecordsIn(g))
        BY <1>4, <1>8 DEF WrittenInOrder
    <2> QED
        BY <1>2, <1>4, <2>1 DEF AllBefore
<1>9. ASSUME NEW f \in Listing' PROVE AllBefore(RecordsIn(f), InBatch)'
    <2>1. AllBefore(RecordsIn(f), InBatch)
        BY <1>4 DEF WrittenInOrder
    <2> QED
        BY <1>2, <1>3, <1>4, <2>1 DEF AllBefore
<1>10. InBatch' \subseteq Range(written')
    BY <1>1, <1>3 DEF WrittenInOrder
<1> QED
    BY <1>5, <1>6, <1>7, <1>8, <1>9, <1>10 DEF WrittenInOrder

\* ... and what precedes.
LEMMA PrecedeShrinks ==
    ASSUME NEW R, Precede(R), Shrunk
    PROVE  Precede(R)'
<1>1. written' = written /\ Truncated' = Truncated
    BY DEF Shrunk
<1>2. \A a, b : Before(a, b)' <=> Before(a, b)
    BY <1>1, SameBefore
<1>3. InBatch' = InBatch
    BY <1>1 DEF InBatch
<1>4. AllBefore(R, InBatch)'
    BY <1>2, <1>3 DEF Precede, AllBefore
<1>5. ASSUME NEW f \in Listing' \ {curReadfile'} PROVE AllBefore(R, RecordsIn(f))'
    <2>1. CASE Content(f)' = <<>>
        <3>1. RecordsIn(f)' = {}
            BY <2>1, NoRecords DEF RecordsIn
        <3> QED
            BY <3>1 DEF AllBefore
    <2>2. CASE Content(f)' # <<>>
        <3>1. f \in Listing \ {curReadfile} /\ RecordsIn(f)' = RecordsIn(f)
            BY <1>5, <2>2 DEF Shrunk, RecordsIn
        <3>2. AllBefore(R, RecordsIn(f))
            BY <3>1 DEF Precede
        <3> QED
            BY <1>2, <3>1, <3>2 DEF AllBefore
    <2> QED
        BY <2>1, <2>2
<1>6. R \subseteq Range(written')
    BY <1>1 DEF Precede
<1> QED
    BY <1>4, <1>5, <1>6 DEF Precede

\* A step at which no reader is between header and position, and that does not read.
LEMMA OrderFrame ==
    ASSUME ControlOK, OrderInv, WrittenInOrder',
           \A a, b : Before(a, b) => Before(a, b)',
           \A R : Precede(R) => Precede(R)',
           NEW p \in Procs, NEW l, Goto(p, l),
           pc[p] \notin Midway, l \notin Midway,
           UNCHANGED <<delivered, batchHeader>>,
           \A q \in Procs \ {p} : loc'[q] = loc[q],
           l \in {"n_reset", "n_open"} => curReadfile' = None,
           \A q \in Procs \ {p} : pc[q] \in {"n_reset", "n_open"} => curReadfile' = None,
           rfd' # None => /\ UNCHANGED <<rfd, curReadfile>>
                          /\ Content(curReadfile)' = Content(curReadfile)
                          /\ dataFiles # <<>> =>
                               dataFiles' # <<>> /\ Head(dataFiles') = Head(dataFiles)
    PROVE  OrderInv'
<1>1. \A q \in Procs : pc'[q] = IF q = p THEN l ELSE pc[q]
    BY DEF ControlOK, Goto
<1>2. Done' = Done
    BY DEF Done
<1>5. InWriteOrder'
    <2>1. InWriteOrder
        BY DEF OrderInv
    <2> QED
        BY <2>1 DEF InWriteOrder
<1>6. Precede(Done)'
    <2>1. PICK R : R = Done
        OBVIOUS
    <2>2. Precede(R)
        BY <2>1 DEF OrderInv
    <2>3. Precede(R)'
        BY <2>2
    <2> QED
        BY <1>2, <2>1, <2>3 DEF Precede
<1>7. ASSUME NEW q \in Procs PROVE InHand(q)'
    <2> SUFFICES ASSUME pc'[q] = "g_fn"
                 PROVE  AllBefore(Done, {loc[q].id})' /\ Precede({loc[q].id})'
        BY DEF InHand
    <2>1. q # p /\ pc[q] = "g_fn" /\ loc'[q] = loc[q]
        BY <1>1 DEF Midway
    <2>2. PICK R : R = {loc[q].id}
        OBVIOUS
    <2>3. AllBefore(Done, R) /\ Precede(R)
        BY <2>1, <2>2 DEF OrderInv, InHand
    <2>4. Precede(R)'
        BY <2>3
    <2>5. R = {loc'[q].id}
        BY <2>1, <2>2
    <2>6. Precede({loc[q].id})'
        BY <2>4, <2>5 DEF Precede
    <2>7. AllBefore(Done, {loc[q].id})'
        BY <1>2, <2>2, <2>3, <2>5 DEF AllBefore
    <2> QED
        BY <2>6, <2>7
<1>8. \A q \in Procs : pc'[q] \in {"n_reset", "n_open"} => curReadfile' = None
    BY <1>1
<1>9. ASSUME rfd' # None
      PROVE  /\ dataFiles' # <<>> /\ curReadfile' = Head(dataFiles')
             /\ \A q \in Procs : Parsed(q)'
             /\ (\A q \in Procs : pc'[q] \notin Midway) => Settled'
    <2>1. /\ rfd # None /\ UNCHANGED <<rfd, curReadfile>>
          /\ Content(curReadfile)' = Content(curReadfile)
        BY <1>9
    <2>2. /\ dataFiles # <<>> /\ curReadfile = Head(dataFiles)
          /\ \A q \in Procs : Parsed(q)
          /\ (\A q \in Procs : pc[q] \notin Midway) => Settled
        BY <2>1 DEF OrderInv
    <2>3. ASSUME NEW R, NEW off, Fresh(R, off) PROVE Fresh(R, off)'
        BY <2>1, <2>3 DEF Fresh, AllBefore
    <2>4. ASSUME NEW q \in Procs PROVE Parsed(q)'
        <3>1. CASE pc'[q] \notin Midway
            BY <3>1 DEF Parsed, Midway
        <3>2. CASE pc'[q] \in Midway
            <4>1. pc'[q] = pc[q] /\ loc'[q] = loc[q]
                BY <1>1, <3>2
            <4>2. Parsed(q)
                BY <2>2
            <4>3. PICK o1, o2, R1, R2 : /\ o1 = rfd - 1 /\ o2 = rfd - (loc[q].n + 1)
                                        /\ R1 = Done /\ R2 = {loc[q].id}
                OBVIOUS
            <4>4. /\ pc[q] \in {"g_len", "g_data"} => Fresh(R1, o1)
                  /\ pc[q] = "g_fn" => Fresh(R1, o2) /\ Fresh(R2, rfd)
                BY <4>2, <4>3 DEF Parsed
            <4>5. PICK r : r = rfd
                OBVIOUS
            <4>6. /\ pc[q] \in {"g_len", "g_data"} => Fresh(R1, o1)'
                  /\ pc[q] = "g_fn" => Fresh(R1, o2)' /\ Fresh(R2, r)'
                BY <2>3, <4>4, <4>5
            <4>7. /\ pc[q] \in {"g_len", "g_data"} => Fresh(Done, rfd - 1)'
                  /\ pc[q] = "g_fn" =>
                       Fresh(Done, rfd - (loc[q].n + 1))' /\ Fresh({loc[q].id}, rfd)'
                BY <1>2, <2>1, <4>1, <4>3, <4>5, <4>6 DEF Fresh
            <4> QED
                BY <2>1, <4>1, <4>2, <4>7 DEF Parsed
        <3> QED
            BY <3>1, <3>2
    <2>5. ASSUME \A q \in Procs : pc'[q] \notin Midway PROVE Settled'
        <3>1. \A q \in Procs : pc[q] \notin Midway
            BY <1>1, <2>5
        <3>2. Settled
            BY <2>2, <3>1
        <3>3. PICK R, r : R = Done /\ r = rfd
            OBVIOUS
        <3>4. Fresh(R, r)
            BY <3>2, <3>3 DEF Settled
        <3>5. Fresh(R, r)'
            BY <2>3, <3>4
        <3>6. Fresh(Done, rfd)'
            BY <1>2, <2>1, <3>3, <3>5 DEF Fresh
        <3> QED
            BY <2>1, <3>2, <3>6 DEF Settled
    <2> QED
        BY <1>9, <2>1, <2>2, <2>4, <2>5
<1> QED
    BY <1>5, <1>6, <1>7, <1>8, <1>9 DEF OrderInv

\* The same, when nothing is written.
LEMMA OrderShrinks ==
    ASSUME ControlOK, OrderInv, Shrunk, NEW p \in Procs, NEW l, Goto(p, l),
           pc[p] \notin Midway, l \notin Midway,
           UNCHANGED <<delivered, batchHeader>>,
           \A q \in Procs \ {p} : loc'[q] = loc[q],
           l \in {"n_reset", "n_open"} => curReadfile' = None,
           \A q \in Procs \ {p} : pc[q] \in {"n_reset", "n_open"} => curReadfile' = None,
           rfd' # None => /\ UNCHANGED <<rfd, curReadfile>>
                          /\ Content(curReadfile)' = Content(curReadfile)
                          /\ dataFiles # <<>> =>
                               dataFiles' # <<>> /\ Head(dataFiles') = Head(dataFiles)
    PROVE  OrderInv'
<1>1. WrittenInOrder' /\ \A R : Precede(R) => Precede(R)'
    BY WrittenShrinks, PrecedeShrinks DEF OrderInv
<1>2. \A a, b : Before(a, b) => Before(a, b)'
    BY SameBefore DEF Shrunk
<1> QED
    BY <1>1, <1>2, OrderFrame

-----------------------------------------------------------------------------
(* Steps *)

Ordering == Framing /\ OpenInv /\ OrderInv

\* A step that leaves the files, the list and the descriptor alone.
LEMMA OrderQuiet ==
    ASSUME Ordering, NEW p \in Procs, NEW l, Goto(p, l), pc[p] \notin Midway, l \notin Midway,
           UNCHANGED <<files, dataFiles, curReadfile, rfd, written, delivered, batchHeader>>,
           Truncated' = Truncated,
           \A q \in Procs \ {p} : loc'[q] = loc[q],
           l \in {"n_reset", "n_open"} => curReadfile = None
    PROVE  OrderInv'
<1>1. Listing' = Listing /\ \A f : Content(f)' = Content(f)
    BY DEF Listing, Content
<1>2. Shrunk
    BY <1>1 DEF Shrunk
<1>3. Content(curReadfile)' = Content(curReadfile)
    BY DEF Content
<1>4. \A q \in Procs \ {p} : pc[q] \in {"n_reset", "n_open"} => curReadfile' = None
    BY DEF Ordering, OrderInv
<1> QED
    BY <1>2, <1>3, <1>4, OrderShrinks DEF Ordering, Framing

\* The steps that only lock, unlock and decide, or move the position.
LEMMA QuietOrderSteps ==
    ASSUME Ordering, NEW p \in Procs,
           \/ PutLock(p) \/ PutSize(p) \/ RotateStart(p) \/ RotateLock(p) \/ CloseStart(p)
           \/ GetStart(p) \/ GetLock(p) \/ GetWake(p) \/ GetNoWake(p) \/ GetRetry(p)
           \/ GetPos(p) \/ GetDump(p)
    PROVE  OrderInv'
<1>1. UNCHANGED <<files, dataFiles, curReadfile, rfd, data, curBatchSize, written, delivered,
                  batchHeader, loc>>
    BY DEF PutLock, PutSize, RotateStart, RotateLock, CloseStart, GetStart, GetLock, GetWake,
       GetNoWake, GetRetry, GetPos, GetDump, Enter, disk, index, reader, writer, hist
<1>2. PICK l \in {"idle", "p_drop", "p_size", "p_hdr", "x_lock", "r_eof", "c_wait", "g_lock",
                  "g_wake", "g_open", "g_hdr", "g_dump"} : Goto(p, l)
    BY DEF PutLock, PutSize, RotateStart, RotateLock, CloseStart, GetStart, GetLock, GetWake,
       GetNoWake, GetRetry, GetPos, GetDump, Enter, Return
<1>3. pc[p] \notin Midway
    BY DEF PutLock, PutSize, RotateStart, RotateLock, CloseStart, GetStart, GetLock, GetWake,
       GetNoWake, GetRetry, GetPos, GetDump, Enter, Midway
<1>4. Truncated' = Truncated
    BY <1>1 DEF Truncated
<1> QED
    BY <1>1, <1>2, <1>3, <1>4, OrderQuiet DEF Midway

LEMMA StartOrderStep ==
    ASSUME Ordering, NEW p \in Procs, PutStart(p)
    PROVE  OrderInv'
<1>1. /\ UNCHANGED <<files, dataFiles, curReadfile, rfd, data, curBatchSize, written, delivered,
                     batchHeader>>
      /\ Goto(p, "p_lock") /\ pc[p] = "idle"
    BY DEF PutStart, Enter, disk, index, reader, writer, hist
<1>2. \E r : Set(p, r)
    BY DEF PutStart
<1>3. \A q \in Procs \ {p} : loc'[q] = loc[q]
    BY <1>2 DEF Set, Ordering, Framing, DataInv, LocalOK
<1>4. Truncated' = Truncated
    BY <1>1 DEF Truncated
<1> QED
    BY <1>1, <1>3, <1>4, OrderQuiet DEF Midway

\* The steps by which a reader begins to switch, and resets the position.
LEMMA SwitchOrderSteps ==
    ASSUME Ordering, NEW p \in Procs, GetOpen(p) \/ NextReset(p)
    PROVE  OrderInv'
<1>1. UNCHANGED <<files, dataFiles, curReadfile, rfd, data, curBatchSize, written, delivered,
                  batchHeader, loc>>
    BY DEF GetOpen, NextReset, disk, index, reader, writer, hist
<1>2. PICK l \in {"g_retry", "n_remove", "n_reset", "n_open"} :
          Goto(p, l) /\ (l \in {"n_reset", "n_open"} => curReadfile = None)
    <2>1. CASE GetOpen(p)
        BY <2>1 DEF GetOpen, Switch
    <2>2. CASE NextReset(p)
        BY <2>2 DEF NextReset, Ordering, OrderInv
    <2> QED
        BY <2>1, <2>2
<1>3. pc[p] \notin Midway
    BY DEF GetOpen, NextReset, Midway
<1>4. Truncated' = Truncated
    BY <1>1 DEF Truncated
<1> QED
    BY <1>1, <1>2, <1>3, <1>4, OrderQuiet DEF Midway

\* What is written behind the counted records is none of them yet.
LEMMA AppendOrderSteps ==
    ASSUME WholeWrites, Ordering, NEW p \in Procs, PutHeader(p) \/ RotateEOF(p)
    PROVE  OrderInv'
<1>1. data \in Seq(Cell) /\ curBatchSize = Len(data) /\ OpenedBatchSize = Len(data)
    BY BatchFound DEF PutHeader, RotateEOF, Writing, WritePCs, Ordering
<1>2. /\ UNCHANGED <<files, dataFiles, curReadfile, rfd, written, delivered, batchHeader, loc>>
      /\ pc[p] \in {"p_hdr", "r_eof"}
    BY DEF PutHeader, RotateEOF, index, reader, hist
<1>3. PICK l \in {"idle", "p_data", "r_ren"} : Goto(p, l)
    BY DEF PutHeader, RotateEOF, EnsureFails, Return
<1>4. curBatchSize' = Len(data) /\ (data' = data \/ \E x \in Cell : data' = Append(data, x))
    <2>1. Hdr(loc[p].id, loc[p].n) \in Cell /\ EOF \in Cell
        BY LocalType, CellFacts DEF Ordering, Framing, DataInv
    <2> QED
        BY <1>1, <2>1 DEF PutHeader, RotateEOF, WholeWrites, EnsureFails, WithEOF
<1>5. Truncated' = data
    <2>1. CASE data' = data
        <3>1. EOF \in Cell
            BY CellFacts
        <3> QED
            BY <1>1, <1>4, <2>1, <3>1, CutBack DEF Truncated
    <2>2. CASE \E x \in Cell : data' = Append(data, x)
        BY <1>1, <1>4, <2>2, CutBack DEF Truncated
    <2> QED
        BY <1>4, <2>1, <2>2
<1>6. Truncated = data
    <2>1. EOF \in Cell
        BY CellFacts
    <2> QED
        BY <1>1, <2>1, CutBack DEF Truncated
<1> QED
    BY <1>2, <1>3, <1>5, <1>6, OrderQuiet DEF Midway

\* dropBatch: the file goes from the list and the disk, and its descriptor is closed.
LEMMA DropOrderStep ==
    ASSUME Ordering, NEW p \in Procs, PutDrop(p)
    PROVE  OrderInv'
<1>1. /\ UNCHANGED <<data, curReadfile, curBatchSize, written, delivered, batchHeader, loc>>
      /\ pc[p] = "p_drop"
    BY DEF PutDrop, writer
<1>2. PICK l \in {"idle", "p_size"} : Goto(p, l)
    BY DEF PutDrop, Return
<1>3. Truncated' = Truncated
    BY <1>1 DEF Truncated
<1>4. CASE UNCHANGED <<files, dataFiles, rfd>>
    BY <1>1, <1>2, <1>3, <1>4, OrderQuiet DEF Midway
<1>5. CASE /\ dataFiles # <<>> /\ rfd' = IF curReadfile = Head(dataFiles) THEN None ELSE rfd
           /\ \/ UNCHANGED <<files, dataFiles>>
              \/ files' = RemoveFile(Head(dataFiles)) /\ dataFiles' = Tail(dataFiles)
    <2>1. rfd' = None
        BY <1>5 DEF Ordering, OrderInv
    <2>2. dataFiles \in Seq(Nat) /\ InOrder(dataFiles) /\ DiskOK
        BY DEF Ordering, Framing, DataInv, MemoryOK
    <2>3. \A f \in Listing' : f \in Listing
        <3>1. CASE dataFiles' = dataFiles
            BY <3>1 DEF Listing
        <3>2. CASE dataFiles' = Tail(dataFiles)
            BY <1>5, <2>2, <3>2, RangeTail DEF Listing
        <3> QED
            BY <1>5, <3>1, <3>2
    <2>4. \A f : Content(f)' = Content(f) \/ Content(f)' = <<>>
        <3>1. CASE files' = files
            BY <3>1 DEF Content
        <3>2. CASE files' = RemoveFile(Head(dataFiles))
            BY <2>2, <3>2, RemoveFileType DEF Content
        <3> QED
            BY <1>5, <3>1, <3>2
    <2>5. Shrunk
        BY <1>1, <1>3, <2>3, <2>4 DEF Shrunk
    <2>6. \A q \in Procs \ {p} : pc[q] \in {"n_reset", "n_open"} => curReadfile' = None
        BY <1>1 DEF Ordering, OrderInv
    <2> QED
        BY <1>1, <1>2, <2>1, <2>5, <2>6, OrderShrinks DEF Ordering, Framing, Midway
<1> QED
    BY <1>4, <1>5 DEF PutDrop, index

\* removeCurrentReadingFile: what was read goes, and nothing is being read.
LEMMA RemoveOrderStep ==
    ASSUME Ordering, NEW p \in Procs, NextRemove(p)
    PROVE  OrderInv'
<1>1. /\ UNCHANGED <<data, curBatchSize, written, delivered, batchHeader, loc>>
      /\ pc[p] = "n_remove" /\ rfd' = None
    BY DEF NextRemove, writer, hist
<1>2. Truncated' = Truncated
    BY <1>1 DEF Truncated
<1>3. dataFiles \in Seq(Nat) /\ InOrder(dataFiles) /\ DiskOK
    BY DEF Ordering, Framing, DataInv, MemoryOK
<1>4. CASE /\ files' = RemoveFile(curReadfile) /\ curReadfile' = None
           /\ dataFiles' = ListAfterRemove /\ Goto(p, "n_reset")
    <2>1. \A f \in Listing' : f \in Listing
        <3>1. CASE dataFiles = <<>>
            BY <1>4, <3>1 DEF ListAfterRemove, Listing
        <3>2. CASE dataFiles # <<>>
            BY <1>3, <1>4, <3>2, RangeTail DEF ListAfterRemove, Listing
        <3> QED
            BY <3>1, <3>2
    <2>2. PICK c : c = curReadfile
        OBVIOUS
    <2>3. DOMAIN files' = DOMAIN files \ {c} /\ \A g \in DOMAIN files' : files'[g] = files[g]
        BY <1>3, <1>4, <2>2, RemoveFileType
    <2>4. /\ \A f : Content(f)' = Content(f) \/ Content(f)' = <<>>
          /\ Content(c)' = <<>>
        BY <2>3 DEF Content
    <2>5. Shrunk
        BY <1>1, <1>2, <2>1, <2>2, <2>4 DEF Shrunk
    <2> QED
        BY <1>1, <1>4, <2>5, OrderShrinks DEF Ordering, Framing, Midway
<1>5. CASE UNCHANGED <<files, curReadfile, dataFiles>> /\ Goto(p, "idle")
    <2>1. Shrunk
        BY <1>1, <1>2, <1>5 DEF Shrunk, Listing, Content
    <2>2. \A q \in Procs \ {p} : pc[q] \in {"n_reset", "n_open"} => curReadfile' = None
        BY <1>5 DEF Ordering, OrderInv
    <2> QED
        BY <1>1, <1>5, <2>1, <2>2, OrderShrinks DEF Ordering, Framing, Midway
<1> QED
    BY <1>4, <1>5 DEF NextRemove, Return

\* Close: nothing is being read.
LEMMA CloseOrderStep ==
    ASSUME Ordering, NEW p \in Procs, CloseFinish(p)
    PROVE  OrderInv'
<1>1. /\ UNCHANGED <<files, dataFiles, curReadfile, data, curBatchSize, written, delivered,
                     batchHeader, loc>>
      /\ pc[p] = "c_wait" /\ Goto(p, "idle") /\ rfd' = None
    BY DEF CloseFinish, disk, index, hist
<1>2. Truncated' = Truncated
    BY <1>1 DEF Truncated
<1>3. Shrunk
    BY <1>1, <1>2 DEF Shrunk, Listing, Content
<1>4. \A q \in Procs \ {p} : pc[q] \in {"n_reset", "n_open"} => curReadfile' = None
    BY <1>1 DEF Ordering, OrderInv
<1> QED
    BY <1>1, <1>3, <1>4, OrderShrinks DEF Ordering, Framing, Midway

\* Put: the record comes after all that were written.
LEMMA DataOrderStep ==
    ASSUME WholeWrites, Ordering, NEW p \in Procs, PutData(p)
    PROVE  OrderInv'
<1>1. /\ UNCHANGED <<files, dataFiles, curReadfile, rfd, delivered, batchHeader, loc>>
      /\ pc[p] = "p_data"
    BY DEF PutData, index, reader
<1>2. PICK s \in Seq(Cell) : /\ curBatchSize = Len(s) /\ Truncated = s
                             /\ data = Append(s, Hdr(loc[p].id, loc[p].n))
    BY <1>1, BatchBetween DEF Ordering
<1>3. PICK n \in Nat, id \in Nat : n = loc[p].n /\ id = loc[p].id
    BY LocalType DEF Ordering, Framing, DataInv
<1>4. /\ data' = data \o Payload(id, n, n) /\ curBatchSize' = curBatchSize + n + 1
      /\ written' = Append(written, id)
    BY <1>3 DEF PutData, WholeWrites
<1>5. PICK l \in {"r_eof", "idle"} : Goto(p, l)
    BY DEF PutData, WholeWrites, AfterWrite, Return
<1> DEFINE t == Append(s, Hdr(id, n)) \o Payload(id, n, n)
<1>6. data' = t
    BY <1>2, <1>3, <1>4
<1>7. Extended(s, id, n, t)
    BY RecordCells
<1> HIDE DEF t
<1>8. t \in Seq(Cell) /\ Len(t) = Len(s) + 1 + n /\ Len(s) \in Nat
    <2>1. Len(s) \in Nat
        BY SMT
    <2> QED
        BY <1>7, <2>1 DEF Extended
<1>9. curBatchSize' = Len(t)
    BY SMT, <1>2, <1>4, <1>8
<1>10. Truncated' = t
    BY <1>6, <1>8, <1>9, CellFacts, CutBack DEF Truncated
<1>11. InBatch' = InBatch \cup {id}
    BY <1>2, <1>7, <1>10, RecordAdded DEF InBatch
<1>12. /\ \A a, b : Before(a, b) => Before(a, b)'
       /\ \A a \in Range(written) : Before(a, id)'
       /\ Range(written') = Range(written) \cup {id}
    BY <1>4, WrittenLast DEF Ordering, Framing, DataInv, LocalOK
<1>13. Listing' = Listing /\ \A f : Content(f)' = Content(f) /\ RecordsIn(f)' = RecordsIn(f)
    BY <1>1 DEF Listing, Content, RecordsIn
<1>14. WrittenInOrder
    BY DEF Ordering, OrderInv
<1>15. Ordered(Truncated)'
    <2>1. ASSUME NEW i \in 1..Len(t), NEW j \in 1..Len(t), i < j, t[i].t = "hdr", t[j].t = "hdr"
          PROVE  Before(t[i].id, t[j].id)'
        <3>1. /\ \A k \in 1..Len(s) : t[k] = s[k]
              /\ t[Len(s) + 1] = Hdr(id, n)
              /\ \A k \in Len(s) + 2..Len(s) + 1 + n : t[k] = Dat(id, n)
            BY <1>7 DEF Extended
        <3>2. \A k \in Len(s) + 2..Len(s) + 1 + n : t[k].t # "hdr"
            BY <3>1, DatTag
        <3>3. i \notin Len(s) + 2..Len(s) + 1 + n /\ j \notin Len(s) + 2..Len(s) + 1 + n
            BY <2>1, <3>2
        <3>4. i \in 1..Len(s) /\ (j \in 1..Len(s) \/ j = Len(s) + 1)
            BY SMT, <1>8, <2>1, <3>3
        <3>5. t[i] = s[i] /\ s[i].t = "hdr"
            BY <2>1, <3>1, <3>4
        <3>6. CASE j \in 1..Len(s)
            <4>1. t[j] = s[j] /\ s[j].t = "hdr"
                BY <2>1, <3>1, <3>6
            <4>2. Before(s[i].id, s[j].id)
                BY <1>2, <1>14, <2>1, <3>4, <3>5, <3>6, <4>1 DEF WrittenInOrder, Ordered
            <4> QED
                BY <1>12, <3>5, <4>1, <4>2
        <3>7. CASE j = Len(s) + 1
            <4>1. t[j].id = id
                <5>1. Hdr(id, n).id = id
                    BY DEF Hdr
                <5> QED
                    BY <3>1, <3>7, <5>1
            <4>2. s[i].id \in RecordsOf(s)
                BY <3>4, <3>5 DEF RecordsOf
            <4>3. s[i].id \in Range(written)
                BY <1>2, <1>14, <4>2 DEF WrittenInOrder, InBatch
            <4> QED
                BY <1>12, <3>5, <4>1, <4>3
        <3> QED
            BY <3>4, <3>6, <3>7
    <2> QED
        BY <1>10, <2>1 DEF Ordered
<1>16. ASSUME NEW R, R \subseteq Range(written), AllBefore(R, InBatch)
       PROVE  AllBefore(R, InBatch)'
    BY <1>11, <1>12, <1>16 DEF AllBefore
<1>17. ASSUME NEW R, NEW S, AllBefore(R, S) PROVE AllBefore(R, S)'
    BY <1>12, <1>17 DEF AllBefore
<1>18. WrittenInOrder'
    <2>1. ASSUME NEW f \in Listing
          PROVE  /\ RecordsIn(f)' \subseteq Range(written') /\ Ordered(Content(f))'
                 /\ AllBefore(RecordsIn(f), InBatch)'
        <3>1. /\ RecordsIn(f) \subseteq Range(written) /\ Ordered(Content(f))
              /\ AllBefore(RecordsIn(f), InBatch)
            BY <1>14 DEF WrittenInOrder
        <3>2. PICK R : R = RecordsIn(f)
            OBVIOUS
        <3>3. AllBefore(R, InBatch)'
            BY <1>16, <3>1, <3>2
        <3>4. AllBefore(RecordsIn(f), InBatch)'
            BY <1>13, <3>2, <3>3 DEF AllBefore
        <3> QED
            BY <1>12, <1>13, <3>1, <3>4 DEF Ordered
    <2>2. ASSUME NEW f \in Listing, NEW g \in Listing, f < g
          PROVE  AllBefore(RecordsIn(f), RecordsIn(g))'
        <3>1. AllBefore(RecordsIn(f), RecordsIn(g))
            BY <1>14, <2>2 DEF WrittenInOrder
        <3> QED
            BY <1>12, <1>13, <3>1 DEF AllBefore
    <2>3. InBatch' \subseteq Range(written')
        BY <1>11, <1>12, <1>14 DEF WrittenInOrder
    <2> QED
        BY <1>13, <1>15, <2>1, <2>2, <2>3 DEF WrittenInOrder
<1>19. ASSUME NEW R, Precede(R) PROVE Precede(R)'
    <2>1. ASSUME NEW f \in Listing \ {curReadfile} PROVE AllBefore(R, RecordsIn(f))'
        <3>1. AllBefore(R, RecordsIn(f))
            BY <1>19 DEF Precede
        <3> QED
            BY <1>12, <1>13, <3>1 DEF AllBefore
    <2>2. R \subseteq Range(written') /\ AllBefore(R, InBatch)'
        BY <1>12, <1>16, <1>19 DEF Precede
    <2> QED
        BY <1>1, <1>13, <2>1, <2>2 DEF Precede
<1>20. Content(curReadfile)' = Content(curReadfile)
    BY <1>1 DEF Content
<1>21. \A q \in Procs \ {p} : pc[q] \in {"n_reset", "n_open"} => curReadfile' = None
    BY <1>1 DEF Ordering, OrderInv
<1>22. ControlOK /\ OrderInv
    BY DEF Ordering, Framing
<1> QED
    BY <1>1, <1>5, <1>12, <1>18, <1>19, <1>20, <1>21, <1>22, OrderFrame DEF Midway

\* rotate, when the rename succeeds: the batch becomes the last file of the list.
LEMMA RenamedOrderStep ==
    ASSUME Ordering, NEW p \in Procs, RotateRename(p),
           files' = AddFile(NewFile, data), data' = <<>>, curBatchSize' = 0,
           dataFiles' = SortNames(Append(dataFiles, NewFile))
    PROVE  OrderInv'
<1>1. /\ UNCHANGED <<curReadfile, rfd, written, delivered, batchHeader, loc>>
      /\ pc[p] = "r_ren"
    BY DEF RotateRename, reader, hist
<1>2. PICK l \in {"idle", "g_open"} : Goto(p, l)
    BY DEF RotateRename, AfterRotate, Return
<1>3. PICK s \in Seq(Cell) : Truncated = s /\ data = Append(s, EOF)
    BY <1>1, BatchBetween DEF Ordering
<1>4. dataFiles \in Seq(Nat) /\ InOrder(dataFiles) /\ DiskOK
    BY DEF Ordering, Framing, DataInv, MemoryOK
<1>5. PICK m : m = NewFile
    OBVIOUS
<1>6. /\ m \in Nat /\ \A i \in 1..Len(dataFiles) : dataFiles[i] < m
      /\ dataFiles' = Append(dataFiles, m)
    BY <1>4, <1>5, RotatedInOrder
<1>7. Listing' = Listing \cup {m}
    BY <1>4, <1>6, RangeAppend DEF Listing
<1>8. \A f \in Listing : f \in Nat /\ f < m /\ f # m /\ ~(m < f)
    <2>1. \A i \in 1..Len(dataFiles) : dataFiles[i] \in Nat
        BY SMT, <1>4
    <2>2. DOMAIN dataFiles = 1..Len(dataFiles)
        BY SMT, <1>4
    <2>3. \A f \in Listing : f \in Nat /\ f < m
        BY <1>6, <2>1, <2>2 DEF Listing, Range
    <2>4. \A f \in Nat : f < m => f # m /\ ~(m < f)
        BY SMT, <1>6
    <2> QED
        BY <2>3, <2>4
<1>9. Content(m)' = data /\ \A f : f # m => Content(f)' = Content(f)
    BY <1>5 DEF AddFile, Content
<1>10. Truncated' = <<>>
    <2>1. SubSeq(<<>>, 1, 0) = <<>>
        BY SMT
    <2> QED
        BY <2>1 DEF Truncated
<1>11. InBatch' = {} /\ Ordered(Truncated)'
    <2>1. 1..Len(<<>>) = {}
        BY SMT
    <2> QED
        BY <1>10, <2>1, NoRecords DEF InBatch, Ordered
<1>12. RecordsIn(m)' = InBatch
    BY <1>3, <1>9, MarkerNoRecord DEF RecordsIn, InBatch
<1>13. \A f \in Listing : RecordsIn(f)' = RecordsIn(f) /\ Content(f)' = Content(f)
    BY <1>8, <1>9 DEF RecordsIn
<1>14. \A a, b : Before(a, b)' <=> Before(a, b)
    BY <1>1, SameBefore
<1>15. WrittenInOrder
    BY DEF Ordering, OrderInv
<1>16. WrittenInOrder'
    <2>1. ASSUME NEW f \in Listing
          PROVE  /\ RecordsIn(f)' \subseteq Range(written') /\ Ordered(Content(f))'
                 /\ AllBefore(RecordsIn(f), RecordsIn(m))'
        <3>1. /\ RecordsIn(f) \subseteq Range(written) /\ Ordered(Content(f))
              /\ AllBefore(RecordsIn(f), InBatch)
            BY <1>15 DEF WrittenInOrder
        <3>2. Ordered(Content(f))'
            BY <1>13, <1>14, <3>1 DEF Ordered
        <3>3. AllBefore(RecordsIn(f), RecordsIn(m))'
            BY <1>12, <1>13, <1>14, <3>1 DEF AllBefore
        <3> QED
            BY <1>1, <1>13, <3>1, <3>2, <3>3
    <2>2. RecordsIn(m)' \subseteq Range(written')
        BY <1>1, <1>12, <1>15 DEF WrittenInOrder
    <2>3. Ordered(Content(m))'
        <3>1. Ordered(data)
            BY <1>3, <1>15, MarkerOrdered DEF WrittenInOrder
        <3> QED
            BY <1>9, <1>14, <3>1 DEF Ordered
    <2>4. ASSUME NEW f \in Listing, NEW g \in Listing, f < g
          PROVE  AllBefore(RecordsIn(f), RecordsIn(g))'
        <3>1. AllBefore(RecordsIn(f), RecordsIn(g))
            BY <1>15, <2>4 DEF WrittenInOrder
        <3> QED
            BY <1>13, <1>14, <3>1 DEF AllBefore
    <2>5. ~(m < m)
        BY SMT, <1>6
    <2>6. \A f, g \in Listing' : f < g => AllBefore(RecordsIn(f), RecordsIn(g))'
        BY <1>7, <1>8, <2>1, <2>4, <2>5
    <2>7. \A f \in Listing' : AllBefore(RecordsIn(f), InBatch)'
        BY <1>11 DEF AllBefore
    <2>8. \A f \in Listing' : RecordsIn(f)' \subseteq Range(written') /\ Ordered(Content(f))'
        BY <1>7, <2>1, <2>2, <2>3
    <2>9. InBatch' \subseteq Range(written')
        BY <1>11
    <2> QED
        BY <1>11, <2>6, <2>7, <2>8, <2>9 DEF WrittenInOrder
<1>17. ASSUME NEW R, Precede(R) PROVE Precede(R)'
    <2>1. ASSUME NEW f \in Listing' \ {curReadfile'} PROVE AllBefore(R, RecordsIn(f))'
        <3>1. CASE f = m
            <4>1. AllBefore(R, InBatch)
                BY <1>17 DEF Precede
            <4> QED
                BY <1>12, <1>14, <3>1, <4>1 DEF AllBefore
        <3>2. CASE f # m
            <4>1. f \in Listing \ {curReadfile}
                BY <1>1, <1>7, <2>1, <3>2
            <4>2. AllBefore(R, RecordsIn(f))
                BY <1>17, <4>1 DEF Precede
            <4> QED
                BY <1>13, <1>14, <4>1, <4>2 DEF AllBefore
        <3> QED
            BY <3>1, <3>2
    <2>2. R \subseteq Range(written') /\ AllBefore(R, InBatch)'
        BY <1>1, <1>11, <1>17 DEF Precede, AllBefore
    <2> QED
        BY <2>1, <2>2 DEF Precede
<1>18. ASSUME rfd' # None
       PROVE  /\ Content(curReadfile)' = Content(curReadfile)
              /\ dataFiles # <<>> => dataFiles' # <<>> /\ Head(dataFiles') = Head(dataFiles)
    <2>1. dataFiles # <<>> /\ curReadfile = Head(dataFiles)
        BY <1>1, <1>18 DEF Ordering, OrderInv
    <2>2. curReadfile \in Listing
        BY <1>4, <2>1, HeadSmallest DEF Listing
    <2>3. Append(dataFiles, m) # <<>> /\ Head(Append(dataFiles, m)) = Head(dataFiles)
        <3>1. Head(Append(dataFiles, m)) = Head(dataFiles)
            BY SMT, <1>4, <1>6, <2>1
        <3>2. Append(dataFiles, m) # <<>>
            BY SMTT(30), <1>4, <1>6
        <3> QED
            BY <3>1, <3>2
    <2>4. PICK c : c = curReadfile /\ c = curReadfile'
        BY <1>1
    <2>5. Content(c)' = Content(c)
        BY <1>13, <2>2, <2>4
    <2> QED
        BY <1>6, <2>3, <2>4, <2>5 DEF Content
<1>19. \A q \in Procs \ {p} : pc[q] \in {"n_reset", "n_open"} => curReadfile' = None
    BY <1>1 DEF Ordering, OrderInv
<1>20. ControlOK /\ OrderInv
    BY DEF Ordering, Framing
<1> QED
    BY <1>1, <1>2, <1>14, <1>16, <1>17, <1>18, <1>19, <1>20, OrderFrame DEF Midway

\* rotate: otherwise the end marker is taken back, and the records stay.
LEMMA RenameOrderStep ==
    ASSUME Ordering, NEW p \in Procs, RotateRename(p)
    PROVE  OrderInv'
<1>1. CASE UNCHANGED <<files, index>> /\ data' = Truncated /\ curBatchSize' = Len(data')
    <2>1. /\ UNCHANGED <<dataFiles, curReadfile, rfd, written, delivered, batchHeader, loc>>
          /\ pc[p] = "r_ren"
        BY <1>1 DEF RotateRename, reader, hist, index
    <2>2. PICK l \in {"idle", "g_open"} : Goto(p, l)
        BY DEF RotateRename, AfterRotate, Return
    <2>3. PICK s \in Seq(Cell) : Truncated = s
        BY <2>1, BatchBetween DEF Ordering
    <2>4. Truncated' = Truncated
        BY <1>1, <2>3, CellFacts, CutBack DEF Truncated
    <2> QED
        BY <1>1, <2>1, <2>2, <2>4, OrderQuiet DEF Midway
<1>2. CASE /\ files' = AddFile(NewFile, data) /\ data' = <<>> /\ curBatchSize' = 0
           /\ dataFiles' = SortNames(Append(dataFiles, NewFile))
    BY <1>2, RenamedOrderStep
<1> QED
    BY <1>1, <1>2 DEF RotateRename

\* A step of the goroutine that has rlock.
LEMMA OrderReader ==
    ASSUME Ordering, NEW p \in Procs, pc[p] \in ReadPCs, NEW l, Goto(p, l),
           WrittenInOrder', InWriteOrder', Precede(Done)', InHand(p)',
           l \in {"n_reset", "n_open"} => curReadfile' = None,
           rfd' # None => /\ dataFiles' # <<>> /\ curReadfile' = Head(dataFiles')
                          /\ Parsed(p)' /\ (l \notin Midway => Settled')
    PROVE  OrderInv'
<1>1. \A q \in Procs : pc'[q] = IF q = p THEN l ELSE pc[q]
    BY DEF Ordering, Framing, ControlOK, Goto
<1>2. \A q \in Procs \ {p} : pc[q] \notin ReadPCs
    BY DEF Ordering, Framing, LockInv, Reading
<1>3. \A q \in Procs : InHand(q)' /\ (pc'[q] \in {"n_reset", "n_open"} => curReadfile' = None)
    BY <1>1, <1>2 DEF InHand, ReadPCs
<1>4. rfd' # None => \A q \in Procs : Parsed(q)'
    BY <1>1, <1>2 DEF Parsed, ReadPCs
<1>5. rfd' # None => ((\A q \in Procs : pc'[q] \notin Midway) => Settled')
    BY <1>1
<1> QED
    BY <1>3, <1>4, <1>5 DEF OrderInv

\* What it finds.
LEMMA OrderFound ==
    ASSUME Ordering, NEW p \in Procs, pc[p] \in ReadPCs, rfd # None
    PROVE  /\ dataFiles # <<>> /\ curReadfile = Head(dataFiles) /\ Parsed(p)
           /\ pc[p] \notin Midway => Settled
           /\ rfd \in Nat /\ curReadfile \in Listing
<1>1. \A q \in Procs \ {p} : pc[q] \notin ReadPCs
    BY DEF Ordering, Framing, LockInv, Reading
<1>2. pc[p] \notin Midway => \A q \in Procs : pc[q] \notin Midway
    BY <1>1 DEF Midway, ReadPCs
<1>3. /\ dataFiles # <<>> /\ curReadfile = Head(dataFiles) /\ Parsed(p)
      /\ pc[p] \notin Midway => Settled
    BY <1>2 DEF Ordering, OrderInv
<1>4. rfd \in Nat /\ dataFiles \in Seq(Nat) /\ InOrder(dataFiles)
    BY DEF Ordering, Framing, DataInv, MemoryOK
<1> QED
    BY <1>3, <1>4, HeadSmallest DEF Listing

\* What a step that writes nothing and keeps the file leaves as it was.
LEMMA OrderSame ==
    ASSUME Ordering, UNCHANGED <<files, dataFiles, curReadfile, data, curBatchSize, written>>
    PROVE  /\ WrittenInOrder' /\ Content(curReadfile)' = Content(curReadfile)
           /\ \A R : Precede(R) => Precede(R)'
           /\ \A R, off : Fresh(R, off) => Fresh(R, off)'
           /\ \A A, B : AllBefore(A, B) => AllBefore(A, B)'
<1>1. Truncated' = Truncated
    BY DEF Truncated
<1>2. Shrunk
    BY <1>1 DEF Shrunk, Listing, Content
<1>3. \A a, b : Before(a, b)' <=> Before(a, b)
    BY SameBefore
<1>4. Content(curReadfile)' = Content(curReadfile)
    BY DEF Content
<1>5. WrittenInOrder' /\ \A R : Precede(R) => Precede(R)'
    BY <1>2, WrittenShrinks, PrecedeShrinks DEF Ordering, OrderInv
<1>6. \A A, B : AllBefore(A, B) => AllBefore(A, B)'
    BY <1>3 DEF AllBefore
<1>7. \A R, off : Fresh(R, off) => Fresh(R, off)'
    BY <1>3, <1>4 DEF Fresh, AllBefore
<1> QED
    BY <1>4, <1>5, <1>6, <1>7

\* The same of what was delivered, when no callback accepts.
LEMMA DoneSame ==
    ASSUME Ordering, delivered' = delivered,
           UNCHANGED <<files, dataFiles, curReadfile, data, curBatchSize, written>>
    PROVE  /\ InWriteOrder' /\ Precede(Done)' /\ Done' = Done
           /\ \A off : Fresh(Done, off) => Fresh(Done, off)'
<1>1. Done' = Done
    BY DEF Done
<1>2. \A a, b : Before(a, b)' <=> Before(a, b)
    BY SameBefore
<1>3. InWriteOrder'
    <2>1. InWriteOrder
        BY DEF Ordering, OrderInv
    <2> QED
        BY <1>2, <2>1 DEF InWriteOrder
<1>4. PICK R : R = Done
    OBVIOUS
<1>5. Precede(R)' /\ \A off : Fresh(R, off) => Fresh(R, off)'
    BY <1>4, OrderSame DEF Ordering, OrderInv
<1>6. Precede(Done)'
    BY <1>1, <1>4, <1>5 DEF Precede
<1>7. \A off : Fresh(Done, off) => Fresh(Done, off)'
    BY <1>1, <1>4, <1>5 DEF Fresh
<1> QED
    BY <1>1, <1>3, <1>6, <1>7

\* What precedes the rest of a file precedes less of it.
LEMMA FreshLater ==
    ASSUME Framing, NEW R, NEW a \in Int, NEW b \in Int, a <= b, Fresh(R, a)
    PROVE  Fresh(R, b)
<1>1. RecordsAfter(Content(curReadfile), b) \subseteq RecordsAfter(Content(curReadfile), a)
    BY FileBeingRead, RecordsLater
<1> QED
    BY <1>1 DEF Fresh, AllBefore

\* Get: the header of a record that was not delivered.
LEMMA HeaderOrderStep ==
    ASSUME Ordering, NEW p \in Procs, GetHeader(p)
    PROVE  OrderInv'
<1>1. /\ pc[p] = "g_hdr" /\ pc[p] \in ReadPCs /\ pc[p] \notin Midway
      /\ UNCHANGED <<files, dataFiles, curReadfile, data, curBatchSize, written, delivered, loc>>
    BY DEF GetHeader, ReadPCs, Midway, disk, index, writer, hist
<1>2. pc \in [Procs -> PCs]
    BY DEF Ordering, Framing, ControlOK
<1>3. /\ WrittenInOrder' /\ Content(curReadfile)' = Content(curReadfile)
      /\ InWriteOrder' /\ Precede(Done)' /\ Done' = Done
      /\ \A off : Fresh(Done, off) => Fresh(Done, off)'
    BY <1>1, OrderSame, DoneSame
<1> DEFINE s == Content(curReadfile)
<1>4. s \in Seq(Cell)
    BY FileBeingRead DEF Ordering
<1>5. CASE rfd # None /\ rfd < Len(s)
    <2>1. batchHeader' = s[rfd + 1] /\ rfd' = rfd + 1 /\ Goto(p, "g_len")
        BY <1>5 DEF GetHeader
    <2>2. /\ dataFiles # <<>> /\ curReadfile = Head(dataFiles) /\ rfd \in Nat
          /\ Boundary(s, rfd) /\ Fresh(Done, rfd)
        BY <1>1, <1>5, OrderFound DEF Settled
    <2>3. s[rfd + 1].t # "dat"
        BY <1>5, <2>2 DEF Boundary
    <2>4. pc'[p] = "g_len"
        BY <1>2, <2>1 DEF Goto
    <2> HIDE DEF s
    <2>5. rfd' \in 1..Len(s) /\ rfd' - 1 = rfd
        <3>1. Len(s) \in Nat
            BY SMT, <1>4
        <3> QED
            BY SMT, <1>5, <2>1, <2>2, <3>1
    <2>6. PICK r : r = rfd /\ r = rfd' - 1
        BY <2>5
    <2>7. Fresh(Done, r)'
        BY <1>3, <2>2, <2>6
    <2>8. Fresh(Done, rfd - 1)'
        BY <2>6, <2>7 DEF Fresh
    <2>9. Content(curReadfile)' = s
        BY <1>3 DEF s
    <2>10. Parsed(p)'
        BY <2>1, <2>3, <2>4, <2>5, <2>8, <2>9 DEF Parsed
    <2>11. InHand(p)'
        BY <2>4 DEF InHand
    <2> QED
        BY <1>1, <1>3, <2>1, <2>2, <2>10, <2>11, OrderReader DEF Midway
<1>6. CASE ~(rfd # None /\ rfd < Len(s))
    <2>1. Switch(p) /\ rfd' = rfd
        BY <1>6 DEF GetHeader
    <2>2. PICK l : Goto(p, l) /\ l = IF curReadfile # None THEN "n_remove" ELSE "n_reset"
        BY <2>1 DEF Switch
    <2>3. pc'[p] = l
        BY <1>2, <2>2 DEF Goto
    <2>4. InHand(p)' /\ Parsed(p)'
        BY <2>2, <2>3 DEF InHand, Parsed
    <2>5. ASSUME rfd' # None
          PROVE  dataFiles' # <<>> /\ curReadfile' = Head(dataFiles') /\ Settled'
        <3>1. dataFiles # <<>> /\ curReadfile = Head(dataFiles) /\ Settled
            BY <1>1, <2>1, <2>5, OrderFound
        <3>2. PICK r : r = rfd
            OBVIOUS
        <3>3. Fresh(Done, r)'
            BY <1>3, <3>1, <3>2 DEF Settled
        <3>4. Fresh(Done, rfd)'
            BY <2>1, <3>2, <3>3 DEF Fresh
        <3> QED
            BY <1>1, <1>3, <2>1, <3>1, <3>4 DEF Settled
    <2>6. l \in {"n_reset", "n_open"} => curReadfile' = None
        BY <1>1, <2>2
    <2> QED
        BY <1>1, <1>3, <2>2, <2>4, <2>5, <2>6, OrderReader
<1> QED
    BY <1>5, <1>6

\* Get: the end marker ends the file; a record is read, or skipped whole.
LEMMA LengthOrderStep ==
    ASSUME Ordering, NEW p \in Procs, GetLength(p)
    PROVE  OrderInv'
<1>1. /\ pc[p] = "g_len" /\ pc[p] \in ReadPCs
      /\ UNCHANGED <<files, dataFiles, curReadfile, data, curBatchSize, written, delivered,
                     batchHeader>>
    BY DEF GetLength, ReadPCs, disk, index, writer
<1>2. pc \in [Procs -> PCs] /\ batchHeader \in Cell
    BY DEF Ordering, Framing, ControlOK, DataInv, MemoryOK
<1>3. /\ WrittenInOrder' /\ Content(curReadfile)' = Content(curReadfile)
      /\ InWriteOrder' /\ Precede(Done)' /\ Done' = Done
      /\ \A off : Fresh(Done, off) => Fresh(Done, off)'
    BY <1>1, OrderSame, DoneSame
<1> DEFINE s == Content(curReadfile)
<1>4. s \in Seq(Cell) /\ (s # <<>> => Framed(s))
    BY FileBeingRead DEF Ordering
<1>5. rfd # None =>
        /\ dataFiles # <<>> /\ curReadfile = Head(dataFiles) /\ rfd \in Nat
        /\ rfd \in 1..Len(s) /\ Fresh(Done, rfd - 1)
        /\ s[rfd] = batchHeader /\ batchHeader.t # "dat"
    BY <1>1, OrderFound DEF Parsed
<1>6. rfd # None => Framed(s) /\ rfd - 1 \in Int /\ rfd - 1 <= rfd /\ Len(s) \in Nat
    <2>1. rfd # None => s # <<>> /\ rfd - 1 \in Int /\ rfd - 1 <= rfd /\ Len(s) \in Nat
        <3> HIDE DEF s
        <3> QED
            BY SMT, <1>4, <1>5
    <2> QED
        BY <1>4, <2>1
\* Where the descriptor lies between records, that is all there is to show.
<1>7. ASSUME NEW l, Goto(p, l), l \notin Midway, l \in {"n_reset", "n_open"} => curReadfile = None,
             rfd' # None => rfd # None /\ rfd' \in Int /\ rfd <= rfd' /\ Boundary(s, rfd')
      PROVE  OrderInv'
    <2>1. pc'[p] = l
        BY <1>2, <1>7 DEF Goto
    <2>2. InHand(p)' /\ Parsed(p)'
        BY <1>7, <2>1 DEF InHand, Parsed, Midway
    <2>3. ASSUME rfd' # None
          PROVE  dataFiles' # <<>> /\ curReadfile' = Head(dataFiles') /\ Settled'
        <3>1. rfd # None /\ rfd' \in Int /\ rfd <= rfd' /\ Boundary(s, rfd')
            BY <1>7, <2>3
        <3>2. rfd - 1 \in Int /\ rfd - 1 <= rfd' /\ Fresh(Done, rfd - 1)
            <4>1. rfd \in Nat /\ Fresh(Done, rfd - 1)
                BY <1>5, <3>1
            <4>2. rfd - 1 \in Int /\ rfd - 1 <= rfd'
                BY SMT, <3>1, <4>1
            <4> QED
                BY <4>1, <4>2
        <3>3. PICK r \in Int : r = rfd'
            BY <3>1
        <3>4. Fresh(Done, r)
            BY <3>2, <3>3, FreshLater DEF Ordering
        <3>5. Fresh(Done, r)'
            BY <1>3, <3>4
        <3>6. Fresh(Done, rfd)'
            BY <3>3, <3>5 DEF Fresh
        <3> QED
            BY <1>1, <1>3, <1>5, <3>1, <3>6 DEF Settled
    <2> QED
        BY <1>1, <1>3, <1>7, <2>2, <2>3, OrderReader
<1>8. CASE batchHeader.t = "eof"
    <2>1. Switch(p) /\ rfd' = rfd
        BY <1>8 DEF GetLength
    <2>2. PICK l : Goto(p, l) /\ l = IF curReadfile # None THEN "n_remove" ELSE "n_reset"
        BY <2>1 DEF Switch
    <2>3. ASSUME rfd # None PROVE rfd \in Int /\ rfd <= rfd /\ Boundary(s, rfd)
        <3>1. rfd = Len(s)
            BY <1>5, <1>6, <1>8, <2>3 DEF Framed
        <3>2. rfd \in Int /\ rfd <= rfd /\ ~(rfd < rfd)
            BY SMT, <1>5, <2>3
        <3> QED
            BY <3>1, <3>2 DEF Boundary
    <2> QED
        BY <1>7, <2>1, <2>2, <2>3 DEF Midway
<1>9. ASSUME NEW n \in Lengths(batchHeader), batchHeader.t # "eof",
             Set(p, [n |-> n, id |-> 0, hdr |-> batchHeader]), Goto(p, "g_data"), rfd' = rfd
      PROVE  OrderInv'
    <2>1. loc'[p].n = n /\ loc'[p].hdr = batchHeader
        BY <1>9 DEF Set, Ordering, Framing, DataInv, LocalOK
    <2>2. pc'[p] = "g_data"
        BY <1>2, <1>9 DEF Goto
    <2>3. InHand(p)'
        BY <2>2 DEF InHand
    <2>4. ASSUME rfd' # None
          PROVE  dataFiles' # <<>> /\ curReadfile' = Head(dataFiles') /\ Parsed(p)'
        <3>1. rfd # None /\ n = batchHeader.n /\ batchHeader.t = "hdr"
            BY <1>2, <1>5, <1>9, <2>4 DEF Lengths, Cell
        <3>2. PICK r : r = rfd - 1
            OBVIOUS
        <3>3. Fresh(Done, r)'
            BY <1>3, <1>5, <3>1, <3>2
        <3>4. Fresh(Done, rfd - 1)'
            BY <1>9, <3>2, <3>3 DEF Fresh
        <3> QED
            BY <1>1, <1>3, <1>5, <1>9, <2>1, <2>2, <3>1, <3>4 DEF Parsed
    <2> QED
        BY <1>1, <1>3, <1>9, <2>3, <2>4, OrderReader DEF Midway
<1>10. ASSUME NEW n \in Lengths(batchHeader), batchHeader.t # "eof", Goto(p, "idle"),
              rfd' = IF rfd = None THEN None ELSE rfd + n
       PROVE  OrderInv'
    <2>1. ASSUME rfd' # None
          PROVE  rfd # None /\ rfd' \in Int /\ rfd <= rfd' /\ Boundary(s, rfd')
        <3>1. rfd # None /\ rfd' = rfd + n
            BY <1>10, <2>1
        <3>2. n = batchHeader.n /\ batchHeader.t = "hdr" /\ n \in Nat /\ rfd \in Nat
            BY <1>2, <1>5, <1>10, <3>1 DEF Lengths, Cell
        <3>3. s[rfd].t = "hdr" /\ s[rfd].n = n /\ rfd \in 1..Len(s)
            BY <1>5, <3>1, <3>2
        <3>4. Boundary(s, rfd + n)
            BY <1>4, <1>6, <3>1, <3>3, BoundaryAfter
        <3>5. rfd' \in Int /\ rfd <= rfd'
            BY SMT, <3>1, <3>2
        <3> QED
            BY <3>1, <3>4, <3>5
    <2> QED
        BY <1>7, <1>10, <2>1 DEF Midway
<1> QED
    BY <1>8, <1>9, <1>10 DEF GetLength, SkipTo, Return

\* The record whose header was read: what comes before it, and what after.
LEMMA RecordInHand ==
    ASSUME Ordering, dataFiles # <<>>, curReadfile = Head(dataFiles),
           NEW r \in 1..Len(Content(curReadfile)), Content(curReadfile)[r].t = "hdr",
           Fresh(Done, r - 1), NEW id, id = Content(curReadfile)[r].id,
           NEW b \in Int, r <= b
    PROVE  AllBefore(Done, {id}) /\ Precede({id}) /\ Fresh({id}, b)
<1> DEFINE s == Content(curReadfile)
<1>1. s \in Seq(Cell)
    BY FileBeingRead DEF Ordering
<1>2. dataFiles \in Seq(Nat) /\ InOrder(dataFiles)
    BY DEF Ordering, Framing, DataInv, MemoryOK
<1>3. /\ curReadfile \in Listing
      /\ \A f \in Listing \ {curReadfile} : curReadfile < f
    <2>1. curReadfile \in Listing /\ \A f \in Listing : curReadfile <= f
        BY <1>2, HeadSmallest DEF Listing
    <2>2. \A f \in Listing : f \in Nat
        BY SMT, <1>2 DEF Listing, Range
    <2>3. PICK c \in Nat : c = curReadfile
        BY <2>1, <2>2
    <2>4. \A f \in Nat : c <= f /\ f # c => c < f
        BY SMT
    <2> QED
        BY <2>1, <2>2, <2>3, <2>4
<1>4. WrittenInOrder
    BY DEF Ordering, OrderInv
<1>5. id \in RecordsIn(curReadfile)
    BY DEF RecordsIn, RecordsOf
<1>6. AllBefore(Done, {id})
    <2>1. r > r - 1
        BY SMT
    <2>2. id \in RecordsAfter(s, r - 1)
        BY <2>1 DEF RecordsAfter
    <2> QED
        BY <2>2 DEF Fresh, AllBefore
<1>7. Precede({id})
    <2>1. id \in Range(written)
        BY <1>3, <1>4, <1>5 DEF WrittenInOrder
    <2>2. AllBefore({id}, InBatch)
        BY <1>3, <1>4, <1>5 DEF WrittenInOrder, AllBefore
    <2>3. ASSUME NEW f \in Listing \ {curReadfile} PROVE AllBefore({id}, RecordsIn(f))
        <3>1. AllBefore(RecordsIn(curReadfile), RecordsIn(f))
            BY <1>3, <1>4 DEF WrittenInOrder
        <3> QED
            BY <1>5, <3>1 DEF AllBefore
    <2> QED
        BY <2>1, <2>2, <2>3 DEF Precede
<1>8. Fresh({id}, b)
    <2>1. ASSUME NEW x \in RecordsAfter(s, b) PROVE Before(id, x)
        <3>1. PICK k \in 1..Len(s) : k > b /\ s[k].t = "hdr" /\ x = s[k].id
            BY DEF RecordsAfter
        <3>2. r < k
            <4> HIDE DEF s
            <4>1. r \in Nat /\ k \in Nat
                BY SMT
            <4> QED
                BY SMT, <3>1, <4>1
        <3>3. Ordered(s)
            BY <1>3, <1>4 DEF WrittenInOrder
        <3> QED
            BY <3>1, <3>2, <3>3 DEF Ordered
    <2> QED
        BY <2>1 DEF Fresh, AllBefore
<1> QED
    BY <1>6, <1>7, <1>8

\* The data behind a header is the record of that header.
LEMMA RecordRead ==
    ASSUME NEW s \in Seq(Cell), Framed(s), NEW r \in 1..Len(s), s[r].t = "hdr"
    PROVE  Record(s[r], SubSeq(s, r + 1, r + s[r].n)) = s[r].id
<1>1. PICK n \in Nat : n = s[r].n
    BY CellNumber
<1>2. r + n <= Len(s) /\ \A j \in r + 1..r + n : s[j] = Dat(s[r].id, n)
    BY <1>1 DEF Framed
<1> DEFINE c == SubSeq(s, r + 1, r + n)
<1>3. Len(c) = n /\ \A j \in 1..n : c[j] = s[r + j] /\ r + j \in r + 1..r + n
    BY SMT, <1>2
<1>4. \A j \in 1..Len(c) : c[j] = Dat(s[r].id, Len(c))
    BY <1>2, <1>3
<1> HIDE DEF c
<1>5. Record(s[r], c) = s[r].id
    BY <1>4 DEF Record
<1> QED
    BY <1>1, <1>5 DEF c

\* Get: the data is that of the record, which is next in order.
LEMMA ReadOrderStep ==
    ASSUME Ordering, NEW p \in Procs, GetData(p)
    PROVE  OrderInv'
<1>1. /\ pc[p] = "g_data" /\ pc[p] \in ReadPCs
      /\ UNCHANGED <<files, dataFiles, curReadfile, data, curBatchSize, written, delivered>>
    BY DEF GetData, ReadPCs, disk, index, writer, hist
<1>2. pc \in [Procs -> PCs] /\ loc \in [Procs -> [n : Nat, id : Nat, hdr : Cell]]
    BY DEF Ordering, Framing, ControlOK, DataInv, LocalOK
<1>3. /\ WrittenInOrder' /\ Content(curReadfile)' = Content(curReadfile)
      /\ \A R : Precede(R) => Precede(R)'
      /\ \A R, off : Fresh(R, off) => Fresh(R, off)'
      /\ \A A, B : AllBefore(A, B) => AllBefore(A, B)'
    BY <1>1, OrderSame
<1>4. /\ InWriteOrder' /\ Precede(Done)' /\ Done' = Done
      /\ \A off : Fresh(Done, off) => Fresh(Done, off)'
    BY <1>1, DoneSame
<1> DEFINE s == Content(curReadfile)
           n == loc[p].n
<1>5. s \in Seq(Cell) /\ (s # <<>> => Framed(s))
    BY FileBeingRead DEF Ordering
<1>6. CASE rfd = None
    <2>1. rfd' = None /\ Goto(p, "idle")
        BY <1>6 DEF GetData, Return
    <2>2. pc'[p] = "idle"
        BY <1>2, <2>1 DEF Goto
    <2>3. InHand(p)'
        BY <2>2 DEF InHand
    <2> QED
        BY <1>1, <1>3, <1>4, <2>1, <2>3, OrderReader
<1>7. CASE rfd # None
    <2>1. /\ dataFiles # <<>> /\ curReadfile = Head(dataFiles) /\ rfd \in Nat
          /\ rfd \in 1..Len(s) /\ Fresh(Done, rfd - 1)
          /\ s[rfd] = loc[p].hdr /\ loc[p].hdr.t = "hdr" /\ n = loc[p].hdr.n
        BY <1>1, <1>7, OrderFound DEF Parsed
    <2>2. n \in Nat
        BY LocalType DEF Ordering, Framing, DataInv
    <2>3. (rfd # None /\ rfd + n <= Len(s)) =>
              /\ rfd' = rfd + n
              /\ Set(p, [loc[p] EXCEPT !.id = Record(loc[p].hdr, SubSeq(s, rfd + 1, rfd + n))])
              /\ Goto(p, "g_fn")
        BY DEF GetData
    <2> HIDE DEF s
    <2>4. s # <<>>
        BY SMT, <1>5, <2>1
    <2>5. /\ rfd + n <= Len(s) /\ Boundary(s, rfd + n)
          /\ Record(loc[p].hdr, SubSeq(s, rfd + 1, rfd + n)) = s[rfd].id
        BY <1>5, <2>1, <2>4, BoundaryAfter, RecordRead
    <2>6. PICK id : id = s[rfd].id
        OBVIOUS
    <2>7. rfd' = rfd + n /\ Set(p, [loc[p] EXCEPT !.id = id]) /\ Goto(p, "g_fn")
        BY <1>7, <2>3, <2>5, <2>6
    <2>8. loc'[p].n = n /\ loc'[p].id = id /\ pc'[p] = "g_fn"
        BY <1>2, <2>7 DEF Set, Goto
    <2> HIDE DEF n
    <2>9. /\ rfd' \in Int /\ rfd <= rfd' /\ rfd' >= n + 1 /\ rfd' - (n + 1) = rfd - 1
          /\ rfd - 1 + 1 = rfd
        BY SMT, <2>1, <2>2, <2>7
    <2>10. AllBefore(Done, {id}) /\ Precede({id}) /\ Fresh({id}, rfd')
        BY <2>1, <2>6, <2>9, RecordInHand DEF s
    <2>11. PICK R, D, e, o : R = {id} /\ D = Done /\ e = rfd' /\ o = rfd - 1
        OBVIOUS
    <2>12. AllBefore(D, R)' /\ Precede(R)' /\ Fresh(R, e)' /\ Fresh(D, o)'
        BY <1>3, <2>1, <2>10, <2>11
    <2>13. InHand(p)'
        <3>1. AllBefore(Done, {loc[p].id})'
            BY <1>4, <2>8, <2>11, <2>12 DEF AllBefore
        <3>2. Precede({loc[p].id})'
            BY <2>8, <2>11, <2>12 DEF Precede
        <3> QED
            BY <3>1, <3>2 DEF InHand
    <2>14. Fresh(Done, rfd - (loc[p].n + 1))' /\ Fresh({loc[p].id}, rfd)'
        BY <1>4, <2>8, <2>9, <2>11, <2>12 DEF Fresh
    <2>15. Boundary(s, rfd - 1)
        BY <2>1, <2>9 DEF Boundary
    <2>16. Content(curReadfile)' = s
        BY <1>3 DEF s
    <2>17. Parsed(p)'
        BY <2>5, <2>7, <2>8, <2>9, <2>14, <2>15, <2>16 DEF Parsed
    <2> QED
        BY <1>1, <1>3, <1>4, <2>1, <2>7, <2>13, <2>17, OrderReader DEF Midway
<1> QED
    BY <1>6, <1>7

\* Get: a callback that fails seeks back to the record, or skips it.
LEMMA RefusedOrderStep ==
    ASSUME Ordering, NEW p \in Procs, GetFn(p), delivered' = delivered
    PROVE  OrderInv'
<1>1. /\ pc[p] = "g_fn" /\ pc[p] \in ReadPCs
      /\ UNCHANGED <<files, dataFiles, curReadfile, data, curBatchSize, written, loc>>
    BY DEF GetFn, ReadPCs, disk, index, writer
<1>2. pc \in [Procs -> PCs]
    BY DEF Ordering, Framing, ControlOK
<1>3. /\ WrittenInOrder' /\ Content(curReadfile)' = Content(curReadfile)
      /\ InWriteOrder' /\ Precede(Done)' /\ Done' = Done
      /\ \A off : Fresh(Done, off) => Fresh(Done, off)'
    BY <1>1, OrderSame, DoneSame
<1> DEFINE s == Content(curReadfile)
           n == loc[p].n
<1>4. PICK l \in {"g_pos", "idle"} : Goto(p, l)
    BY DEF GetFn, Return
<1>5. rfd' = rfd \/ rfd' = IF rfd = None THEN None ELSE rfd - (n + 1)
    BY DEF GetFn, Fallback
<1>6. pc'[p] = l
    BY <1>2, <1>4 DEF Goto
<1>7. InHand(p)' /\ Parsed(p)'
    BY <1>4, <1>6 DEF InHand, Parsed
<1>8. ASSUME rfd' # None
      PROVE  dataFiles' # <<>> /\ curReadfile' = Head(dataFiles') /\ Settled'
    <2>1. rfd # None
        BY <1>5, <1>8
    <2>2. /\ dataFiles # <<>> /\ curReadfile = Head(dataFiles) /\ rfd \in Nat
          /\ Boundary(s, rfd) /\ Boundary(s, rfd - (n + 1)) /\ Fresh(Done, rfd - (n + 1))
        BY <1>1, <2>1, OrderFound DEF Parsed
    <2>3. n \in Nat
        BY LocalType DEF Ordering, Framing, DataInv
    <2> HIDE DEF n
    <2>4. rfd - (n + 1) \in Int /\ rfd - (n + 1) <= rfd /\ rfd \in Int
        BY SMT, <2>2, <2>3
    <2>5. Fresh(Done, rfd)
        BY <2>2, <2>4, FreshLater DEF Ordering
    <2>6. PICK r : r = rfd'
        OBVIOUS
    <2>7. Fresh(Done, r) /\ Boundary(s, r)
        BY <1>5, <2>1, <2>2, <2>5, <2>6
    <2>8. Fresh(Done, r)'
        BY <1>3, <2>7
    <2>9. Fresh(Done, rfd)'
        BY <2>6, <2>8 DEF Fresh
    <2> QED
        BY <1>1, <1>3, <2>2, <2>6, <2>7, <2>9 DEF Settled
<1> QED
    BY <1>1, <1>3, <1>4, <1>7, <1>8, OrderReader DEF Midway

\* Get: a callback that accepts has the record after all that were delivered.
LEMMA AcceptedOrderStep ==
    ASSUME Ordering, NEW p \in Procs, GetFn(p), delivered' = Append(delivered, loc[p].id),
           rfd' = rfd, Goto(p, "g_pos")
    PROVE  OrderInv'
<1>1. /\ pc[p] = "g_fn" /\ pc[p] \in ReadPCs
      /\ UNCHANGED <<files, dataFiles, curReadfile, data, curBatchSize, written, loc>>
    BY DEF GetFn, ReadPCs, disk, index, writer
<1>2. pc \in [Procs -> PCs] /\ delivered \in Seq(Nat)
    BY DEF Ordering, Framing, ControlOK, DataInv, LocalOK
<1>3. /\ WrittenInOrder' /\ Content(curReadfile)' = Content(curReadfile)
      /\ \A R : Precede(R) => Precede(R)'
      /\ \A R, off : Fresh(R, off) => Fresh(R, off)'
    BY <1>1, OrderSame
<1>4. PICK id \in Nat, n \in Nat : id = loc[p].id /\ n = loc[p].n
    BY LocalType DEF Ordering, Framing, DataInv
<1>5. AllBefore(Done, {id}) /\ Precede({id}) /\ Precede(Done)
    BY <1>1, <1>4 DEF Ordering, OrderInv, InHand
<1>6. Done' = Done \cup {id}
    BY <1>2, <1>4, RangeAppend DEF Done
<1>7. PICK D, R : D = Done /\ R = {id}
    OBVIOUS
<1>8. Precede(D)' /\ Precede(R)' /\ Done' = D \cup R
    BY <1>3, <1>5, <1>6, <1>7
<1>9. Precede(Done)'
    BY <1>8 DEF Precede, AllBefore
<1>10. InWriteOrder'
    <2>1. /\ Len(delivered') = Len(delivered) + 1 /\ Len(delivered) \in Nat
          /\ \A i \in 1..Len(delivered) : delivered'[i] = delivered[i]
          /\ delivered'[Len(delivered) + 1] = id
          /\ DOMAIN delivered = 1..Len(delivered)
        BY SMT, <1>2, <1>4
    <2>2. \A i, j \in 1..Len(delivered') : i < j =>
              i \in 1..Len(delivered) /\ (j \in 1..Len(delivered) \/ j = Len(delivered) + 1)
        BY SMT, <2>1
    <2>3. \A a, b : Before(a, b)' <=> Before(a, b)
        BY <1>1, SameBefore
    <2>4. InWriteOrder
        BY DEF Ordering, OrderInv
    <2>5. ASSUME NEW i \in 1..Len(delivered'), NEW j \in 1..Len(delivered'), i < j
          PROVE  Before(delivered'[i], delivered'[j])
        <3>1. i \in 1..Len(delivered) /\ (j \in 1..Len(delivered) \/ j = Len(delivered) + 1)
            BY <2>2, <2>5
        <3>2. CASE j \in 1..Len(delivered)
            BY <2>1, <2>4, <2>5, <3>1, <3>2 DEF InWriteOrder
        <3>3. CASE j = Len(delivered) + 1
            <4>1. delivered[i] \in Done
                BY <2>1, <3>1 DEF Done, Range
            <4> QED
                BY <1>5, <2>1, <3>1, <3>3, <4>1 DEF AllBefore
        <3> QED
            BY <3>1, <3>2, <3>3
    <2>6. PICK d : d = delivered'
        OBVIOUS
    <2>7. \A i, j \in 1..Len(d) : i < j => Before(d[i], d[j])'
        BY <2>3, <2>5, <2>6
    <2> QED
        BY <2>6, <2>7 DEF InWriteOrder
<1>11. pc'[p] = "g_pos"
    BY <1>2 DEF Goto
<1>12. InHand(p)' /\ Parsed(p)'
    BY <1>11 DEF InHand, Parsed
<1>13. ASSUME rfd' # None
       PROVE  dataFiles' # <<>> /\ curReadfile' = Head(dataFiles') /\ Settled'
    <2>1. /\ dataFiles # <<>> /\ curReadfile = Head(dataFiles) /\ rfd \in Nat
          /\ Boundary(Content(curReadfile), rfd)
          /\ Fresh(Done, rfd - (n + 1)) /\ Fresh({id}, rfd)
        BY <1>1, <1>4, <1>13, OrderFound DEF Parsed
    <2>2. rfd - (n + 1) \in Int /\ rfd - (n + 1) <= rfd /\ rfd \in Int
        BY SMT, <1>4, <2>1
    <2>3. Fresh(Done, rfd)
        BY <2>1, <2>2, FreshLater DEF Ordering
    <2>4. PICK r : r = rfd
        OBVIOUS
    <2>5. Fresh(D, r)' /\ Fresh(R, r)'
        BY <1>3, <1>7, <2>1, <2>3, <2>4
    <2>6. Fresh(Done, rfd)'
        BY <1>8, <2>4, <2>5 DEF Fresh, AllBefore
    <2> QED
        BY <1>1, <1>3, <2>1, <2>6 DEF Settled
<1> QED
    BY <1>1, <1>3, <1>9, <1>10, <1>12, <1>13, OrderReader DEF Midway

\* switchNextFile: nothing of the next file was delivered.
LEMMA OpenOrderStep ==
    ASSUME Ordering, NEW p \in Procs, NextOpen(p)
    PROVE  OrderInv'
<1>1. /\ pc[p] = "n_open" /\ pc[p] \in ReadPCs /\ curReadfile' = Head(dataFiles)
      /\ UNCHANGED <<files, dataFiles, data, curBatchSize, written, delivered>>
    BY DEF NextOpen, ReadPCs, index, writer, hist
<1>2. pc \in [Procs -> PCs] /\ dataFiles \in Seq(Nat) /\ InOrder(dataFiles) /\ dataFiles # <<>>
    BY <1>1 DEF Ordering, Framing, ControlOK, DataInv, MemoryOK, OpenInv
<1>3. curReadfile = None
    BY <1>1 DEF Ordering, OrderInv
<1>4. \A f \in Listing : f # None
    <2>1. \A f \in Listing : f \in Nat
        BY SMT, <1>2 DEF Listing, Range
    <2> QED
        BY <2>1, ConstantsAssumption
<1>5. Head(dataFiles) \in Listing
    BY <1>2, HeadSmallest DEF Listing
<1>6. Shrunk
    <2>1. Truncated' = Truncated /\ Listing' = Listing /\ \A f : Content(f)' = Content(f)
        BY <1>1 DEF Truncated, Listing, Content
    <2> QED
        BY <1>1, <1>3, <1>4, <2>1 DEF Shrunk
<1>7. \A a, b : Before(a, b)' <=> Before(a, b)
    BY <1>1, SameBefore
<1>8. WrittenInOrder' /\ \A R : Precede(R) => Precede(R)'
    BY <1>6, WrittenShrinks, PrecedeShrinks DEF Ordering, OrderInv
<1>9. Done' = Done /\ InWriteOrder' /\ Precede(Done)'
    <2>1. Done' = Done
        BY <1>1 DEF Done
    <2>2. InWriteOrder /\ Precede(Done)
        BY DEF Ordering, OrderInv
    <2>3. InWriteOrder'
        BY <1>1, <1>7, <2>2 DEF InWriteOrder
    <2>4. PICK D : D = Done
        OBVIOUS
    <2>5. Precede(D)'
        BY <1>8, <2>2, <2>4
    <2>6. Precede(Done)'
        BY <2>1, <2>4, <2>5 DEF Precede
    <2> QED
        BY <2>1, <2>3, <2>6
<1>10. PICK l \in {"g_retry", "idle"} : Goto(p, l)
    BY DEF NextOpen, Return
<1>11. pc'[p] = l
    BY <1>2, <1>10 DEF Goto
<1>12. InHand(p)' /\ Parsed(p)'
    BY <1>10, <1>11 DEF InHand, Parsed
<1>13. rfd = None
    BY <1>1, <1>3, <1>4, OrderFound
<1>14. ASSUME rfd' # None PROVE Settled'
    <2>1. PICK f : f = Head(dataFiles)
        OBVIOUS
    <2>2. f \in DOMAIN files /\ rfd' = 0 /\ curReadfile' = f
        BY <1>13, <1>14, <2>1 DEF NextOpen
    <2>3. files[f] \in Seq(Cell) /\ Framed(files[f])
        BY <2>2 DEF Ordering, Framing, DataInv, DiskOK, BatchInv, Complete
    <2>4. Content(curReadfile)' = files[f] /\ Content(f) = files[f]
        BY <1>1, <2>2 DEF Content
    <2>5. Boundary(files[f], 0)
        BY <2>3, BoundaryFirst
    <2>6. AllBefore(Done, RecordsOf(files[f]))
        <3>1. f \in Listing \ {curReadfile}
            BY <1>3, <1>4, <1>5, <2>1
        <3>2. AllBefore(Done, RecordsIn(f))
            BY <3>1 DEF Ordering, OrderInv, Precede
        <3> QED
            BY <2>4, <3>2 DEF RecordsIn
    <2>7. RecordsAfter(files[f], 0) \subseteq RecordsOf(files[f])
        <3>1. 0 \in Int /\ 0 <= 0
            BY SMT
        <3> QED
            BY <2>3, <3>1, RecordsLater
    <2>8. PICK s : s = files[f]
        OBVIOUS
    <2>9. \A a \in Done, b \in RecordsAfter(s, 0) : Before(a, b)'
        BY <1>7, <2>6, <2>7, <2>8 DEF AllBefore
    <2>10. Fresh(Done, rfd)'
        BY <1>9, <2>2, <2>4, <2>8, <2>9 DEF Fresh, AllBefore
    <2> QED
        BY <2>2, <2>4, <2>5, <2>10 DEF Settled
<1> QED
    BY <1>1, <1>2, <1>8, <1>9, <1>10, <1>12, <1>14, OrderReader

\* Every step of an instance keeps the order.
LEMMA OrderInvKept ==
    ASSUME WholeWrites, MaxRestarts = 0, Ordering, [Next]_vars
    PROVE  OrderInv'
<1>1. CASE UNCHANGED vars
    <2>1. UNCHANGED <<files, dataFiles, curReadfile, rfd, data, curBatchSize, written, delivered,
                      batchHeader, pc, loc>>
        BY <1>1 DEF vars, disk, index, reader, writer, hist
    <2>2. WrittenInOrder' /\ InWriteOrder' /\ Precede(Done)'
        BY <2>1, OrderSame, DoneSame
    <2>3. ASSUME NEW p \in Procs
          PROVE  /\ InHand(p)' /\ (pc'[p] \in {"n_reset", "n_open"} => curReadfile' = None)
                 /\ Parsed(p) => Parsed(p)'
        <3>1. InHand(p) /\ (pc[p] \in {"n_reset", "n_open"} => curReadfile = None)
            BY DEF Ordering, OrderInv
        <3>2. PICK D, R, o1, o2, r : /\ D = Done /\ R = {loc[p].id} /\ r = rfd
                                     /\ o1 = rfd - 1 /\ o2 = rfd - (loc[p].n + 1)
            OBVIOUS
        <3>3. /\ AllBefore(D, R) => AllBefore(D, R)'
              /\ Precede(R) => Precede(R)'
              /\ Fresh(D, o1) => Fresh(D, o1)'
              /\ Fresh(D, o2) => Fresh(D, o2)'
              /\ Fresh(R, r) => Fresh(R, r)'
              /\ Content(curReadfile)' = Content(curReadfile)
            BY <2>1, OrderSame
        <3>4. /\ D = Done' /\ R = {loc'[p].id} /\ r = rfd'
              /\ o1 = rfd' - 1 /\ o2 = rfd' - (loc'[p].n + 1)
            BY <2>1, <3>2 DEF Done
        <3>5. /\ AllBefore(Done, {loc[p].id}) => AllBefore(Done, {loc[p].id})'
              /\ Precede({loc[p].id}) => Precede({loc[p].id})'
            BY <3>2, <3>3, <3>4 DEF AllBefore, Precede
        <3>6. /\ Fresh(Done, rfd - 1) => Fresh(Done, rfd - 1)'
              /\ Fresh(Done, rfd - (loc[p].n + 1)) => Fresh(Done, rfd - (loc[p].n + 1))'
              /\ Fresh({loc[p].id}, rfd) => Fresh({loc[p].id}, rfd)'
            BY <3>2, <3>3, <3>4 DEF Fresh
        <3>7. InHand(p)'
            BY <2>1, <3>1, <3>5 DEF InHand
        <3>8. Parsed(p) => Parsed(p)'
            BY <2>1, <3>3, <3>6 DEF Parsed
        <3> QED
            BY <2>1, <3>1, <3>7, <3>8
    <2>4. Settled => Settled'
        <3>1. PICK r : r = rfd
            OBVIOUS
        <3>2. (Fresh(Done, r) => Fresh(Done, r)') /\ Content(curReadfile)' = Content(curReadfile)
            BY <2>1, OrderSame, DoneSame
        <3>3. Fresh(Done, rfd) => Fresh(Done, rfd)'
            BY <2>1, <3>1, <3>2 DEF Fresh
        <3> QED
            BY <2>1, <3>2, <3>3 DEF Settled
    <2>5. rfd' # None => /\ dataFiles' # <<>> /\ curReadfile' = Head(dataFiles')
                         /\ \A p \in Procs : Parsed(p)'
                         /\ (\A p \in Procs : pc'[p] \notin Midway) => Settled'
        BY <2>1, <2>3, <2>4 DEF Ordering, OrderInv
    <2> QED
        BY <2>2, <2>3, <2>5 DEF OrderInv
<1>2. ASSUME NEW p \in Procs, Step(p) PROVE OrderInv'
    <2>1. CASE StreamStart(p)
        BY <2>1 DEF WholeWrites, StreamStart, Enter
    <2>2. CASE StreamLock(p) \/ StreamHeader(p) \/ StreamWrite(p) \/ StreamCopy(p)
        BY <2>2 DEF Ordering, Framing, BatchInv, Putting, StreamLock, StreamHeader,
           StreamWrite, StreamCopy
    <2>3. CASE GetFn(p)
        BY <2>3, RefusedOrderStep, AcceptedOrderStep DEF GetFn
    <2>4. CASE \/ PutStart(p) \/ PutDrop(p) \/ PutHeader(p) \/ PutData(p) \/ RotateEOF(p)
               \/ RotateRename(p) \/ CloseFinish(p)
        BY <2>4, StartOrderStep, DropOrderStep, AppendOrderSteps, DataOrderStep,
           RenameOrderStep, CloseOrderStep
    <2>5. CASE \/ GetOpen(p) \/ NextRemove(p) \/ NextReset(p) \/ NextOpen(p) \/ GetHeader(p)
               \/ GetLength(p) \/ GetData(p)
        BY <2>5, SwitchOrderSteps, RemoveOrderStep, OpenOrderStep, HeaderOrderStep,
           LengthOrderStep, ReadOrderStep
    <2> QED
        BY <1>2, <2>1, <2>2, <2>3, <2>4, <2>5, QuietOrderSteps DEF Step
<1>3. ~Kill /\ ~Open
    <2>1. restarts \in Nat
        BY DEF Ordering, Framing, DataInv, LocalOK
    <2>2. ~(restarts < MaxRestarts)
        BY SMT, <2>1
    <2> QED
        BY <2>2 DEF Kill, Open
<1> QED
    BY <1>1, <1>2, <1>3 DEF Next

\* Within one life of the process, records arrive in the order in which they were
\* written and none arrives twice, whatever dropBatch, small buffers, failed callbacks,
\* failed renames and concurrent calls do in between.
THEOREM DeliveredInOrder == WholeWrites /\ MaxRestarts = 0 /\ Spec => []InWriteOrder
<1>1. Init => OrderInv
    <2> SUFFICES ASSUME Init PROVE OrderInv
        OBVIOUS
    <2>1. /\ dataFiles = <<>> /\ data = <<>> /\ curBatchSize = 0 /\ rfd = None
          /\ delivered = <<>> /\ \A p \in Procs : pc[p] = "idle"
        BY DEF Init
    <2>2. Range(<<>>) = {} /\ 1..Len(<<>>) = {} /\ SubSeq(<<>>, 1, 0) = <<>>
        <3>1. DOMAIN <<>> = {} /\ 1..Len(<<>>) = {} /\ SubSeq(<<>>, 1, 0) = <<>>
            BY SMT
        <3> QED
            BY <3>1 DEF Range
    <2>3. Listing = {} /\ Done = {} /\ Truncated = <<>> /\ InBatch = {} /\ Ordered(Truncated)
        BY <2>1, <2>2, NoRecords DEF Listing, Done, Truncated, InBatch
    <2>4. WrittenInOrder /\ Precede(Done)
        BY <2>3 DEF WrittenInOrder, Precede, AllBefore
    <2>5. InWriteOrder
        BY <2>1, <2>2 DEF InWriteOrder
    <2> QED
        BY <2>1, <2>4, <2>5 DEF OrderInv, InHand
<1>2. WholeWrites /\ MaxRestarts = 0 /\ Ordering /\ [Next]_vars =>
          (WholeWrites /\ MaxRestarts = 0 /\ OrderInv)'
    <2>1. WholeWrites /\ MaxRestarts = 0 => (WholeWrites /\ MaxRestarts = 0)'
        BY DEF WholeWrites
    <2> QED
        BY <2>1, OrderInvKept
<1>3. Ordering => InWriteOrder
    BY DEF Ordering, OrderInv
<1> QED
    BY <1>1, <1>2, <1>3, AlwaysFramed, Types, PTL DEF Spec, Ordering

=============================================================================
