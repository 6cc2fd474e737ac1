------------------------ MODULE DiskCacheInvariants ------------------------
(***************************************************************************)
(* The invariants of the disk cache that speak of goroutines, locks and    *)
(* files: those the proofs are about.                                      *)
(***************************************************************************)
EXTENDS DiskCache

-----------------------------------------------------------------------------
(* Where a goroutine is, and which locks it holds there *)

WritePCs == {"p_drop", "p_size", "p_hdr", "p_data", "s_hdr", "s_write", "s_copy",
             "r_eof", "r_ren"}
ReadPCs  == {"g_wake", "g_open", "g_retry", "g_hdr", "g_len", "g_data", "g_fn",
             "g_pos", "g_dump", "n_remove", "n_reset", "n_open"}
WaitPCs  == {"p_lock", "s_lock", "x_lock", "g_lock"}
PCs      == WritePCs \cup ReadPCs \cup WaitPCs \cup {"idle", "c_wait"}

Writing(p)  == pc[p] \in WritePCs
Reading(p)  == pc[p] \in ReadPCs \/ (p \in Readers /\ pc[p] \in {"r_eof", "r_ren"})
Indexing(p) == pc[p] \in {"r_ren", "n_open"}

DiskOK ==
    /\ DOMAIN files \subseteq Nat /\ IsFiniteSet(DOMAIN files)
    /\ \A f \in DOMAIN files : files[f] \in Seq(Cell)
    /\ data \in Seq(Cell)
    /\ posFile \in Position \cup {None}

MemoryOK ==
    /\ dataFiles \in Seq(Nat)
    /\ curReadfile \in Nat \cup {None} /\ rfd \in Nat \cup {None}
    /\ pos \in [name : Nat \cup {None}, seek : Int]
    /\ pos.name # None => pos.seek \in Nat
    /\ wfd \in BOOLEAN /\ curBatchSize \in Nat /\ batchHeader \in Cell

ControlOK ==
    /\ inst \in {"open", "closed", "killed"}
    /\ readers \subseteq Procs
    /\ closing \in Procs \cup {None} /\ wlock \in Procs \cup {None}
    /\ rlock \in Procs \cup {None} /\ rwlock \in Procs \cup {None}
    /\ pc \in [Procs -> PCs]

LocalOK ==
    /\ loc \in [Procs -> [n : Nat, id : Nat, hdr : Cell]]
    /\ nxt \in Nat /\ restarts \in Nat
    /\ written \in Seq(Nat) /\ delivered \in Seq(Nat) /\ dropped \subseteq Nat

\* The variables hold what their declarations say.  (size is a number wherever
\* SizeExact or SizeBounded holds.)
TypeOK == DiskOK /\ MemoryOK /\ ControlOK /\ LocalOK

-----------------------------------------------------------------------------
(* Goroutines *)

\* One goroutine at a time writes the write file, one reads, one changes the
\* list of files: rotate, called by Put and by Get, keeps all three promises.
Exclusion ==
    \A p, q \in Procs : p # q =>
        /\ ~(Writing(p) /\ Writing(q))
        /\ ~(Reading(p) /\ Reading(q))
        /\ ~(Indexing(p) /\ Indexing(q))

\* Close "waits for in-flight operations": no call runs on an instance that is
\* closed, and none holds a lock of it.
ClosedQuiet ==
    inst # "open" =>
        /\ \A p \in Procs : pc[p] = "idle"
        /\ {wlock, rlock, rwlock} = {None}

-----------------------------------------------------------------------------
(* The list of files *)

\* dataFiles names exactly the files on disk, in order, and the file being read
\* is the first of them: what removeCurrentReadingFile relies on when it drops
\* the head of the list for the file it removed.
Tidy ==
    inst = "open" =>
        /\ InOrder(dataFiles) /\ Range(dataFiles) = DOMAIN files
        /\ curReadfile # None => dataFiles # <<>> /\ curReadfile = Head(dataFiles)

\* README: "Always read from this file(the file with smallest number)".
ReadsSmallest ==
    inst = "open" /\ curReadfile # None => \A f \in DOMAIN files : curReadfile <= f

\* A rotated file is never written again: os.Rename in rotate replaces none.
NoOverwrite ==
    [][\A f \in DOMAIN files \cap DOMAIN files' : files'[f] = files[f]]_vars

\* The cells of the newest rotated file.
NewestLen == IF dataFiles = <<>> THEN 0 ELSE Len(Content(dataFiles[Len(dataFiles)]))

\* A cache that is full takes no Put: the capacity is exceeded by no more than
\* the newest batch, the one that was being written when the limit was reached.
SizeBounded == size <= Capacity + NewestLen

-----------------------------------------------------------------------------
(* The content of files *)

\* These cells are whole records, and an end marker only ends them.
Framed(s) ==
    /\ \A i \in 1..Len(s) : s[i].t = "hdr" =>
          /\ i + s[i].n <= Len(s)
          /\ \A j \in i + 1..i + s[i].n : s[j] = Dat(s[i].id, s[i].n)
    /\ \A i \in 1..Len(s) : s[i].t = "dat" =>
          \E h \in 1..i - 1 : s[h].t = "hdr" /\ h + s[h].n >= i
    /\ \A i \in 1..Len(s) : s[i].t = "eof" => i = Len(s)

\* No end marker is among these cells.
NoEOF(s) == \A i \in 1..Len(s) : s[i].t # "eof"

\* Every rotated file is whole records closed by the end marker, and a rotate
\* whose rename failed takes the marker back: no record is ever appended behind
\* one, where no Get would find it.
FilesComplete ==
    /\ \A f \in DOMAIN files : LET s == files[f] IN
         Framed(s) /\ s # <<>> /\ s[Len(s)] = EOF
    /\ (\A p \in Procs : pc[p] # "r_ren") => NoEOF(data)

\* A file with these cells can be read from this offset on: it lies between two
\* records.
Boundary(s, off) == off < Len(s) => s[off + 1].t # "dat"

\* The .pos that the next Open finds, if it names an existing file, points
\* between two records of it ("Recoverable last-read-position on restart").
PosOnBoundary ==
    inst # "open" /\ posFile # None /\ posFile.name \in DOMAIN files =>
        Boundary(files[posFile.name], posFile.seek)

-----------------------------------------------------------------------------
(* The order of records *)

\* Record a was written before record b.
Before(a, b) ==
    \E k, l \in 1..Len(written) : k < l /\ written[k] = a /\ written[l] = b

\* "Only consumption in FIFO order": records arrive in the order of writing and
\* none arrives twice, even when others are dropped in between.
InWriteOrder ==
    \A i, j \in 1..Len(delivered) : i < j => Before(delivered[i], delivered[j])

-----------------------------------------------------------------------------
(* Inductive invariants: what makes the properties above hold step by step *)

\* The lock variables agree with the program counters.
LockInv ==
    /\ \A p \in Procs :
         /\ wlock = p <=> Writing(p)
         /\ rlock = p <=> Reading(p)
         /\ rwlock = p <=> Indexing(p)
         /\ closing = p <=> pc[p] = "c_wait"
         /\ p \in readers <=> pc[p] \notin {"idle", "c_wait"}
         /\ pc[p] \in ReadPCs \cup {"g_lock"} => p \in Readers
         /\ pc[p] \in (WritePCs \ {"r_eof", "r_ren"}) \cup {"p_lock", "s_lock", "x_lock"}
               => p \in Writers
    /\ inst # "open" => readers = {} /\ closing = None

\* The read offset lies behind what the reader has read.
ReadInv ==
    \A p \in Procs : rfd # None =>
        /\ pc[p] \in {"g_len", "g_data"} => rfd >= 1
        /\ pc[p] = "g_fn" => rfd >= loc[p].n + 1

\* The write file holds at least what was counted, so that a failed rename cuts
\* it and never extends it; and a header that is not counted yet.
WriteInv ==
    /\ curBatchSize <= Len(data)
    /\ \A p \in Procs : pc[p] \in {"p_data", "s_copy"} => curBatchSize < Len(data)

\* The file that doSwitchNextFile is about to open is still listed.
OpenInv == \A p \in Procs : pc[p] = "n_open" => dataFiles # <<>>

\* The list names the files on disk, in order.
ListsDisk == InOrder(dataFiles) /\ Range(dataFiles) = DOMAIN files

\* The file being read is the first of the list.
ReadsHead == curReadfile # None => dataFiles # <<>> /\ curReadfile = Head(dataFiles)

\* A reader that switches removes the file it has, then has none; and no Put
\* drops a file.
SwitchOK ==
    \A p \in Procs :
        /\ pc[p] # "p_drop"
        /\ pc[p] = "n_remove" => curReadfile # None
        /\ pc[p] \in {"n_reset", "n_open"} => curReadfile = None

\* .pos and its copy in memory name the file being read, except while a reader
\* that removed it has not reset them yet.
PosNamed ==
    /\ NoPos => posFile = None /\ pos.name = None
    /\ (\A p \in Procs : pc[p] # "n_reset") =>
         /\ posFile # None => posFile.name = curReadfile
         /\ pos.name # None => pos.name = curReadfile

ListInv == ListsDisk /\ ReadsHead /\ SwitchOK /\ PosNamed

\* A batch is begun, and goes on, only while the rotated files leave room; what is
\* rotated is more than an end marker.
Begun == {"p_size", "p_hdr", "p_data", "s_hdr", "s_write", "s_copy"}
RoomInv ==
    /\ size \in Int /\ SizeBounded
    /\ data # <<>> \/ (\E p \in Procs : pc[p] \in Begun) => size <= Capacity
    /\ \A p \in Procs :
         /\ pc[p] # "x_lock"
         /\ pc[p] = "r_eof" => data # <<>>
         /\ pc[p] = "r_ren" => Len(data) > 1
    /\ \A f \in DOMAIN files : Len(files[f]) > 1

\* These cells are whole records, of lengths that were put, and no end marker.
Sized(s) == \A i \in 1..Len(s) : s[i].t = "hdr" => s[i].n \in Lens
Whole(s) == Framed(s) /\ NoEOF(s) /\ Sized(s)

\* What a rotated file is.
Complete(s) == Framed(s) /\ Sized(s) /\ s # <<>> /\ s[Len(s)] = EOF

\* The write file is the counted records s, and behind them what the goroutine
\* that has wlock wrote and has not counted: a header, or the end marker.
Batch(s) ==
    /\ Whole(s) /\ curBatchSize = Len(s)
    /\ \A p \in Procs :
         /\ pc[p] = "p_data" => data = Append(s, Hdr(loc[p].id, loc[p].n))
         /\ pc[p] = "r_ren" => data = Append(s, EOF)
    /\ (\A p \in Procs : pc[p] \notin {"p_data", "r_ren"}) => data = s

\* A goroutine inside Put carries a length that was put; nobody streams.
Putting(p) ==
    /\ pc[p] \notin {"s_lock", "s_hdr", "s_write", "s_copy"}
    /\ pc[p] \in {"p_lock", "p_drop", "p_size", "p_hdr", "p_data"} => loc[p].n \in Lens

BatchInv ==
    /\ \A f \in DOMAIN files : Complete(files[f])
    /\ Batch(SubSeq(data, 1, curBatchSize))
    /\ \A p \in Procs : Putting(p)

\* The descriptor has read k cells that the position does not count yet.
Ahead(k) == rfd # None /\ rfd >= k /\ pos.name # None /\ pos.seek = rfd - k

\* A reader between the header and the position of a record.
UnderWay == {"g_len", "g_data", "g_fn", "g_pos"}
ReadOK(p) ==
    LET s == Content(curReadfile)
    IN  /\ pc[p] \in {"g_len", "g_data"} => Ahead(1) /\ rfd <= Len(s)
        /\ pc[p] = "g_len" => s[rfd] = batchHeader /\ batchHeader.t # "dat"
        /\ pc[p] = "g_data" =>
             s[rfd] = loc[p].hdr /\ loc[p].hdr.t = "hdr" /\ loc[p].n = loc[p].hdr.n
        /\ pc[p] \in {"g_fn", "g_pos"} =>
             Ahead(loc[p].n + 1) /\ Boundary(s, rfd) /\ loc[p].n > 0

\* Descriptor, position and .pos lie between two records of the file being read,
\* and the position is where the next Get begins.
PosInv ==
    ~NoPos =>
        /\ rfd # None => curReadfile # None
        /\ posFile # None /\ posFile.name = curReadfile =>
             Boundary(Content(curReadfile), posFile.seek)
        /\ pos.name # None /\ pos.name = curReadfile =>
             Boundary(Content(curReadfile), pos.seek)
        /\ \A p \in Procs : ReadOK(p)
        /\ (\A p \in Procs : pc[p] \notin UnderWay \cup {"n_remove"}) /\ rfd # None =>
             Ahead(0) /\ Boundary(Content(curReadfile), rfd)

\* Each of these records was written before each of those.
AllBefore(A, B) == \A a \in A, b \in B : Before(a, b)

\* The records that begin behind an offset, of a listed file, of the counted
\* part of the write file; and those delivered.
RecordsAfter(s, off) == {s[j].id : j \in {k \in 1..Len(s) : k > off /\ s[k].t = "hdr"}}
RecordsIn(f) == RecordsOf(Content(f))
Listing      == Range(dataFiles)
InBatch      == RecordsOf(Truncated)
Done         == Range(delivered)

\* A file holds its records in the order of writing.
Ordered(s) ==
    \A i, j \in 1..Len(s) :
        i < j /\ s[i].t = "hdr" /\ s[j].t = "hdr" => Before(s[i].id, s[j].id)

\* So do the files, in the order of the list, and then the write file.
WrittenInOrder ==
    /\ \A f \in Listing : RecordsIn(f) \subseteq Range(written) /\ Ordered(Content(f))
    /\ InBatch \subseteq Range(written) /\ Ordered(Truncated)
    /\ \A f, g \in Listing : f < g => AllBefore(RecordsIn(f), RecordsIn(g))
    /\ \A f \in Listing : AllBefore(RecordsIn(f), InBatch)

\* These records were written before all that no reader has opened ...
Precede(R) ==
    /\ R \subseteq Range(written)
    /\ AllBefore(R, InBatch)
    /\ \A f \in Listing \ {curReadfile} : AllBefore(R, RecordsIn(f))

\* ... and before the file being read, from this offset on.
Fresh(R, off) == AllBefore(R, RecordsAfter(Content(curReadfile), off))

\* The descriptor is behind a header, which the reader has, or behind a record
\* that the callback has not accepted yet.
Midway == {"g_len", "g_data", "g_fn"}
Parsed(p) ==
    LET s == Content(curReadfile)
        m == loc[p]
    IN  /\ pc[p] \in {"g_len", "g_data"} => rfd \in 1..Len(s) /\ Fresh(Done, rfd - 1)
        /\ pc[p] = "g_len" => s[rfd] = batchHeader /\ batchHeader.t # "dat"
        /\ pc[p] = "g_data" => s[rfd] = m.hdr /\ m.hdr.t = "hdr" /\ m.n = m.hdr.n
        /\ pc[p] = "g_fn" =>
             /\ rfd >= m.n + 1 /\ Boundary(s, rfd) /\ Boundary(s, rfd - (m.n + 1))
             /\ Fresh(Done, rfd - (m.n + 1)) /\ Fresh({m.id}, rfd)

\* Otherwise it lies between two records, and the next one was not delivered.
Settled == Boundary(Content(curReadfile), rfd) /\ Fresh(Done, rfd)

\* What was delivered precedes the record in hand, and that one the rest.
InHand(p) == pc[p] = "g_fn" => AllBefore(Done, {loc[p].id}) /\ Precede({loc[p].id})

OrderInv ==
    /\ WrittenInOrder /\ InWriteOrder /\ Precede(Done)
    /\ \A p \in Procs : InHand(p) /\ (pc[p] \in {"n_reset", "n_open"} => curReadfile = None)
    /\ rfd # None =>
         /\ dataFiles # <<>> /\ curReadfile = Head(dataFiles)
         /\ \A p \in Procs : Parsed(p)
         /\ (\A p \in Procs : pc[p] \notin Midway) => Settled

=============================================================================
