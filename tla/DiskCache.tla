----------------------------- MODULE DiskCache -----------------------------
(***************************************************************************)
(* The disk cache of src/diskcache: a FIFO of records kept in numbered     *)
(* files.  Put, StreamPut and Rotate append to the write file `data' and   *)
(* rename it to data.<n+1>; Get consumes the file with the smallest number *)
(* and remembers how far it came in the file .pos; Close ends the          *)
(* instance, a kill ends the process, Open builds an instance from what    *)
(* the directory holds.                                                    *)
(*                                                                         *)
(* Every goroutine is a process with a program counter.  A step is what    *)
(* runs between two points where another goroutine, or a kill, can make a  *)
(* difference: a lock, a file operation, a read of a field that another    *)
(* goroutine may write.  The fields keep their names.                      *)
(*                                                                         *)
(* Bytes: the unit is a cell of dataHeaderLen bytes.  A record of n cells  *)
(* is one header cell and n data cells, the end marker (EOFHint) is one    *)
(* cell, and offsets and sizes count cells.  A data cell carries the       *)
(* record it belongs to, so that misframed reads are seen.                 *)
(***************************************************************************)
EXTENDS Integers, Sequences, FiniteSets, Functions

CONSTANTS
    Writers,      \* goroutines that call Put, StreamPut and Rotate
    Readers,      \* goroutines that call Get, BufGet and BufCallbackGet
    Closers,      \* goroutines that call Close
    None,         \* nil, or the empty string
    Calls,        \* the calls the clients make, of AllCalls
    Faults,       \* the file operations that may fail, of AllFaults
    KillAt,       \* where a goroutine may be when the process is killed
    Lens,         \* lengths of the data passed to Put
    BufLens,      \* lengths of the buffers passed to BufGet
    BatchSize, Capacity, MaxDataSize,   \* 0: no limit (the last two)
    DropOld,      \* FIFO drop; FALSE stands for noDrop and filoDrop
    NoPos, NoFallback,
    ForceDump,    \* pos.dumpCount = 0
    MaxCalls,     \* bound: calls of Put, StreamPut and Rotate
    MaxRestarts   \* bound: calls of Open after the first

VARIABLES
    files,        \* disk: number -> cells, the files data.<number>
    data,         \* disk: cells of the write file
    posFile,      \* disk: None (.pos missing or at most 8 bytes), or a position
    dataFiles, size,                    \* under rwlock (size is atomic)
    curReadfile,  \* number of the file being read, or None
    rfd,          \* offset of the open read descriptor, or None
    pos,          \* memory copy of .pos
    wfd,          \* is the write file open?
    curBatchSize,
    batchHeader,  \* 4-byte buffer, shared by StreamPut and Get
    inst,         \* "open", "closed" or "killed"
    readers,      \* lifecycleMu: who holds it for reading
    closing,      \* lifecycleMu: who called Lock
    wlock, rlock, rwlock,               \* holder, or None
    pc, loc,      \* program counters; local variables
    nxt,          \* number of the next call of Put, StreamPut or Rotate
    restarts,
    written,      \* history: records completely written, in order
    delivered,    \* history: what callbacks accepted, in order; 0 is garbage
    dropped       \* history: records the cache discarded and said so

disk  == <<files, data, posFile>>
index == <<dataFiles, size>>
reader == <<curReadfile, rfd, pos>>
writer == <<wfd, curBatchSize>>
locks == <<readers, closing, wlock, rlock, rwlock>>
count == <<nxt, restarts>>
hist  == <<written, delivered, dropped>>
vars  == <<disk, index, reader, writer, batchHeader, inst, locks, pc, loc,
           count, hist>>

AllCalls  == {"Put", "StreamPut", "Rotate", "Get", "Close", "Kill"}
AllFaults == {"write", "rename", "open", "remove", "stream", "fn"}
Procs     == Writers \cup Readers \cup Closers

ASSUME ConstantsAssumption ==
    /\ None \notin Procs /\ None \notin Nat
    /\ Calls \subseteq AllCalls /\ Faults \subseteq AllFaults
    /\ Lens \subseteq Nat /\ BufLens \subseteq Nat
    /\ BatchSize \in Nat \ {0} /\ Capacity \in Nat /\ MaxDataSize \in Nat
    /\ DropOld \in BOOLEAN /\ NoPos \in BOOLEAN /\ NoFallback \in BOOLEAN
    /\ ForceDump \in BOOLEAN
    /\ MaxCalls \in Nat /\ MaxRestarts \in Nat

ASSUME RolesAssumption ==
    /\ Writers \cap Readers = {}
    /\ (Writers \cup Readers) \cap Closers = {}

-----------------------------------------------------------------------------
(* Cells and files *)

Hdr(i, n) == [t |-> "hdr", n |-> n, id |-> i]
Dat(i, n) == [t |-> "dat", n |-> n, id |-> i]
EOF       == [t |-> "eof", n |-> 0, id |-> 0]
Cell      == [t : {"hdr", "dat", "eof"}, n : Nat, id : Nat]

\* The first k data cells of record i, which has n of them.
Payload(i, n, k) == [j \in 1..k |-> Dat(i, n)]

\* What a header read at this cell can say: a data cell is read as any number.
Lengths(cell) == IF cell.t = "dat" THEN {0} \cup Lens ELSE {cell.n}

\* The record these cells are the whole data of, or 0.
Record(hdr, cells) ==
    IF /\ hdr.t = "hdr"
       /\ \A j \in 1..Len(cells) : cells[j] = Dat(hdr.id, Len(cells))
    THEN hdr.id ELSE 0

Position == [name : Nat, seek : Nat]

AddFile(f, s)  == [x \in DOMAIN files \cup {f} |-> IF x = f THEN s ELSE files[x]]
RemoveFile(f)  == Restrict(files, DOMAIN files \ {f})
Content(f)     == IF f \in DOMAIN files THEN files[f] ELSE <<>>
RecordsOf(s)   == {s[j].id : j \in {k \in 1..Len(s) : s[k].t = "hdr"}}

InOrder(s) == \A i, j \in 1..Len(s) : i < j => s[i] < s[j]

\* A directory listing in the order of sort.Strings (names have fixed width).
Sorted(S) == {s \in [1..Cardinality(S) -> S] : InOrder(s) /\ Range(s) = S}

\* Mutant: the newest name comes first.
SortNamesNewestFirst(s) == <<s[Len(s)]>> \o SubSeq(s, 1, Len(s) - 1)

\* sort.Strings on the list of names, which never holds a name twice.
SortNames(s) ==
    IF InOrder(s) THEN s ELSE CHOOSE r \in Sorted(Range(s)) : TRUE

-----------------------------------------------------------------------------
(* Control *)

Goto(p, l) == pc' = [pc EXCEPT ![p] = l]
Set(p, r)  == loc' = [loc EXCEPT ![p] = r]

Free(lock, p) == IF lock = p THEN None ELSE lock

\* The deferred unlocks of a call that returns.
Return(p) ==
    /\ Goto(p, "idle")
    /\ readers' = readers \ {p}
    /\ wlock' = Free(wlock, p)
    /\ rlock' = Free(rlock, p)
    /\ rwlock' = Free(rwlock, p)
    /\ UNCHANGED closing

\* lifecycleMu.RLock and the test of closed.  A waiting Lock keeps new readers
\* out.  (On a closed instance every call returns ErrClosed: a stutter.)
Enter(p, call, l) ==
    /\ call \in Calls /\ pc[p] = "idle"
    /\ inst = "open" /\ closing = None
    /\ readers' = readers \cup {p}
    /\ Goto(p, l)
    /\ UNCHANGED <<closing, wlock, rlock, rwlock, disk, index, reader, writer,
                   batchHeader, inst, hist>>

Local0 == [n |-> 0, id |-> 0, hdr |-> EOF]

-----------------------------------------------------------------------------
(* Put *)

\* Mutant: only the new data is compared with the capacity.
IsFullIgnoringSize(n) == Capacity > 0 /\ n > Capacity

IsFull(n) == Capacity > 0 /\ size + n > Capacity

\* ensureWriteFile and openWriteFile: the batch size an opened file gives.
OpenedBatchSize == IF wfd THEN curBatchSize ELSE Len(data)

\* The write file was closed and cannot be opened: the call returns.
EnsureFails(p) ==
    /\ ~wfd /\ "open" \in Faults
    /\ curBatchSize' = Len(data)
    /\ Return(p)
    /\ UNCHANGED <<wfd, data>>

PutStart(p) ==
    /\ p \in Writers /\ nxt <= MaxCalls
    /\ Enter(p, "Put", "p_lock")
    /\ \E n \in Lens : Set(p, [n |-> n, id |-> nxt, hdr |-> EOF])
    /\ nxt' = nxt + 1 /\ UNCHANGED restarts

\* wlock.Lock, then the capacity check and, without drop, the size check.
PutLock(p) ==
    /\ pc[p] = "p_lock" /\ wlock = None
    /\ \/ /\ IsFull(loc[p].n) /\ ~DropOld           \* ErrCacheFull
          /\ Return(p)
       \/ /\ IsFull(loc[p].n) /\ DropOld
          /\ wlock' = p /\ Goto(p, "p_drop")
          /\ UNCHANGED <<readers, closing, rlock, rwlock>>
       \/ /\ ~IsFull(loc[p].n)
          /\ wlock' = p /\ Goto(p, "p_size")
          /\ UNCHANGED <<readers, closing, rlock, rwlock>>
    /\ UNCHANGED <<disk, index, reader, writer, batchHeader, inst, loc, count,
                   hist>>

\* dropBatch: the first file of the list goes, read or not.
PutDrop(p) ==
    /\ pc[p] = "p_drop" /\ rwlock = None
    /\ \/ /\ dataFiles = <<>>
          /\ Goto(p, "p_size")
          /\ UNCHANGED <<files, index, rfd, dropped, locks>>
       \/ /\ dataFiles # <<>>
          /\ LET f == Head(dataFiles) IN
             /\ rfd' = IF curReadfile = f THEN None ELSE rfd
             /\ \/ /\ f \in DOMAIN files
                   /\ files' = RemoveFile(f)
                   /\ size' = size - Len(files[f])
                   /\ dataFiles' = Tail(dataFiles)
                   /\ dropped' = dropped \cup RecordsOf(files[f])
                   /\ Goto(p, "p_size")
                   /\ UNCHANGED locks
                \/ /\ f \notin DOMAIN files \/ "remove" \in Faults
                   /\ Return(p)
                   /\ UNCHANGED <<files, index, dropped>>
    /\ UNCHANGED <<data, posFile, curReadfile, pos, writer, batchHeader, inst,
                   loc, count, written, delivered>>

\* The check against maxDataSize comes after the drop.
PutSize(p) ==
    /\ pc[p] = "p_size"
    /\ IF MaxDataSize > 0 /\ loc[p].n > MaxDataSize   \* ErrTooLargeData
       THEN Return(p)
       ELSE Goto(p, "p_hdr") /\ UNCHANGED locks
    /\ UNCHANGED <<disk, index, reader, writer, batchHeader, inst, loc, count,
                   hist>>

PutHeader(p) ==
    /\ pc[p] = "p_hdr"
    /\ \/ /\ wfd' = TRUE /\ curBatchSize' = OpenedBatchSize
          /\ \/ /\ data' = Append(data, Hdr(loc[p].id, loc[p].n))
                /\ Goto(p, "p_data")
                /\ UNCHANGED locks
             \/ /\ "write" \in Faults
                /\ Return(p)
                /\ UNCHANGED data
       \/ EnsureFails(p)
    /\ UNCHANGED <<files, posFile, index, reader, batchHeader, inst, loc, count,
                   hist>>

\* The batch is rotated when it reached the batch size.
AfterWrite(p) ==
    IF curBatchSize' >= BatchSize
    THEN Goto(p, "r_eof") /\ UNCHANGED locks
    ELSE Return(p)

\* Data, Sync, accounting.  A write that fails may have written a part, a Sync
\* that fails leaves all of it; neither is counted nor undone.
PutData(p) ==
    /\ pc[p] = "p_data"
    /\ LET m == loc[p] IN
       \/ /\ data' = data \o Payload(m.id, m.n, m.n)
          /\ curBatchSize' = curBatchSize + m.n + 1
          /\ written' = Append(written, m.id)
          /\ AfterWrite(p)
       \/ /\ "write" \in Faults
          /\ \E k \in 0..m.n : data' = data \o Payload(m.id, m.n, k)
          /\ Return(p)
          /\ UNCHANGED <<curBatchSize, written>>
    /\ UNCHANGED <<files, posFile, index, reader, wfd, batchHeader, inst, loc,
                   count, delivered, dropped>>

-----------------------------------------------------------------------------
(* StreamPut *)

StreamStart(p) ==
    /\ p \in Writers /\ nxt <= MaxCalls
    /\ Enter(p, "StreamPut", "s_lock")
    /\ \E n \in Lens \ {0} : Set(p, [n |-> n, id |-> nxt, hdr |-> EOF])
    /\ nxt' = nxt + 1 /\ UNCHANGED restarts

\* wlock.Lock, the checks, ensureWriteFile; StreamPut never drops.
StreamLock(p) ==
    /\ pc[p] = "s_lock" /\ wlock = None
    /\ IF IsFull(loc[p].n) \/ (MaxDataSize > 0 /\ loc[p].n > MaxDataSize)
       THEN Return(p) /\ UNCHANGED <<writer, data>>
       ELSE \/ /\ wlock' = p /\ Goto(p, "s_hdr")
               /\ wfd' = TRUE /\ curBatchSize' = OpenedBatchSize
               /\ UNCHANGED <<readers, closing, rlock, rwlock, data>>
            \/ EnsureFails(p)
    /\ UNCHANGED <<files, posFile, index, reader, batchHeader, inst, loc, count,
                   hist>>

\* The header is built in c.batchHeader, which Get uses as well ...
StreamHeader(p) ==
    /\ pc[p] = "s_hdr"
    /\ batchHeader' = Hdr(loc[p].id, loc[p].n)
    /\ Goto(p, "s_write")
    /\ UNCHANGED <<disk, index, reader, writer, inst, locks, loc, count, hist>>

\* ... and written from there.
StreamWrite(p) ==
    /\ pc[p] = "s_write"
    /\ \/ /\ data' = Append(data, batchHeader)
          /\ Goto(p, "s_copy")
          /\ UNCHANGED locks
       \/ /\ "write" \in Faults
          /\ Return(p)
          /\ UNCHANGED data
    /\ UNCHANGED <<files, posFile, index, reader, writer, batchHeader, inst, loc,
                   count, hist>>

\* io.CopyN: a stream that ends early counts as success, a read error returns.
\* The deferred Seek moves nothing: the file is open for appending.
StreamCopy(p) ==
    /\ pc[p] = "s_copy"
    /\ LET m == loc[p] IN
       \E k \in (IF "stream" \in Faults THEN 0..m.n ELSE {m.n}) :
          /\ data' = data \o Payload(m.id, m.n, k)
          /\ \/ /\ curBatchSize' = curBatchSize + k + 1
                /\ written' = IF k = m.n THEN Append(written, m.id) ELSE written
                /\ AfterWrite(p)
             \/ /\ k < m.n
                /\ Return(p)
                /\ UNCHANGED <<curBatchSize, written>>
    /\ UNCHANGED <<files, posFile, index, reader, wfd, batchHeader, inst, loc,
                   count, delivered, dropped>>

-----------------------------------------------------------------------------
(* Rotate *)

RotateStart(p) ==
    /\ p \in Writers /\ nxt <= MaxCalls
    /\ Enter(p, "Rotate", "x_lock")
    /\ nxt' = nxt + 1 /\ UNCHANGED <<loc, restarts>>

RotateLock(p) ==
    /\ pc[p] = "x_lock" /\ wlock = None
    /\ wlock' = p /\ Goto(p, "r_eof")
    /\ UNCHANGED <<readers, closing, rlock, rwlock, disk, index, reader, writer,
                   batchHeader, inst, loc, count, hist>>

WithEOF == Append(data, EOF)

\* rotate, first part: ensureWriteFile, append the end marker.
RotateEOF(p) ==
    /\ pc[p] = "r_eof" /\ rwlock = None
    /\ \/ /\ wfd' = TRUE /\ curBatchSize' = OpenedBatchSize
          /\ \/ /\ data' = WithEOF
                /\ rwlock' = p /\ Goto(p, "r_ren")
                /\ UNCHANGED <<readers, closing, wlock, rlock>>
             \/ /\ "write" \in Faults
                /\ Return(p)
                /\ UNCHANGED data
       \/ EnsureFails(p)
    /\ UNCHANGED <<files, posFile, index, reader, batchHeader, inst, loc, count,
                   hist>>

\* Mutant: the number is not raised.
NewFileLast == IF dataFiles = <<>> THEN 0 ELSE dataFiles[Len(dataFiles)]

\* The name of the next rotated file: the last of the list plus one.
NewFile == IF dataFiles = <<>> THEN 0 ELSE dataFiles[Len(dataFiles)] + 1

\* Mutant: rotate does not unlock rwlock, which the same Get needs again.
AfterRotateKeepingLock(p) ==
    IF p \in Readers
    THEN /\ Goto(p, "g_open")
         /\ wlock' = None
         /\ UNCHANGED <<readers, closing, rlock, rwlock>>
    ELSE Return(p)

\* A rotate that is done: Put, StreamPut and Rotate return, Get gives wlock
\* back and goes on.
AfterRotate(p) ==
    IF p \in Readers
    THEN /\ Goto(p, "g_open")
         /\ wlock' = None /\ rwlock' = None
         /\ UNCHANGED <<readers, closing, rlock>>
    ELSE Return(p)

\* Mutant: the end marker is not counted.
CountedWithoutEOF(n) == IF n > 1 THEN n - 1 ELSE 0

\* What a file of n cells adds to size when it is rotated, and takes away when
\* it was read: nothing if it holds the end marker only.
Counted(n) == IF n > 1 THEN n ELSE 0

\* Mutant: the end marker stays.
NotTruncated == data

\* os.Truncate after a failed rename: back to the size before the end marker.
Truncated == SubSeq(data, 1, curBatchSize)

\* rotate, second part: close, rename, account, sort, reopen.
RotateRename(p) ==
    /\ pc[p] = "r_ren"
    /\ \/ /\ files' = AddFile(NewFile, data)
          /\ size' = size + Counted(Len(data))
          /\ dataFiles' = SortNames(Append(dataFiles, NewFile))
          /\ data' = <<>>
          /\ curBatchSize' = 0
          /\ \/ wfd' = TRUE /\ AfterRotate(p)
             \/ wfd' = FALSE /\ "open" \in Faults /\ Return(p)
       \/ /\ "rename" \in Faults
          /\ data' = Truncated
          /\ curBatchSize' = Len(data')
          /\ wfd' \in (IF "open" \in Faults THEN BOOLEAN ELSE {TRUE})
          /\ Return(p)
          /\ UNCHANGED <<files, index>>
    /\ UNCHANGED <<posFile, reader, batchHeader, inst, loc, count, hist>>

-----------------------------------------------------------------------------
(* Get *)

GetStart(p) ==
    /\ p \in Readers
    /\ Enter(p, "Get", "g_lock")
    /\ UNCHANGED <<loc, count>>

GetLock(p) ==
    /\ pc[p] = "g_lock" /\ rlock = None
    /\ rlock' = p /\ Goto(p, "g_wake")
    /\ UNCHANGED <<readers, closing, wlock, rwlock, disk, index, reader, writer,
                   batchHeader, inst, loc, count, hist>>

\* Mutants: the lock is not tried; only a full batch is worth waking up.
WakesWithoutLock == curBatchSize > 0
WakesFullBatch   == wlock = None /\ curBatchSize >= BatchSize

\* TryLock succeeds and the write file holds something.
MayWake == wlock = None /\ curBatchSize > 0

\* A write file that was idle for long (it may be, at any moment) is rotated ...
GetWake(p) ==
    /\ pc[p] = "g_wake" /\ MayWake
    /\ wlock' = p /\ Goto(p, "r_eof")
    /\ UNCHANGED <<readers, closing, rlock, rwlock, disk, index, reader, writer,
                   batchHeader, inst, loc, count, hist>>

\* ... and left alone when it is locked, empty or was written lately.
GetNoWake(p) ==
    /\ pc[p] = "g_wake"
    /\ Goto(p, "g_open")
    /\ UNCHANGED <<disk, index, reader, writer, batchHeader, inst, locks, loc,
                   count, hist>>

\* switchNextFile: remove the file read so far, if any, then open the next.
Switch(p) == Goto(p, IF curReadfile # None THEN "n_remove" ELSE "n_reset")

GetOpen(p) ==
    /\ pc[p] = "g_open"
    /\ IF rfd = None THEN Switch(p) ELSE Goto(p, "g_retry")
    /\ UNCHANGED <<disk, index, reader, writer, batchHeader, inst, locks, loc,
                   count, hist>>

\* Bound: no further failure to remove a file is considered once size is
\* negative; without it size would sink for ever.
RemoveMayFail == "remove" \in Faults /\ size >= 0

\* Mutant: the list keeps the name of the removed file.
ListKept == dataFiles

\* "first file removed"
ListAfterRemove == IF dataFiles = <<>> THEN <<>> ELSE Tail(dataFiles)

\* removeCurrentReadingFile: size is reduced before the file is removed.
NextRemove(p) ==
    /\ pc[p] = "n_remove" /\ rwlock = None
    /\ rfd' = None
    /\ LET n == Len(Content(curReadfile)) IN
       /\ size' = size - Counted(n)
       /\ \/ /\ files' = RemoveFile(curReadfile)
             /\ curReadfile' = None
             /\ dataFiles' = ListAfterRemove
             /\ Goto(p, "n_reset")
             /\ UNCHANGED locks
          \/ /\ RemoveMayFail /\ curReadfile \in DOMAIN files
             /\ Return(p)
             /\ UNCHANGED <<files, curReadfile, dataFiles>>
    /\ UNCHANGED <<data, posFile, pos, writer, batchHeader, inst, loc, count,
                   hist>>

\* doSwitchNextFile, first part: reset .pos.
NextReset(p) ==
    /\ pc[p] = "n_reset" /\ rwlock = None
    /\ IF NoPos THEN UNCHANGED <<pos, posFile>>
       ELSE pos' = [name |-> None, seek |-> -1] /\ posFile' = None
    /\ IF dataFiles = <<>>
       THEN Goto(p, "g_retry") /\ UNCHANGED rwlock
       ELSE Goto(p, "n_open") /\ rwlock' = p
    /\ UNCHANGED <<files, data, index, curReadfile, rfd, writer, batchHeader,
                   inst, readers, closing, wlock, rlock, loc, count, hist>>

\* doSwitchNextFile, second part: open the first file, dump .pos.
NextOpen(p) ==
    /\ pc[p] = "n_open"
    /\ LET f == Head(dataFiles) IN
       /\ curReadfile' = f
       /\ \/ /\ f \in DOMAIN files
             /\ rfd' = 0
             /\ IF NoPos THEN UNCHANGED <<pos, posFile>>
                ELSE /\ pos' = [name |-> f, seek |-> 0]
                     /\ posFile' = [name |-> f, seek |-> 0]
             /\ rwlock' = None /\ Goto(p, "g_retry")
             /\ UNCHANGED <<readers, closing, wlock, rlock>>
          \/ /\ f \notin DOMAIN files \/ "open" \in Faults
             /\ Return(p)
             /\ UNCHANGED <<rfd, pos, posFile>>
    /\ UNCHANGED <<files, data, index, writer, batchHeader, inst, loc, count,
                   hist>>

\* retry: no file to read is ErrNoData.
GetRetry(p) ==
    /\ pc[p] = "g_retry"
    /\ IF rfd = None THEN Return(p) ELSE Goto(p, "g_hdr") /\ UNCHANGED locks
    /\ UNCHANGED <<disk, index, reader, writer, batchHeader, inst, loc, count,
                   hist>>

\* Read the header.  A descriptor that dropBatch closed meanwhile, or the end
\* of the file, makes it a bad file: skipBadFile.
GetHeader(p) ==
    /\ pc[p] = "g_hdr"
    /\ LET s == Content(curReadfile) IN
       IF rfd # None /\ rfd < Len(s)
       THEN /\ batchHeader' = s[rfd + 1]
            /\ rfd' = rfd + 1
            /\ Goto(p, "g_len")
       ELSE Switch(p) /\ UNCHANGED <<batchHeader, rfd>>
    /\ UNCHANGED <<disk, index, curReadfile, pos, writer, inst, locks, loc, count,
                   hist>>

\* Where the record after one of n cells begins.
SkipTo(n) == rfd + n

\* Decode the length: end marker, or a record that the buffer holds or not.  In
\* the latter case the record is skipped and ErrTooSmallReadBuf returned.
GetLength(p) ==
    /\ pc[p] = "g_len"
    /\ \/ /\ batchHeader.t = "eof"
          /\ Switch(p)
          /\ UNCHANGED <<rfd, locks, loc, dropped>>
       \/ /\ batchHeader.t # "eof"
          /\ \E n \in Lengths(batchHeader) :
             \/ /\ Set(p, [n |-> n, id |-> 0, hdr |-> batchHeader])
                /\ Goto(p, "g_data")
                /\ UNCHANGED <<rfd, locks, dropped>>
             \/ /\ \E b \in BufLens : b < n
                /\ IF rfd = None THEN UNCHANGED <<rfd, dropped>>
                   ELSE /\ rfd' = SkipTo(n)
                        /\ dropped' = dropped \cup {batchHeader.id}
                /\ Return(p)
                /\ UNCHANGED loc
    /\ UNCHANGED <<disk, index, curReadfile, pos, writer, batchHeader, inst,
                   count, written, delivered>>

\* Read the data.  An error, or fewer bytes than the header says, returns.
GetData(p) ==
    /\ pc[p] = "g_data"
    /\ LET s == Content(curReadfile)
           n == loc[p].n
       IN  IF rfd # None /\ rfd + n <= Len(s)
           THEN /\ rfd' = rfd + n
                /\ Set(p, [loc[p] EXCEPT !.id =
                       Record(loc[p].hdr, SubSeq(s, rfd + 1, rfd + n))])
                /\ Goto(p, "g_fn")
                /\ UNCHANGED locks
           ELSE /\ rfd' = IF rfd = None \/ rfd >= Len(s) THEN rfd ELSE Len(s)
                /\ Return(p)
                /\ UNCHANGED loc
    /\ UNCHANGED <<disk, index, curReadfile, pos, writer, batchHeader, inst,
                   count, hist>>

\* Seek back over header and data.
Fallback(n) == rfd - (n + 1)

\* The callback accepts the data or fails; a failure is undone by a seek back,
\* unless fallback is off (then the data is skipped).
GetFn(p) ==
    /\ pc[p] = "g_fn"
    /\ LET m == loc[p] IN
       \/ /\ delivered' = Append(delivered, m.id)
          /\ Goto(p, "g_pos")
          /\ UNCHANGED <<rfd, locks, dropped>>
       \/ /\ "fn" \in Faults /\ NoFallback
          /\ dropped' = dropped \cup {m.id}
          /\ Goto(p, "g_pos")
          /\ UNCHANGED <<rfd, locks, delivered>>
       \/ /\ "fn" \in Faults /\ ~NoFallback
          /\ rfd' = IF rfd = None THEN None ELSE Fallback(m.n)
          /\ Return(p)
          /\ UNCHANGED <<delivered, dropped>>
    /\ UNCHANGED <<disk, index, curReadfile, pos, writer, batchHeader, inst, loc,
                   count, written>>

\* Mutants: the header is forgotten, or counted twice.
AdvanceWithoutHeader(n) == pos.seek + n
AdvanceHeaderTwice(n)   == pos.seek + n + 2

Advance(n) == pos.seek + n + 1

\* Advance the position in memory; dumpFile decides whether .pos is written,
\* which begins by truncating it.
GetPos(p) ==
    /\ pc[p] = "g_pos"
    /\ LET n == loc[p].n IN
       \/ /\ NoPos \/ n = 0
          /\ Return(p)
          /\ UNCHANGED <<pos, posFile>>
       \/ /\ ~NoPos /\ n > 0
          /\ pos' = [pos EXCEPT !.seek = Advance(n)]
          /\ \/ /\ posFile' = None
                /\ Goto(p, "g_dump")
                /\ UNCHANGED locks
             \/ /\ ~ForceDump
                /\ Return(p)
                /\ UNCHANGED posFile
    /\ UNCHANGED <<files, data, index, curReadfile, rfd, writer, batchHeader,
                   inst, loc, count, hist>>

\* The write of .pos: a position without a name is 8 bytes, which Open ignores.
GetDump(p) ==
    /\ pc[p] = "g_dump"
    /\ posFile' = IF pos.name = None THEN None ELSE pos
    /\ Return(p)
    /\ UNCHANGED <<files, data, index, reader, writer, batchHeader, inst, loc,
                   count, hist>>

-----------------------------------------------------------------------------
(* Close, kill, Open *)

\* lifecycleMu.Lock: announce ...
CloseStart(p) ==
    /\ p \in Closers /\ "Close" \in Calls
    /\ pc[p] = "idle" /\ inst = "open" /\ closing = None
    /\ closing' = p /\ Goto(p, "c_wait")
    /\ UNCHANGED <<readers, wlock, rlock, rwlock, disk, index, reader, writer,
                   batchHeader, inst, loc, count, hist>>

\* Mutant: Close does not wait.
AnyTime == TRUE

CallsDone == readers = {}

\* ... and go on when the calls in flight are done.  .pos is not written.
CloseFinish(p) ==
    /\ pc[p] = "c_wait" /\ CallsDone /\ rwlock = None
    /\ inst' = "closed"
    /\ rfd' = None /\ wfd' = FALSE
    /\ closing' = None /\ Goto(p, "idle")
    /\ UNCHANGED <<readers, wlock, rlock, rwlock, disk, index, curReadfile, pos,
                   curBatchSize, batchHeader, loc, count, hist>>

\* The process is killed: what was written to the files stays.
Kill ==
    /\ "Kill" \in Calls /\ inst = "open" /\ restarts < MaxRestarts
    /\ \A p \in Procs : pc[p] = "idle" \/ pc[p] \in KillAt
    /\ inst' = "killed"
    /\ rfd' = None /\ wfd' = FALSE
    /\ readers' = {} /\ closing' = None
    /\ wlock' = None /\ rlock' = None /\ rwlock' = None
    /\ pc' = [p \in Procs |-> "idle"]
    /\ UNCHANGED <<disk, index, curReadfile, pos, curBatchSize, batchHeader, loc,
                   count, hist>>

\* Open: a new instance.  Every rotated file counts with its full size.
TotalSize == SumFunction([f \in DOMAIN files |-> Len(files[f])])

Open ==
    /\ inst # "open" /\ restarts < MaxRestarts
    /\ inst' = "open" /\ restarts' = restarts + 1
    /\ wfd' = TRUE /\ curBatchSize' = Len(data)
    /\ dataFiles' \in Sorted(DOMAIN files)
    /\ size' = TotalSize
    /\ batchHeader' = EOF
    /\ loc' = [p \in Procs |-> Local0]
    \* loadUnfinishedFile
    /\ IF ~NoPos /\ posFile # None /\ posFile.name \in DOMAIN files
       THEN /\ curReadfile' = posFile.name /\ rfd' = posFile.seek
            /\ pos' = posFile /\ UNCHANGED posFile
       ELSE /\ curReadfile' = None /\ rfd' = None
            /\ IF ~NoPos /\ posFile # None
               THEN pos' = [name |-> None, seek |-> -1] /\ posFile' = None
               ELSE pos' = [name |-> None, seek |-> 0] /\ UNCHANGED posFile
    /\ UNCHANGED <<files, data, locks, pc, nxt, hist>>

\* An empty directory, opened.
Init ==
    /\ files = [f \in {} |-> <<>>] /\ data = <<>> /\ posFile = None
    /\ dataFiles = <<>> /\ size = 0
    /\ curReadfile = None /\ rfd = None /\ pos = [name |-> None, seek |-> 0]
    /\ wfd = TRUE /\ curBatchSize = 0 /\ batchHeader = EOF
    /\ inst = "open"
    /\ readers = {} /\ closing = None
    /\ wlock = None /\ rlock = None /\ rwlock = None
    /\ pc = [p \in Procs |-> "idle"] /\ loc = [p \in Procs |-> Local0]
    /\ nxt = 1 /\ restarts = 0
    /\ written = <<>> /\ delivered = <<>> /\ dropped = {}

Step(p) ==
    \/ PutStart(p) \/ PutLock(p) \/ PutDrop(p) \/ PutSize(p)
    \/ PutHeader(p) \/ PutData(p)
    \/ StreamStart(p) \/ StreamLock(p) \/ StreamHeader(p) \/ StreamWrite(p)
    \/ StreamCopy(p)
    \/ RotateStart(p) \/ RotateLock(p) \/ RotateEOF(p) \/ RotateRename(p)
    \/ GetStart(p) \/ GetLock(p) \/ GetWake(p) \/ GetNoWake(p) \/ GetOpen(p)
    \/ NextRemove(p) \/ NextReset(p) \/ NextOpen(p)
    \/ GetRetry(p) \/ GetHeader(p) \/ GetLength(p) \/ GetData(p) \/ GetFn(p)
    \/ GetPos(p) \/ GetDump(p)
    \/ CloseStart(p) \/ CloseFinish(p)

Next == (\E p \in Procs : Step(p)) \/ Kill \/ Open

Spec == Init /\ [][Next]_vars

=============================================================================
