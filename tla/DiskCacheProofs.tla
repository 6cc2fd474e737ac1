-------------------------- MODULE DiskCacheProofs --------------------------
(***************************************************************************)
(* Theorems about the disk cache, for any number of goroutines, any record *)
(* lengths and sizes, and every fault of AllFaults.                        *)
(***************************************************************************)
EXTENDS DiskCacheInvariants, FiniteSetTheorems, TLAPS

\* A leaf is first-order reasoning unless it names another prover.
USE Zenon

-----------------------------------------------------------------------------
(* Types *)

\* The end marker, headers and data cells are cells.
LEMMA CellFacts ==
    /\ EOF \in Cell
    /\ Local0 \in [n : Nat, id : Nat, hdr : Cell]
    /\ \A i, n \in Nat : Hdr(i, n) \in Cell /\ Dat(i, n) \in Cell
BY DEF EOF, Cell, Local0, Hdr, Dat

\* Data cells are cells.
LEMMA PayloadType ==
    ASSUME NEW i \in Nat, NEW n \in Nat, NEW k \in Nat
    PROVE  Payload(i, n, k) \in Seq(Cell)
BY SMT, CellFacts DEF Payload

\* A record number comes from a header, or is 0.
LEMMA RecordType ==
    ASSUME NEW hdr \in Cell, NEW cells
    PROVE  Record(hdr, cells) \in Nat
BY DEF Record, Cell

\* A length read at a cell is a number.
LEMMA LengthsType ==
    ASSUME NEW cell \in Cell, NEW n \in Lengths(cell)
    PROVE  n \in Nat
<1>1. Lens \subseteq Nat
    BY ConstantsAssumption
<1>2. cell.n \in Nat
    BY DEF Cell
<1>3. n = 0 \/ n \in Lens \/ n = cell.n
    BY DEF Lengths
<1>4. 0 \in Nat
    OBVIOUS
<1> QED
    BY <1>1, <1>2, <1>3, <1>4, Zenon

\* The numbers of a listing.
LEMMA SortedType ==
    ASSUME NEW S \in SUBSET Nat, IsFiniteSet(S), NEW s \in Sorted(S)
    PROVE  s \in Seq(Nat) /\ InOrder(s) /\ Range(s) = S
<1>1. Cardinality(S) \in Nat
    BY FS_CardinalityType
<1>2. s \in [1..Cardinality(S) -> S] /\ InOrder(s) /\ Range(s) = S
    BY DEF Sorted
<1>3. s \in [1..Cardinality(S) -> Nat]
    BY Zenon, <1>2
<1> QED
    BY SMT, <1>1, <1>2, <1>3

-----------------------------------------------------------------------------
(* Locks *)

\* What a step of one goroutine does to the program counters.
LEMMA GotoEffect ==
    ASSUME ControlOK, NEW p \in Procs, NEW l, Goto(p, l)
    PROVE  \A q \in Procs : pc'[q] = IF q = p THEN l ELSE pc[q]
BY DEF ControlOK, Goto

\* The beginning of a call.
LEMMA EnterKept ==
    ASSUME ControlOK, LockInv, NEW p \in Procs, NEW call, NEW l \in WaitPCs,
           Enter(p, call, l), IF l = "g_lock" THEN p \in Readers ELSE p \in Writers
    PROVE  (ControlOK /\ LockInv)'
<1>1. \A q \in Procs : pc'[q] = IF q = p THEN l ELSE pc[q]
    BY GotoEffect DEF Enter
<1>2. ControlOK'
    BY DEF Enter, ControlOK, Goto, PCs
<1>3. LockInv'
    BY <1>1, SMTT(30)
    DEF Enter, LockInv, Writing, Reading, Indexing, WritePCs, ReadPCs, WaitPCs
<1> QED
    BY <1>2, <1>3

\* The end of a call: Return gives back what the goroutine holds.
LEMMA ReturnKept ==
    ASSUME ControlOK, LockInv, NEW p \in Procs, pc[p] \notin {"idle", "c_wait"}, Return(p),
           inst' = inst
    PROVE  (ControlOK /\ LockInv)'
<1>1. \A q \in Procs : pc'[q] = IF q = p THEN "idle" ELSE pc[q]
    BY GotoEffect DEF Return
<1>2. ControlOK'
    BY DEF Return, Free, ControlOK, Goto, PCs
<1>3. LockInv'
    BY <1>1, ConstantsAssumption, SMTT(30)
    DEF Return, Free, LockInv, Writing, Reading, Indexing, WritePCs, ReadPCs
<1> QED
    BY <1>2, <1>3

\* A step between two places where the goroutine holds the same locks: wlock in
\* Put and StreamPut, up to rotate ...
LEMMA WriterMove ==
    ASSUME ControlOK, LockInv, NEW p \in Procs, pc[p] \in WritePCs \ {"r_eof", "r_ren"},
           NEW l \in WritePCs \ {"r_ren"}, Goto(p, l), UNCHANGED <<locks, inst>>
    PROVE  (ControlOK /\ LockInv)'
<1>1. \A q \in Procs : pc'[q] = IF q = p THEN l ELSE pc[q]
    BY GotoEffect
<1>2. ControlOK'
    BY DEF ControlOK, Goto, PCs, locks
<1>3. p \in Writers /\ p \notin Readers
    BY RolesAssumption DEF LockInv
<1>4. LockInv'
    BY <1>1, <1>3, SMTT(30)
    DEF LockInv, Writing, Reading, Indexing, WritePCs, ReadPCs, locks
<1> QED
    BY <1>2, <1>4

\* ... and rlock in Get.
LEMMA ReaderMove ==
    ASSUME ControlOK, LockInv, NEW p \in Procs, pc[p] \in ReadPCs \ {"n_open"},
           NEW l \in ReadPCs \ {"n_open"}, Goto(p, l), UNCHANGED <<locks, inst>>
    PROVE  (ControlOK /\ LockInv)'
<1>1. \A q \in Procs : pc'[q] = IF q = p THEN l ELSE pc[q]
    BY GotoEffect
<1>2. ControlOK'
    BY DEF ControlOK, Goto, PCs, locks
<1>3. p \in Readers
    BY DEF LockInv
<1>4. LockInv'
    BY <1>1, <1>3, SMTT(30)
    DEF LockInv, Writing, Reading, Indexing, WritePCs, ReadPCs, locks
<1> QED
    BY <1>2, <1>4

\* A goroutine gets wlock, to write or to rotate.
LEMMA WlockTaken ==
    ASSUME ControlOK, LockInv, NEW p \in Procs, wlock = None, wlock' = p,
           UNCHANGED <<readers, closing, rlock, rwlock, inst>>, NEW l, Goto(p, l),
           \/ pc[p] \in {"p_lock", "s_lock", "x_lock"} /\ l \in WritePCs \ {"r_ren"}
           \/ pc[p] = "g_wake" /\ l = "r_eof"
    PROVE  (ControlOK /\ LockInv)'
<1>1. \A q \in Procs : pc'[q] = IF q = p THEN l ELSE pc[q]
    BY GotoEffect
<1>2. ControlOK'
    BY DEF ControlOK, Goto, PCs, WritePCs
<1>3. (p \in Writers /\ p \notin Readers) \/ (pc[p] = "g_wake" /\ p \in Readers)
    BY RolesAssumption DEF LockInv, ReadPCs
<1>4. LockInv'
    BY <1>1, <1>3, ConstantsAssumption, SMTT(30)
    DEF LockInv, Writing, Reading, Indexing, WritePCs, ReadPCs
<1> QED
    BY <1>2, <1>4

\* A goroutine gets rwlock, to rename a file or to open the next one.
LEMMA RwlockTaken ==
    ASSUME ControlOK, LockInv, NEW p \in Procs, rwlock = None, rwlock' = p,
           UNCHANGED <<readers, closing, wlock, rlock, inst>>, NEW l, Goto(p, l),
           \/ pc[p] = "r_eof" /\ l = "r_ren"
           \/ pc[p] = "n_reset" /\ l = "n_open"
    PROVE  (ControlOK /\ LockInv)'
<1>1. \A q \in Procs : pc'[q] = IF q = p THEN l ELSE pc[q]
    BY GotoEffect
<1>2. ControlOK'
    BY DEF ControlOK, Goto, PCs, WritePCs, ReadPCs
<1>3. LockInv'
    BY <1>1, ConstantsAssumption, SMTT(30)
    DEF LockInv, Writing, Reading, Indexing, WritePCs, ReadPCs
<1> QED
    BY <1>2, <1>3

\* rotate is done: called by Get, it gives wlock and rwlock back and Get goes on.
LEMMA AfterRotateKept ==
    ASSUME ControlOK, LockInv, NEW p \in Procs, pc[p] = "r_ren", AfterRotate(p), inst' = inst
    PROVE  (ControlOK /\ LockInv)'
<1>1. CASE p \in Readers
    <2>1. /\ \A q \in Procs : pc'[q] = IF q = p THEN "g_open" ELSE pc[q]
          /\ wlock' = None /\ rwlock' = None /\ UNCHANGED <<readers, closing, rlock>>
        BY <1>1, GotoEffect DEF AfterRotate
    <2>2. ControlOK'
        BY <1>1 DEF AfterRotate, ControlOK, Goto, PCs, ReadPCs
    <2>3. LockInv'
        BY <1>1, <2>1, ConstantsAssumption, SMTT(30)
        DEF LockInv, Writing, Reading, Indexing, WritePCs, ReadPCs
    <2> QED
        BY <2>2, <2>3
<1>2. CASE p \notin Readers
    BY <1>2, ReturnKept DEF AfterRotate
<1> QED
    BY <1>1, <1>2

\* Every step, faults and kills included, keeps the locks in agreement with the
\* program counters.
LEMMA LocksKept ==
    ASSUME ControlOK, LockInv, [Next]_vars
    PROVE  (ControlOK /\ LockInv)'
<1>1. ASSUME NEW p \in Procs, PutStart(p) \/ StreamStart(p) \/ RotateStart(p) \/ GetStart(p)
      PROVE  (ControlOK /\ LockInv)'
    BY <1>1, EnterKept, RolesAssumption
    DEF PutStart, StreamStart, RotateStart, GetStart, WaitPCs
<1>2. ASSUME NEW p \in Procs, PutLock(p)
      PROVE  (ControlOK /\ LockInv)'
    BY <1>2, WlockTaken, ReturnKept DEF PutLock, WritePCs
<1>3. ASSUME NEW p \in Procs, PutDrop(p) \/ PutSize(p)
      PROVE  (ControlOK /\ LockInv)'
    BY <1>3, WriterMove, ReturnKept DEF PutDrop, PutSize, WritePCs
<1>4. ASSUME NEW p \in Procs, PutHeader(p)
      PROVE  (ControlOK /\ LockInv)'
    BY <1>4, WriterMove, ReturnKept DEF PutHeader, EnsureFails, WritePCs
<1>5. ASSUME NEW p \in Procs, PutData(p) \/ StreamCopy(p)
      PROVE  (ControlOK /\ LockInv)'
    BY Zenon, <1>5, WriterMove, ReturnKept DEF PutData, StreamCopy, AfterWrite, WritePCs
<1>6. ASSUME NEW p \in Procs, StreamLock(p)
      PROVE  (ControlOK /\ LockInv)'
    BY <1>6, WlockTaken, ReturnKept DEF StreamLock, EnsureFails, WritePCs
<1>7. ASSUME NEW p \in Procs, StreamHeader(p) \/ StreamWrite(p)
      PROVE  (ControlOK /\ LockInv)'
    BY <1>7, WriterMove, ReturnKept DEF StreamHeader, StreamWrite, WritePCs
<1>8. ASSUME NEW p \in Procs, RotateLock(p) \/ GetWake(p)
      PROVE  (ControlOK /\ LockInv)'
    BY <1>8, WlockTaken DEF RotateLock, GetWake, MayWake, WritePCs
<1>9. ASSUME NEW p \in Procs, RotateEOF(p)
      PROVE  (ControlOK /\ LockInv)'
    BY <1>9, RwlockTaken, ReturnKept DEF RotateEOF, EnsureFails
<1>10. ASSUME NEW p \in Procs, RotateRename(p)
      PROVE  (ControlOK /\ LockInv)'
    BY ZenonT(30), <1>10, AfterRotateKept, ReturnKept DEF RotateRename
<1>11. ASSUME NEW p \in Procs, GetLock(p) PROVE (ControlOK /\ LockInv)'
    <2>1. \A q \in Procs : pc'[q] = IF q = p THEN "g_wake" ELSE pc[q]
        BY <1>11, GotoEffect DEF GetLock
    <2>2. ControlOK'
        BY <1>11 DEF GetLock, ControlOK, Goto, PCs, ReadPCs
    <2>3. LockInv'
        BY <1>11, <2>1, ConstantsAssumption, SMTT(30)
        DEF GetLock, LockInv, Writing, Reading, Indexing, WritePCs, ReadPCs
    <2> QED
        BY <2>2, <2>3
<1>12. ASSUME NEW p \in Procs, GetNoWake(p) \/ GetOpen(p) \/ GetRetry(p) \/ GetHeader(p)
      PROVE  (ControlOK /\ LockInv)'
    BY <1>12, ReaderMove, ReturnKept
    DEF GetNoWake, GetOpen, GetRetry, GetHeader, Switch, ReadPCs
<1>13. ASSUME NEW p \in Procs, GetLength(p) PROVE (ControlOK /\ LockInv)'
    <2>1. /\ pc[p] = "g_len" /\ inst' = inst
          /\ \/ Return(p)
             \/ UNCHANGED locks /\ (Switch(p) \/ Goto(p, "g_data"))
        BY Zenon, <1>13 DEF GetLength
    <2> QED
        BY <2>1, ReaderMove, ReturnKept DEF Switch, ReadPCs
<1>14. ASSUME NEW p \in Procs, GetData(p) \/ GetFn(p) \/ GetPos(p) \/ GetDump(p)
      PROVE  (ControlOK /\ LockInv)'
    BY <1>14, ReaderMove, ReturnKept DEF GetData, GetFn, GetPos, GetDump, ReadPCs
<1>15. ASSUME NEW p \in Procs, NextRemove(p) PROVE (ControlOK /\ LockInv)'
    BY <1>15, ReaderMove, ReturnKept DEF NextRemove, ReadPCs
<1>16. ASSUME NEW p \in Procs, NextReset(p) PROVE (ControlOK /\ LockInv)'
    BY <1>16, ReaderMove, RwlockTaken DEF NextReset, ReadPCs, locks
<1>17. ASSUME NEW p \in Procs, NextOpen(p) PROVE (ControlOK /\ LockInv)'
    <2>1. CASE Return(p)
        BY <1>17, <2>1, ReturnKept DEF NextOpen
    <2>2. CASE /\ rwlock' = None /\ Goto(p, "g_retry")
               /\ UNCHANGED <<readers, closing, wlock, rlock>>
        <3>1. \A q \in Procs : pc'[q] = IF q = p THEN "g_retry" ELSE pc[q]
            BY <2>2, GotoEffect
        <3>2. ControlOK'
            BY <1>17, <2>2 DEF NextOpen, ControlOK, Goto, PCs, ReadPCs
        <3>3. pc[p] = "n_open" /\ inst' = inst
            BY <1>17 DEF NextOpen
        <3>4. LockInv'
            BY <2>2, <3>1, <3>3, ConstantsAssumption, SMTT(30)
            DEF LockInv, Writing, Reading, Indexing, WritePCs, ReadPCs
        <3> QED
            BY <3>2, <3>4
    <2> QED
        BY <1>17, <2>1, <2>2 DEF NextOpen
<1>18. ASSUME NEW p \in Procs, CloseStart(p) \/ CloseFinish(p)
      PROVE  (ControlOK /\ LockInv)'
    <2>1. ControlOK'
        BY <1>18 DEF CloseStart, CloseFinish, ControlOK, Goto, PCs
    <2>2. LockInv'
        BY <1>18, GotoEffect, ConstantsAssumption, SMTT(30)
        DEF CloseStart, CloseFinish, CallsDone, LockInv, Writing, Reading, Indexing,
            WritePCs, ReadPCs
    <2> QED
        BY <2>1, <2>2
<1>19. CASE Kill
    BY <1>19, ConstantsAssumption, SMTT(30)
    DEF Kill, ControlOK, LockInv, Writing, Reading, Indexing, PCs, WritePCs, ReadPCs, WaitPCs
<1>20. CASE Open
    BY <1>20 DEF Open, ControlOK, LockInv, Writing, Reading, Indexing, locks
<1>21. CASE UNCHANGED vars
    BY <1>21 DEF vars, locks, ControlOK, LockInv, Writing, Reading, Indexing
<1>22. ASSUME NEW p \in Procs, Step(p) PROVE (ControlOK /\ LockInv)'
    BY <1>22, <1>1, <1>2, <1>3, <1>4, <1>5, <1>6, <1>7, <1>8, <1>9,
       <1>10, <1>11, <1>12, <1>13, <1>14, <1>15, <1>16, <1>17, <1>18 DEF Step
<1> QED
    BY <1>19, <1>20, <1>21, <1>22 DEF Next

\* The invariant of the locks, for any set of goroutines.
THEOREM Locks == Spec => [](ControlOK /\ LockInv)
<1>1. Init => ControlOK /\ LockInv
    BY ZenonT(30), ConstantsAssumption
    DEF Init, ControlOK, LockInv, Writing, Reading, Indexing,
       PCs, WritePCs, ReadPCs, WaitPCs
<1> QED
    BY <1>1, LocksKept, PTL DEF Spec

\* At most one goroutine writes, one reads and one changes the list of files.
THEOREM MutualExclusion == Spec => []Exclusion
<1>1. ControlOK /\ LockInv => Exclusion
    BY DEF LockInv, Exclusion
<1> QED
    BY <1>1, Locks, PTL

\* Close waits for the calls in flight, and leaves no lock behind.
THEOREM CloseWaits == Spec => []ClosedQuiet
<1>1. ControlOK /\ LockInv => ClosedQuiet
    <2> SUFFICES ASSUME ControlOK, LockInv, inst # "open" PROVE ClosedQuiet
        BY DEF ClosedQuiet
    <2>1. \A p \in Procs : pc[p] = "idle"
        BY ConstantsAssumption DEF LockInv
    <2>2. \A p \in Procs : wlock # p /\ rlock # p /\ rwlock # p
        BY <2>1 DEF LockInv, Writing, Reading, Indexing, WritePCs, ReadPCs
    <2> QED
        BY <2>1, <2>2 DEF ClosedQuiet, ControlOK
<1> QED
    BY <1>1, Locks, PTL

-----------------------------------------------------------------------------
(* The type invariant.  It needs more than the types: that offsets do not  *)
(* become negative needs ReadInv, that a truncated file is a sequence      *)
(* needs WriteInv, that sorting the list of files leaves it alone needs    *)
(* that it is in order.                                                    *)

DataInv == DiskOK /\ MemoryOK /\ LocalOK /\ ReadInv /\ WriteInv /\ InOrder(dataFiles)

-----------------------------------------------------------------------------
(* Operators *)

\* The locals of a goroutine.
LEMMA LocalType ==
    ASSUME LocalOK, NEW p \in Procs
    PROVE  loc[p].n \in Nat /\ loc[p].id \in Nat /\ loc[p].hdr \in Cell
BY DEF LocalOK

\* What is set in loc[p] leaves the other goroutines' locals alone.
LEMMA SetType ==
    ASSUME LocalOK, NEW p \in Procs, NEW r \in [n : Nat, id : Nat, hdr : Cell], Set(p, r)
    PROVE  loc' \in [Procs -> [n : Nat, id : Nat, hdr : Cell]] /\ loc'[p] = r
BY DEF LocalOK, Set

\* The records of a file that dropBatch removes.
LEMMA RecordsOfType ==
    ASSUME NEW s \in Seq(Cell)
    PROVE  RecordsOf(s) \subseteq Nat
<1>1. \A k \in 1..Len(s) : s[k] \in Cell
    BY SMT
<1>2. \A c \in Cell : c.id \in Nat
    BY DEF Cell
<1> QED
    BY <1>1, <1>2 DEF RecordsOf

\* rotate appends the largest number, so that sorting changes nothing.
LEMMA RotatedInOrder ==
    ASSUME dataFiles \in Seq(Nat), InOrder(dataFiles)
    PROVE  /\ NewFile \in Nat
           /\ \A i \in 1..Len(dataFiles) : dataFiles[i] < NewFile
           /\ InOrder(Append(dataFiles, NewFile))
           /\ SortNames(Append(dataFiles, NewFile)) = Append(dataFiles, NewFile)
           /\ Append(dataFiles, NewFile) \in Seq(Nat)
<1>1. NewFile \in Nat
    BY SMT DEF NewFile
<1>2. \A i \in 1..Len(dataFiles) : dataFiles[i] < NewFile
    <2> SUFFICES ASSUME NEW i \in 1..Len(dataFiles) PROVE dataFiles[i] < NewFile
        OBVIOUS
    <2>1. dataFiles # <<>> /\ NewFile = dataFiles[Len(dataFiles)] + 1
        BY SMT DEF NewFile
    <2>2. i = Len(dataFiles) \/ dataFiles[i] < dataFiles[Len(dataFiles)]
        BY SMT DEF InOrder
    <2> QED
        BY SMT, <2>1, <2>2
<1>3. InOrder(Append(dataFiles, NewFile))
    BY SMT, <1>1, <1>2 DEF InOrder
<1> QED
    BY SMT, <1>1, <1>2, <1>3 DEF SortNames

\* Removing the first name keeps the order.
LEMMA TailInOrder ==
    ASSUME NEW s \in Seq(Nat), InOrder(s), s # <<>>
    PROVE  Tail(s) \in Seq(Nat) /\ InOrder(Tail(s))
BY SMT DEF InOrder

\* The files after a removal.
LEMMA RemoveFileType ==
    ASSUME DiskOK, NEW f, files' = RemoveFile(f)
    PROVE  /\ DOMAIN files' = DOMAIN files \ {f}
           /\ DOMAIN files' \subseteq Nat /\ IsFiniteSet(DOMAIN files')
           /\ \A g \in DOMAIN files' : files'[g] = files[g] /\ files'[g] \in Seq(Cell)
<1>1. DOMAIN files' = DOMAIN files \ {f}
    BY DEF RemoveFile, Restrict
<1>2. \A g \in DOMAIN files' : files'[g] = files[g]
    BY DEF RemoveFile, Restrict
<1>3. IsFiniteSet(DOMAIN files \ {f})
    BY FS_RemoveElement DEF DiskOK
<1> QED
    BY <1>1, <1>2, <1>3 DEF DiskOK

\* The files after a rename.
LEMMA AddFileType ==
    ASSUME DiskOK, NEW f \in Nat, NEW s \in Seq(Cell), files' = AddFile(f, s)
    PROVE  /\ DOMAIN files' = DOMAIN files \cup {f}
           /\ DOMAIN files' \subseteq Nat /\ IsFiniteSet(DOMAIN files')
           /\ \A g \in DOMAIN files' :
                 files'[g] = (IF g = f THEN s ELSE files[g]) /\ files'[g] \in Seq(Cell)
<1>1. DOMAIN files' = DOMAIN files \cup {f}
    BY DEF AddFile
<1>2. \A g \in DOMAIN files' : files'[g] = IF g = f THEN s ELSE files[g]
    BY DEF AddFile
<1>3. IsFiniteSet(DOMAIN files \cup {f})
    BY ZenonT(30), FS_AddElement DEF DiskOK
<1> QED
    BY <1>1, <1>2, <1>3 DEF DiskOK

\* The cells of a file, which is empty if it does not exist.
LEMMA ContentType ==
    ASSUME DiskOK, NEW f
    PROVE  Content(f) \in Seq(Cell)
BY SMT DEF DiskOK, Content

-----------------------------------------------------------------------------
(* Frames *)

\* A step that leaves the disk alone.
LEMMA DiskFrame ==
    ASSUME DiskOK, UNCHANGED disk
    PROVE  DiskOK'
BY DEF DiskOK, disk

\* A step that leaves the rotated files and .pos alone.
LEMMA WriteFrame ==
    ASSUME DiskOK, UNCHANGED <<files, posFile>>, data' \in Seq(Cell)
    PROVE  DiskOK'
BY DEF DiskOK

\* A step that leaves the memory of the instance alone.
LEMMA MemoryFrame ==
    ASSUME MemoryOK, UNCHANGED <<dataFiles, reader, writer, batchHeader>>
    PROVE  MemoryOK'
BY DEF MemoryOK, reader, writer

\* A step that leaves the locals, the counters and the histories alone.
LEMMA LocalFrame ==
    ASSUME LocalOK, UNCHANGED <<loc, count, hist>>
    PROVE  LocalOK'
BY DEF LocalOK, count, hist

\* A step that moves no read offset forward.
LEMMA ReadInvQuiet ==
    ASSUME ControlOK, ReadInv, NEW p \in Procs, NEW l, Goto(p, l),
           l \notin {"g_len", "g_data", "g_fn"},
           rfd' = rfd \/ rfd' = None,
           \A q \in Procs \ {p} : loc'[q] = loc[q]
    PROVE  ReadInv'
BY DEF ControlOK, ReadInv, Goto

\* A step of the goroutine that holds rlock.
LEMMA ReadInvReader ==
    ASSUME ControlOK, LockInv, NEW p \in Procs, Reading(p), NEW l, Goto(p, l),
           rfd' # None => /\ l \in {"g_len", "g_data"} => rfd' >= 1
                          /\ l = "g_fn" => rfd' >= loc'[p].n + 1
    PROVE  ReadInv'
BY DEF ControlOK, LockInv, Reading, ReadPCs, ReadInv, Goto

\* A step that leaves the write file alone.
LEMMA WriteInvQuiet ==
    ASSUME ControlOK, WriteInv, NEW p \in Procs, NEW l, Goto(p, l),
           l \notin {"p_data", "s_copy"}, UNCHANGED <<data, curBatchSize>>
    PROVE  WriteInv'
BY DEF ControlOK, WriteInv, Goto

\* A step of the goroutine that holds wlock, or takes it.
LEMMA WriteInvWriter ==
    ASSUME ControlOK, LockInv, NEW p \in Procs, wlock = p \/ wlock = None,
           NEW l, Goto(p, l), curBatchSize' <= Len(data'),
           l \in {"p_data", "s_copy"} => curBatchSize' < Len(data')
    PROVE  WriteInv'
BY ConstantsAssumption DEF ControlOK, LockInv, Writing, WritePCs, WriteInv, Goto

-----------------------------------------------------------------------------
(* Steps *)

\* The steps that only lock, unlock and decide.
LEMMA QuietSteps ==
    ASSUME ControlOK, DataInv, NEW p \in Procs,
           \/ PutLock(p) \/ PutSize(p) \/ RotateLock(p) \/ GetLock(p) \/ GetWake(p)
           \/ GetNoWake(p) \/ GetOpen(p) \/ GetRetry(p) \/ CloseStart(p)
    PROVE  DataInv'
<1>1. UNCHANGED <<disk, index, reader, writer, batchHeader, loc, count, hist>>
    BY DEF PutLock, PutSize, RotateLock, GetLock, GetWake, GetNoWake, GetOpen, GetRetry,
       CloseStart
<1>2. PICK l \in PCs \ {"g_len", "g_data", "g_fn", "p_data", "s_copy"} : Goto(p, l)
    BY DEF PutLock, PutSize, RotateLock, GetLock, GetWake, GetNoWake, GetOpen, GetRetry,
       CloseStart, Return, Switch, PCs, WritePCs, ReadPCs, WaitPCs
<1>3. DiskOK' /\ MemoryOK' /\ LocalOK'
    BY <1>1, DiskFrame, MemoryFrame, LocalFrame DEF DataInv, index
<1>4. ReadInv' /\ WriteInv'
    BY <1>1, <1>2, ReadInvQuiet, WriteInvQuiet DEF DataInv, reader, writer, disk
<1> QED
    BY <1>1, <1>3, <1>4 DEF DataInv, index

\* The calls.
LEMMA StartSteps ==
    ASSUME ControlOK, DataInv, NEW p \in Procs,
           PutStart(p) \/ StreamStart(p) \/ RotateStart(p) \/ GetStart(p)
    PROVE  DataInv'
<1>1. UNCHANGED <<disk, index, reader, writer, batchHeader, hist>>
    BY DEF PutStart, StreamStart, RotateStart, GetStart, Enter
<1>2. \E l \in PCs \ {"g_len", "g_data", "g_fn", "p_data", "s_copy"} : Goto(p, l)
    BY DEF PutStart, StreamStart, RotateStart, GetStart, Enter,
       PCs, WritePCs, ReadPCs, WaitPCs
<1>3. (nxt' = nxt \/ nxt' = nxt + 1) /\ restarts' = restarts
    BY DEF PutStart, StreamStart, RotateStart, GetStart, count
<1>4. \/ loc' = loc
      \/ \E n \in Lens : Set(p, [n |-> n, id |-> nxt, hdr |-> EOF])
    BY DEF PutStart, StreamStart, RotateStart, GetStart
<1>5. /\ loc' \in [Procs -> [n : Nat, id : Nat, hdr : Cell]]
      /\ \A q \in Procs \ {p} : loc'[q] = loc[q]
    <2>1. CASE loc' = loc
        BY <2>1 DEF DataInv, LocalOK
    <2>2. CASE \E n \in Lens : Set(p, [n |-> n, id |-> nxt, hdr |-> EOF])
        <3>1. PICK n \in Lens : Set(p, [n |-> n, id |-> nxt, hdr |-> EOF])
            BY <2>2
        <3>2. [n |-> n, id |-> nxt, hdr |-> EOF] \in [n : Nat, id : Nat, hdr : Cell]
            BY ConstantsAssumption, CellFacts DEF DataInv, LocalOK
        <3>3. \A q \in Procs \ {p} : loc'[q] = loc[q]
            BY <3>1 DEF Set, DataInv, LocalOK
        <3> QED
            BY <3>1, <3>2, <3>3, SetType DEF DataInv
    <2> QED
        BY <1>4, <2>1, <2>2
<1>6. LocalOK'
    BY SMTT(30), <1>1, <1>3, <1>5 DEF DataInv, LocalOK, hist
<1>7. ReadInv' /\ WriteInv'
    BY <1>1, <1>2, <1>5, ReadInvQuiet, WriteInvQuiet
    DEF DataInv, reader, writer, disk
<1> QED
    BY <1>1, <1>6, <1>7, DiskFrame, MemoryFrame DEF DataInv, index

\* The steps that change the write file and nothing else: the memory, locals and
\* histories keep their types when the new values have theirs.
LEMMA WriterStep ==
    ASSUME ControlOK, LockInv, DataInv, NEW p \in Procs, wlock = p \/ wlock = None,
           UNCHANGED <<files, posFile, index, reader, loc, count, delivered, dropped>>,
           data' \in Seq(Cell), wfd' \in BOOLEAN, curBatchSize' \in Nat,
           batchHeader' \in Cell, written' \in Seq(Nat),
           NEW l, Goto(p, l), l \notin {"g_len", "g_data", "g_fn"},
           curBatchSize' <= Len(data'),
           l \in {"p_data", "s_copy"} => curBatchSize' < Len(data')
    PROVE  DataInv'
<1>1. DiskOK'
    BY WriteFrame DEF DataInv
<1>2. MemoryOK'
    BY DEF DataInv, MemoryOK, index, reader
<1>3. LocalOK'
    BY DEF DataInv, LocalOK, count
<1>4. ReadInv' /\ WriteInv'
    BY ReadInvQuiet, WriteInvWriter DEF DataInv, reader
<1> QED
    BY <1>1, <1>2, <1>3, <1>4 DEF DataInv, index

\* ensureWriteFile: what an opened file gives is at most what the file holds.
LEMMA OpenedType ==
    ASSUME DataInv
    PROVE  OpenedBatchSize \in Nat /\ OpenedBatchSize <= Len(data)
BY SMT DEF DataInv, MemoryOK, WriteInv, DiskOK, OpenedBatchSize

\* The writer holds wlock.
LEMMA HoldsWlock ==
    ASSUME LockInv, NEW p \in Procs, Writing(p)
    PROVE  wlock = p
BY DEF LockInv

\* Put: the header.
LEMMA PutHeaderStep ==
    ASSUME ControlOK, LockInv, DataInv, NEW p \in Procs, PutHeader(p)
    PROVE  DataInv'
<1> DEFINE h == Hdr(loc[p].id, loc[p].n)
<1>1. wlock = p
    BY HoldsWlock DEF PutHeader, Writing, WritePCs
<1>2. h \in Cell
    BY LocalType, CellFacts DEF DataInv
<1>3. UNCHANGED <<files, posFile, index, reader, batchHeader, loc, count, hist>>
    BY DEF PutHeader
<1>4. \/ wfd' = TRUE /\ curBatchSize' = OpenedBatchSize /\ data' = Append(data, h)
         /\ Goto(p, "p_data")
      \/ wfd' = TRUE /\ curBatchSize' = OpenedBatchSize /\ data' = data /\ Goto(p, "idle")
      \/ wfd' = wfd /\ curBatchSize' = Len(data) /\ data' = data /\ Goto(p, "idle")
    BY DEF PutHeader, EnsureFails, Return
<1>5. data \in Seq(Cell) /\ wfd \in BOOLEAN /\ batchHeader \in Cell /\ written \in Seq(Nat)
    BY DEF DataInv, DiskOK, MemoryOK, LocalOK
<1>6. CASE wfd' = TRUE /\ curBatchSize' = OpenedBatchSize /\ data' = Append(data, h)
           /\ Goto(p, "p_data")
    <2>1. data' \in Seq(Cell) /\ curBatchSize' \in Nat /\ curBatchSize' < Len(data')
        BY SMTT(30), <1>2, <1>5, <1>6, OpenedType
    <2> QED
        BY SMTT(30), <1>1, <1>3, <1>5, <1>6, <2>1, WriterStep DEF hist
<1>7. CASE wfd' = TRUE /\ curBatchSize' = OpenedBatchSize /\ data' = data /\ Goto(p, "idle")
    BY <1>1, <1>3, <1>5, <1>7, OpenedType, WriterStep DEF hist
<1>8. CASE wfd' = wfd /\ curBatchSize' = Len(data) /\ data' = data /\ Goto(p, "idle")
    BY SMT, <1>1, <1>3, <1>5, <1>8, WriterStep DEF hist
<1> QED
    BY Zenon, <1>4, <1>6, <1>7, <1>8

\* Appending cells.
LEMMA ConcatType ==
    ASSUME NEW s \in Seq(Cell), NEW t \in Seq(Cell)
    PROVE  s \o t \in Seq(Cell) /\ Len(s \o t) = Len(s) + Len(t)
BY SMT

\* The length of a part of the data.
LEMMA PayloadLen ==
    ASSUME NEW i, NEW n, NEW k \in Nat
    PROVE  Len(Payload(i, n, k)) = k
BY SMT DEF Payload

\* Put and StreamPut: the data, whole or in part, counted or not.
LEMMA DataSteps ==
    ASSUME ControlOK, LockInv, DataInv, NEW p \in Procs, PutData(p) \/ StreamCopy(p)
    PROVE  DataInv'
<1>1. wlock = p
    BY Zenon, HoldsWlock DEF PutData, StreamCopy, Writing, WritePCs
<1>2. PICK n \in Nat, id \in Nat : n = loc[p].n /\ id = loc[p].id
    BY LocalType DEF DataInv
<1>3. UNCHANGED <<files, posFile, index, reader, wfd, batchHeader, loc, count,
                  delivered, dropped>>
    BY Zenon DEF PutData, StreamCopy
<1>4. PICK k \in 0..n :
          /\ data' = data \o Payload(id, n, k)
          /\ curBatchSize' = curBatchSize + k + 1 \/ curBatchSize' = curBatchSize
          /\ written' = Append(written, id) \/ written' = written
    <2>1. CASE PutData(p)
        <3>1. n \in 0..n
            BY SMT
        <3> QED
            BY <1>2, <2>1, <3>1, Zenon DEF PutData
    <2>2. CASE StreamCopy(p)
        <3>1. n \in 0..n
            BY SMT
        <3> QED
            BY <1>2, <2>2, <3>1, Zenon DEF StreamCopy
    <2> QED
        BY Zenon, <2>1, <2>2
<1>5. Goto(p, "r_eof") \/ Goto(p, "idle")
    BY Zenon DEF PutData, StreamCopy, AfterWrite, Return
<1>6. k \in Nat
    BY SMT
<1>7. Payload(id, n, k) \in Seq(Cell) /\ Len(Payload(id, n, k)) = k
    BY <1>6, PayloadType, PayloadLen
<1>8. /\ data \in Seq(Cell) /\ wfd \in BOOLEAN /\ batchHeader \in Cell
      /\ written \in Seq(Nat) /\ curBatchSize \in Nat
    BY DEF DataInv, DiskOK, MemoryOK, LocalOK
<1>9. curBatchSize < Len(data)
    BY Zenon DEF DataInv, WriteInv, PutData, StreamCopy
<1>10. data' \in Seq(Cell) /\ Len(data') = Len(data) + k
    <2>1. data' = data \o Payload(id, n, k)
        BY <1>4
    <2> QED
        BY Zenon, <1>7, <1>8, <2>1, ConcatType
<1>11. curBatchSize' \in Nat /\ curBatchSize' <= Len(data')
    BY SMT, <1>4, <1>6, <1>8, <1>9, <1>10
<1>12. written' \in Seq(Nat)
    <2>1. written' = Append(written, id) \/ written' = written
        BY <1>4
    <2>2. Append(written, id) \in Seq(Nat)
        BY SMT, <1>8
    <2> QED
        BY <1>8, <2>1, <2>2, Zenon
<1> QED
    BY Zenon, <1>1, <1>3, <1>5, <1>8, <1>10, <1>11, <1>12, WriterStep

\* StreamPut: lock and open the write file.
LEMMA StreamLockStep ==
    ASSUME ControlOK, LockInv, DataInv, NEW p \in Procs, StreamLock(p)
    PROVE  DataInv'
<1>1. wlock = None
    BY Zenon DEF StreamLock
<1>2. UNCHANGED <<files, data, posFile, index, reader, batchHeader, loc, count, hist>>
    BY DEF StreamLock, EnsureFails
<1>3. Goto(p, "idle") \/ Goto(p, "s_hdr")
    BY DEF StreamLock, EnsureFails, Return
<1>4. curBatchSize' \in {curBatchSize, Len(data), OpenedBatchSize}
    BY DEF StreamLock, EnsureFails, writer
<1>5. wfd' = wfd \/ wfd' = TRUE
    BY DEF StreamLock, EnsureFails, writer
<1>6. /\ data \in Seq(Cell) /\ wfd \in BOOLEAN /\ batchHeader \in Cell
      /\ written \in Seq(Nat) /\ curBatchSize \in Nat /\ curBatchSize <= Len(data)
    BY DEF DataInv, DiskOK, MemoryOK, LocalOK, WriteInv
<1>7. curBatchSize' \in Nat /\ curBatchSize' <= Len(data)
    BY SMT, <1>4, <1>6, OpenedType
<1>8. wfd' \in BOOLEAN
    BY ZenonT(30), <1>5, <1>6
<1> QED
    BY <1>1, <1>2, <1>3, <1>6, <1>7, <1>8, WriterStep DEF hist

\* StreamPut: the header, in the shared buffer and from there to the file.
LEMMA StreamHeaderSteps ==
    ASSUME ControlOK, LockInv, DataInv, NEW p \in Procs, StreamHeader(p) \/ StreamWrite(p)
    PROVE  DataInv'
<1> DEFINE h == Hdr(loc[p].id, loc[p].n)
<1>1. wlock = p
    BY HoldsWlock DEF StreamHeader, StreamWrite, Writing, WritePCs
<1>2. UNCHANGED <<files, posFile, index, reader, writer, loc, count, hist>>
    BY DEF StreamHeader, StreamWrite, disk
<1>3. \/ batchHeader' = h /\ data' = data /\ Goto(p, "s_write")
      \/ batchHeader' = batchHeader /\ data' = Append(data, batchHeader) /\ Goto(p, "s_copy")
      \/ batchHeader' = batchHeader /\ data' = data /\ Goto(p, "idle")
    BY Zenon DEF StreamHeader, StreamWrite, Return, disk
<1>4. /\ data \in Seq(Cell) /\ wfd \in BOOLEAN /\ batchHeader \in Cell
      /\ written \in Seq(Nat) /\ curBatchSize \in Nat /\ curBatchSize <= Len(data)
    BY DEF DataInv, DiskOK, MemoryOK, LocalOK, WriteInv
<1>5. h \in Cell
    BY LocalType, CellFacts DEF DataInv
<1>6. wfd' \in BOOLEAN /\ curBatchSize' \in Nat /\ curBatchSize' = curBatchSize
    BY <1>2, <1>4 DEF writer
<1> HIDE DEF h
<1>7. CASE batchHeader' = h /\ data' = data /\ Goto(p, "s_write")
    BY <1>1, <1>2, <1>4, <1>5, <1>6, <1>7, WriterStep DEF hist
<1>8. CASE /\ batchHeader' = batchHeader /\ data' = Append(data, batchHeader)
           /\ Goto(p, "s_copy")
    <2>1. data' \in Seq(Cell) /\ curBatchSize' < Len(data')
        BY SMT, <1>4, <1>6, <1>8
    <2> QED
        BY SMTT(30), <1>1, <1>2, <1>4, <1>6, <1>8, <2>1, WriterStep DEF hist
<1>9. CASE batchHeader' = batchHeader /\ data' = data /\ Goto(p, "idle")
    BY <1>1, <1>2, <1>4, <1>6, <1>9, WriterStep DEF hist
<1> QED
    BY <1>3, <1>7, <1>8, <1>9

\* rotate: the end marker.
LEMMA RotateEOFStep ==
    ASSUME ControlOK, LockInv, DataInv, NEW p \in Procs, RotateEOF(p)
    PROVE  DataInv'
<1>1. wlock = p
    BY HoldsWlock DEF RotateEOF, Writing, WritePCs
<1>2. UNCHANGED <<files, posFile, index, reader, batchHeader, loc, count, hist>>
    BY DEF RotateEOF
<1>3. Goto(p, "idle") \/ Goto(p, "r_ren")
    BY DEF RotateEOF, EnsureFails, Return
<1>4. curBatchSize' \in {Len(data), OpenedBatchSize}
    BY DEF RotateEOF, EnsureFails
<1>5. wfd' = wfd \/ wfd' = TRUE
    BY DEF RotateEOF, EnsureFails
<1>6. data' = data \/ data' = Append(data, EOF)
    BY DEF RotateEOF, EnsureFails, WithEOF
<1>7. /\ data \in Seq(Cell) /\ wfd \in BOOLEAN /\ batchHeader \in Cell
      /\ written \in Seq(Nat)
    BY DEF DataInv, DiskOK, MemoryOK, LocalOK
<1>8. data' \in Seq(Cell) /\ Len(data) <= Len(data')
    <2>1. Append(data, EOF) \in Seq(Cell) /\ Len(Append(data, EOF)) = Len(data) + 1
        BY SMT, <1>7, CellFacts
    <2>2. CASE data' = data
        BY SMT, <1>7, <2>2
    <2>3. CASE data' = Append(data, EOF)
        BY SMT, <1>7, <2>1, <2>3
    <2> QED
        BY <1>6, <2>2, <2>3
<1>9. curBatchSize' \in Nat /\ curBatchSize' <= Len(data')
    BY SMT, <1>4, <1>7, <1>8, OpenedType
<1>10. wfd' \in BOOLEAN
    BY Zenon, <1>5, <1>7
<1> QED
    BY <1>1, <1>2, <1>3, <1>7, <1>8, <1>9, <1>10, WriterStep DEF hist

\* rotate: rename, account, sort, reopen; or the rename fails.
LEMMA RotateRenameStep ==
    ASSUME ControlOK, LockInv, DataInv, NEW p \in Procs, RotateRename(p)
    PROVE  DataInv'
<1>1. wlock = p
    BY HoldsWlock DEF RotateRename, Writing, WritePCs
<1>2. UNCHANGED <<posFile, reader, batchHeader, loc, count, hist>>
    BY DEF RotateRename
<1>3. Goto(p, "idle") \/ Goto(p, "g_open")
    BY Zenon DEF RotateRename, AfterRotate, Return
<1>4. wfd' \in BOOLEAN
    BY Zenon DEF RotateRename
<1>5. /\ data \in Seq(Cell) /\ batchHeader \in Cell /\ written \in Seq(Nat)
      /\ curBatchSize \in Nat /\ curBatchSize <= Len(data)
    BY DEF DataInv, DiskOK, MemoryOK, LocalOK, WriteInv
<1>6. CASE /\ files' = AddFile(NewFile, data) /\ data' = <<>> /\ curBatchSize' = 0
           /\ dataFiles' = SortNames(Append(dataFiles, NewFile))
    <2>1. /\ NewFile \in Nat
          /\ dataFiles' \in Seq(Nat) /\ InOrder(dataFiles')
        BY Zenon, <1>6, RotatedInOrder DEF DataInv, MemoryOK
    <2>2. DiskOK'
        <3>1. /\ DOMAIN files' \subseteq Nat /\ IsFiniteSet(DOMAIN files')
              /\ \A g \in DOMAIN files' : files'[g] \in Seq(Cell)
            BY Zenon, <1>5, <1>6, <2>1, AddFileType DEF DataInv
        <3>2. data' \in Seq(Cell)
            BY SMT, <1>6
        <3>3. posFile' \in Position \cup {None}
            BY <1>2 DEF DataInv, DiskOK
        <3> QED
            BY <3>1, <3>2, <3>3 DEF DiskOK
    <2>3. MemoryOK'
        BY <1>2, <1>4, <1>6, <2>1 DEF DataInv, MemoryOK, reader
    <2>4. LocalOK'
        BY <1>2, LocalFrame DEF DataInv
    <2>5. ReadInv'
        BY <1>2, <1>3, ReadInvQuiet DEF DataInv, reader
    <2>6. WriteInv'
        BY SMTT(30), <1>1, <1>3, <1>6, WriteInvWriter
    <2> QED
        BY <2>1, <2>2, <2>3, <2>4, <2>5, <2>6 DEF DataInv
<1>7. CASE /\ data' = SubSeq(data, 1, curBatchSize) /\ curBatchSize' = Len(data')
           /\ UNCHANGED <<files, index>>
    <2>1. data' \in Seq(Cell) /\ curBatchSize' \in Nat /\ curBatchSize' <= Len(data')
        BY SMT, <1>5, <1>7
    <2> QED
        BY ZenonT(30), <1>1, <1>2, <1>3, <1>4, <1>5, <1>7, <2>1, WriterStep DEF hist
<1> QED
    BY Zenon, <1>6, <1>7 DEF RotateRename, Truncated

\* Put: dropBatch.
LEMMA PutDropStep ==
    ASSUME ControlOK, LockInv, DataInv, NEW p \in Procs, PutDrop(p)
    PROVE  DataInv'
<1>1. UNCHANGED <<data, posFile, curReadfile, pos, writer, batchHeader, loc, count,
                  written, delivered>>
    BY DEF PutDrop
<1>2. Goto(p, "p_size") \/ Goto(p, "idle")
    BY DEF PutDrop, Return
<1>3. rfd' = rfd \/ rfd' = None
    BY DEF PutDrop
<1>4. \/ UNCHANGED <<files, dataFiles, dropped>>
      \/ /\ dataFiles # <<>> /\ Head(dataFiles) \in DOMAIN files
         /\ files' = RemoveFile(Head(dataFiles))
         /\ dataFiles' = Tail(dataFiles)
         /\ dropped' = dropped \cup RecordsOf(files[Head(dataFiles)])
    BY DEF PutDrop, index
<1>5. DiskOK'
    <2>1. CASE files' = files
        BY <1>1, <2>1 DEF DataInv, DiskOK
    <2>2. CASE files' = RemoveFile(Head(dataFiles))
        BY Zenon, <1>1, <2>2, RemoveFileType DEF DataInv, DiskOK
    <2> QED
        BY <1>4, <2>1, <2>2
<1>6. dataFiles' \in Seq(Nat) /\ InOrder(dataFiles')
    <2>1. CASE dataFiles' = dataFiles
        BY <2>1 DEF DataInv, MemoryOK
    <2>2. CASE dataFiles # <<>> /\ dataFiles' = Tail(dataFiles)
        BY <2>2, TailInOrder DEF DataInv, MemoryOK
    <2> QED
        BY <1>4, <2>1, <2>2
<1>7. MemoryOK'
    BY <1>1, <1>3, <1>6 DEF DataInv, MemoryOK, writer
<1>8. dropped' \subseteq Nat
    <2>1. CASE dropped' = dropped
        BY <2>1 DEF DataInv, LocalOK
    <2>2. CASE /\ Head(dataFiles) \in DOMAIN files
               /\ dropped' = dropped \cup RecordsOf(files[Head(dataFiles)])
        BY Zenon, <2>2, RecordsOfType DEF DataInv, LocalOK, DiskOK
    <2> QED
        BY <1>4, <2>1, <2>2
<1>9. LocalOK'
    BY <1>1, <1>8 DEF DataInv, LocalOK, count
<1>10. ReadInv' /\ WriteInv'
    BY <1>1, <1>2, <1>3, ReadInvQuiet, WriteInvQuiet DEF DataInv, writer
<1> QED
    BY <1>5, <1>6, <1>7, <1>9, <1>10 DEF DataInv

\* The steps of the goroutine that holds rlock: none of them writes.
LEMMA ReaderStep ==
    ASSUME ControlOK, LockInv, DataInv, NEW p \in Procs, Reading(p),
           UNCHANGED <<data, writer, count, written>>,
           DiskOK', MemoryOK', InOrder(dataFiles'),
           loc' \in [Procs -> [n : Nat, id : Nat, hdr : Cell]],
           delivered' \in Seq(Nat), dropped' \subseteq Nat,
           NEW l, Goto(p, l), l \notin {"p_data", "s_copy"},
           rfd' # None => /\ l \in {"g_len", "g_data"} => rfd' >= 1
                          /\ l = "g_fn" => rfd' >= loc'[p].n + 1
    PROVE  DataInv'
<1>1. LocalOK'
    BY DEF DataInv, LocalOK, count
<1>2. ReadInv' /\ WriteInv'
    BY ReadInvReader, WriteInvQuiet DEF DataInv, writer
<1> QED
    BY <1>1, <1>2 DEF DataInv

\* The types of the locals and the histories.
LEMMA LocalFacts ==
    ASSUME DataInv
    PROVE  /\ loc \in [Procs -> [n : Nat, id : Nat, hdr : Cell]]
           /\ delivered \in Seq(Nat) /\ dropped \subseteq Nat
BY DEF DataInv, LocalOK

\* switchNextFile: the file that was read is removed.
LEMMA NextRemoveStep ==
    ASSUME ControlOK, LockInv, DataInv, NEW p \in Procs, NextRemove(p)
    PROVE  DataInv'
<1>1. Reading(p)
    BY DEF NextRemove, Reading, ReadPCs
<1>2. UNCHANGED <<data, posFile, pos, writer, batchHeader, loc, count, hist>>
    BY DEF NextRemove
<1>3. Goto(p, "n_reset") \/ Goto(p, "idle")
    BY DEF NextRemove, Return
<1>4. rfd' = None
    BY DEF NextRemove
<1>5. files' = files \/ files' = RemoveFile(curReadfile)
    BY DEF NextRemove
<1>6. curReadfile' = None \/ curReadfile' = curReadfile
    BY DEF NextRemove
<1>7. dataFiles' = dataFiles \/ (dataFiles # <<>> /\ dataFiles' = Tail(dataFiles))
    BY DEF NextRemove, ListAfterRemove
<1>8. DiskOK'
    <2>1. CASE files' = files
        BY <1>2, <2>1 DEF DataInv, DiskOK
    <2>2. CASE files' = RemoveFile(curReadfile)
        BY Zenon, <1>2, <2>2, RemoveFileType DEF DataInv, DiskOK
    <2> QED
        BY <1>5, <2>1, <2>2
<1>9. dataFiles' \in Seq(Nat) /\ InOrder(dataFiles')
    <2>1. CASE dataFiles' = dataFiles
        BY <2>1 DEF DataInv, MemoryOK
    <2>2. CASE dataFiles # <<>> /\ dataFiles' = Tail(dataFiles)
        BY <2>2, TailInOrder DEF DataInv, MemoryOK
    <2> QED
        BY <1>7, <2>1, <2>2
<1>10. MemoryOK'
    BY <1>2, <1>4, <1>6, <1>9 DEF DataInv, MemoryOK, writer
<1> QED
    BY Zenon, <1>1, <1>2, <1>3, <1>4, <1>8, <1>9, <1>10, LocalFacts, ReaderStep DEF hist

\* switchNextFile: .pos is reset, the next file opened.
LEMMA NextSteps ==
    ASSUME ControlOK, LockInv, DataInv, NEW p \in Procs, OpenInv,
           NextReset(p) \/ NextOpen(p)
    PROVE  DataInv'
<1>1. Reading(p)
    BY DEF NextReset, NextOpen, Reading, ReadPCs
<1>2. UNCHANGED <<files, data, index, writer, batchHeader, loc, count, hist>>
    BY DEF NextReset, NextOpen
<1>3. Goto(p, "n_open") \/ Goto(p, "g_retry") \/ Goto(p, "idle")
    BY Zenon DEF NextReset, NextOpen, Return
<1>4. dataFiles \in Seq(Nat) /\ InOrder(dataFiles)
    BY DEF DataInv, MemoryOK
<1>5. CASE NextReset(p)
    <2>1. UNCHANGED <<curReadfile, rfd>>
        BY <1>5 DEF NextReset
    <2>2. /\ pos' = pos \/ pos' = [name |-> None, seek |-> -1]
          /\ posFile' = posFile \/ posFile' = None
        BY <1>5 DEF NextReset
    <2>3. DiskOK'
        BY <1>2, <2>2 DEF DataInv, DiskOK
    <2>4. pos' \in [name : Nat \cup {None}, seek : Int] /\ (pos'.name # None => pos'.seek \in Nat)
        BY SMTT(30), <2>2 DEF DataInv, MemoryOK
    <2>5. MemoryOK'
        BY <1>2, <2>1, <2>4 DEF DataInv, MemoryOK, index, writer
    <2> QED
        BY ZenonT(30), <1>1, <1>2, <1>3, <1>4, <2>3, <2>5, LocalFacts, ReaderStep
        DEF hist, index
<1>6. CASE NextOpen(p)
    <2>1. PICK f : f = Head(dataFiles)
        OBVIOUS
    <2>2. f \in Nat
        BY SMTT(30), <1>4, <1>6, <2>1 DEF NextOpen, OpenInv
    <2>3. curReadfile' = f /\ (rfd' = rfd \/ rfd' = 0)
        BY ZenonT(30), <1>6, <2>1 DEF NextOpen
    <2>4. /\ pos' = pos \/ pos' = [name |-> f, seek |-> 0]
          /\ posFile' = posFile \/ posFile' = [name |-> f, seek |-> 0]
        BY ZenonT(30), <1>6, <2>1 DEF NextOpen
    <2>5. DiskOK'
        BY SMTT(30), <1>2, <2>2, <2>4 DEF DataInv, DiskOK, Position
    <2>6. pos' \in [name : Nat \cup {None}, seek : Int] /\ (pos'.name # None => pos'.seek \in Nat)
        BY SMTT(30), <2>2, <2>4 DEF DataInv, MemoryOK
    <2>7. MemoryOK'
        BY SMTT(30), <1>2, <2>2, <2>3, <2>6 DEF DataInv, MemoryOK, index, writer
    <2> QED
        BY Zenon, <1>1, <1>2, <1>3, <1>4, <2>5, <2>7, LocalFacts, ReaderStep
        DEF hist, index
<1> QED
    BY <1>5, <1>6

\* Get: the header.
LEMMA GetHeaderStep ==
    ASSUME ControlOK, LockInv, DataInv, NEW p \in Procs, GetHeader(p)
    PROVE  DataInv'
<1>1. Reading(p)
    BY DEF GetHeader, Reading, ReadPCs
<1>2. UNCHANGED <<disk, index, curReadfile, pos, writer, loc, count, hist>>
    BY DEF GetHeader
<1>3. DiskOK'
    BY <1>2, DiskFrame DEF DataInv
<1>4. rfd \in Nat \cup {None} /\ batchHeader \in Cell /\ InOrder(dataFiles)
    BY DEF DataInv, MemoryOK
<1>5. CASE /\ rfd # None /\ rfd < Len(Content(curReadfile))
           /\ batchHeader' = Content(curReadfile)[rfd + 1]
           /\ rfd' = rfd + 1 /\ Goto(p, "g_len")
    <2>1. rfd \in Nat
        BY <1>4, <1>5
    <2>2. PICK s \in Seq(Cell) : s = Content(curReadfile)
        BY ContentType DEF DataInv
    <2>3. batchHeader' \in Cell
        BY SMTT(30), <1>5, <2>1, <2>2
    <2>4. rfd' \in Nat /\ rfd' >= 1
        BY SMTT(30), <1>5, <2>1
    <2>5. MemoryOK'
        BY <1>2, <2>3, <2>4 DEF DataInv, MemoryOK, index, writer
    <2> QED
        BY Zenon, <1>1, <1>2, <1>3, <1>4, <1>5, <2>4, <2>5, LocalFacts, ReaderStep
        DEF hist, index, disk
<1>6. CASE UNCHANGED <<batchHeader, rfd>> /\ Switch(p)
    <2>1. MemoryOK'
        BY <1>2, <1>6, MemoryFrame DEF DataInv, index, reader
    <2>2. Goto(p, "n_remove") \/ Goto(p, "n_reset")
        BY <1>6 DEF Switch
    <2> QED
        BY ZenonT(30), <1>1, <1>2, <1>3, <1>4, <2>1, <2>2, LocalFacts, ReaderStep
        DEF hist, index, disk
<1> QED
    BY <1>5, <1>6 DEF GetHeader

\* Get: the length.
LEMMA GetLengthStep ==
    ASSUME ControlOK, LockInv, DataInv, NEW p \in Procs, GetLength(p)
    PROVE  DataInv'
<1>1. Reading(p)
    BY DEF GetLength, Reading, ReadPCs
<1>2. UNCHANGED <<disk, index, curReadfile, pos, writer, batchHeader, count, written,
                  delivered>>
    BY DEF GetLength
<1>3. DiskOK'
    BY <1>2, DiskFrame DEF DataInv
<1>4. rfd \in Nat \cup {None} /\ batchHeader \in Cell /\ InOrder(dataFiles)
    BY DEF DataInv, MemoryOK
<1>5. CASE Switch(p) /\ UNCHANGED <<rfd, loc, dropped>>
    <2>1. MemoryOK'
        BY <1>2, <1>5, MemoryFrame DEF DataInv, index, reader
    <2>2. Goto(p, "n_remove") \/ Goto(p, "n_reset")
        BY <1>5 DEF Switch
    <2> QED
        BY Zenon, <1>1, <1>2, <1>3, <1>4, <1>5, <2>1, <2>2, LocalFacts, ReaderStep
        DEF index, disk
<1>6. ASSUME NEW n \in Lengths(batchHeader),
             Set(p, [n |-> n, id |-> 0, hdr |-> batchHeader]), Goto(p, "g_data"),
             UNCHANGED <<rfd, dropped>>
      PROVE  DataInv'
    <2>1. n \in Nat
        BY <1>4, LengthsType
    <2>2. MemoryOK'
        BY <1>2, <1>6, MemoryFrame DEF DataInv, index, reader
    <2>3. [n |-> n, id |-> 0, hdr |-> batchHeader] \in [n : Nat, id : Nat, hdr : Cell]
        BY <1>4, <2>1
    <2>4. loc' \in [Procs -> [n : Nat, id : Nat, hdr : Cell]]
        <3>1. LocalOK
            BY DEF DataInv
        <3> QED
            BY <1>6, <2>3, <3>1, SetType, Zenon
    <2>5. rfd # None => rfd >= 1
        BY Zenon DEF GetLength, DataInv, ReadInv
    <2> QED
        BY Zenon, <1>1, <1>2, <1>3, <1>4, <1>6, <2>2, <2>4, <2>5, LocalFacts, ReaderStep
        DEF index, disk
<1>7. ASSUME NEW n \in Lengths(batchHeader),
             IF rfd = None THEN UNCHANGED <<rfd, dropped>>
             ELSE rfd' = SkipTo(n) /\ dropped' = dropped \cup {batchHeader.id},
             Goto(p, "idle"), UNCHANGED loc
      PROVE  DataInv'
    <2>1. n \in Nat
        BY <1>4, LengthsType
    <2>2. rfd' \in Nat \cup {None}
        BY SMTT(30), <1>4, <1>7, <2>1 DEF SkipTo
    <2>3. batchHeader.id \in Nat
        BY <1>4 DEF Cell
    <2>4. dropped' \subseteq Nat
        BY <1>7, <2>3, LocalFacts
    <2>5. MemoryOK'
        BY <1>2, <2>2 DEF DataInv, MemoryOK, index, writer
    <2> QED
        BY <1>1, <1>2, <1>3, <1>4, <1>7, <2>4, <2>5, LocalFacts, ReaderStep
        DEF index, disk
<1> QED
    BY Zenon, <1>5, <1>6, <1>7 DEF GetLength, Return

\* Get: the data.
LEMMA GetDataStep ==
    ASSUME ControlOK, LockInv, DataInv, NEW p \in Procs, GetData(p)
    PROVE  DataInv'
<1>1. Reading(p)
    BY DEF GetData, Reading, ReadPCs
<1>2. UNCHANGED <<disk, index, curReadfile, pos, writer, batchHeader, count, hist>>
    BY DEF GetData
<1>3. DiskOK'
    BY <1>2, DiskFrame DEF DataInv
<1>4. rfd \in Nat \cup {None} /\ InOrder(dataFiles)
    BY DEF DataInv, MemoryOK
<1>5. PICK n \in Nat, hdr \in Cell : n = loc[p].n /\ hdr = loc[p].hdr
    BY LocalType DEF DataInv
<1>6. PICK s \in Seq(Cell) : s = Content(curReadfile)
    BY ContentType DEF DataInv
<1>7. CASE /\ rfd # None /\ rfd + n <= Len(s)
           /\ rfd' = rfd + n
           /\ Set(p, [loc[p] EXCEPT !.id = Record(hdr, SubSeq(s, rfd + 1, rfd + n))])
           /\ Goto(p, "g_fn")
    <2> DEFINE r == [loc[p] EXCEPT !.id = Record(hdr, SubSeq(s, rfd + 1, rfd + n))]
    <2>1. rfd \in Nat /\ rfd >= 1
        BY <1>4, <1>7 DEF GetData, DataInv, ReadInv
    <2>2. Record(hdr, SubSeq(s, rfd + 1, rfd + n)) \in Nat
        BY RecordType
    <2>3. r \in [n : Nat, id : Nat, hdr : Cell] /\ r.n = n
        BY Zenon, <1>5, <2>2, LocalFacts
    <2>4. loc' \in [Procs -> [n : Nat, id : Nat, hdr : Cell]] /\ loc'[p].n = n
        BY ZenonT(30), <1>7, <2>3, SetType DEF DataInv
    <2>5. rfd' \in Nat /\ rfd' >= n + 1
        BY SMTT(30), <1>7, <2>1
    <2>6. MemoryOK'
        BY <1>2, <2>5 DEF DataInv, MemoryOK, index, writer
    <2> QED
        BY Zenon, <1>1, <1>2, <1>3, <1>4, <1>7, <2>4, <2>5, <2>6, LocalFacts, ReaderStep
        DEF index, disk, hist
<1>8. CASE /\ rfd' = IF rfd = None \/ rfd >= Len(s) THEN rfd ELSE Len(s)
           /\ Goto(p, "idle") /\ UNCHANGED loc
    <2>1. rfd' \in Nat \cup {None}
        BY SMTT(30), <1>4, <1>6, <1>8
    <2>2. MemoryOK'
        BY <1>2, <2>1 DEF DataInv, MemoryOK, index, writer
    <2> QED
        BY Zenon, <1>1, <1>2, <1>3, <1>4, <1>8, <2>2, LocalFacts, ReaderStep
        DEF index, disk, hist
<1> QED
    BY <1>5, <1>6, <1>7, <1>8 DEF GetData, Return

\* Get: the callback.
LEMMA GetFnStep ==
    ASSUME ControlOK, LockInv, DataInv, NEW p \in Procs, GetFn(p)
    PROVE  DataInv'
<1>1. Reading(p)
    BY DEF GetFn, Reading, ReadPCs
<1>2. UNCHANGED <<disk, index, curReadfile, pos, writer, batchHeader, loc, count, written>>
    BY DEF GetFn
<1>3. DiskOK'
    BY <1>2, DiskFrame DEF DataInv
<1>4. rfd \in Nat \cup {None} /\ InOrder(dataFiles)
    BY DEF DataInv, MemoryOK
<1>5. PICK n \in Nat, id \in Nat : n = loc[p].n /\ id = loc[p].id
    BY LocalType DEF DataInv
<1>6. Goto(p, "g_pos") \/ Goto(p, "idle")
    BY ZenonT(30) DEF GetFn, Return
<1>7. rfd' = rfd \/ rfd' = IF rfd = None THEN None ELSE rfd - (n + 1)
    BY <1>5 DEF GetFn, Fallback
<1>8. delivered' = delivered \/ delivered' = Append(delivered, id)
    BY <1>5 DEF GetFn
<1>9. dropped' = dropped \/ dropped' = dropped \cup {id}
    BY <1>5 DEF GetFn
<1>10. rfd # None => rfd >= n + 1
    BY Zenon, <1>5 DEF GetFn, DataInv, ReadInv
<1>11. rfd' \in Nat \cup {None}
    BY SMTT(30), <1>4, <1>7, <1>10
<1>12. delivered' \in Seq(Nat)
    <2>1. CASE delivered' = delivered
        BY <2>1, LocalFacts
    <2>2. CASE delivered' = Append(delivered, id)
        BY SMTT(30), <2>2, LocalFacts
    <2> QED
        BY <1>8, <2>1, <2>2
<1>13. dropped' \subseteq Nat
    BY <1>9, LocalFacts
<1>14. MemoryOK'
    BY <1>2, <1>11 DEF DataInv, MemoryOK, index, writer
<1> QED
    BY ZenonT(30), <1>1, <1>2, <1>3, <1>4, <1>6, <1>12, <1>13, <1>14, LocalFacts,
       ReaderStep
    DEF index, disk

\* Get: the position, in memory and on disk.
LEMMA PosSteps ==
    ASSUME ControlOK, LockInv, DataInv, NEW p \in Procs, GetPos(p) \/ GetDump(p)
    PROVE  DataInv'
<1>1. Reading(p)
    BY DEF GetPos, GetDump, Reading, ReadPCs
<1>2. UNCHANGED <<files, data, index, curReadfile, rfd, writer, batchHeader, loc, count,
                  hist>>
    BY DEF GetPos, GetDump, reader
<1>3. PICK n \in Nat : n = loc[p].n
    BY LocalType DEF DataInv
<1>4. Goto(p, "g_dump") \/ Goto(p, "idle")
    BY DEF GetPos, GetDump, Return
<1>5. pos' = pos \/ pos' = [pos EXCEPT !.seek = pos.seek + n + 1]
    BY <1>3 DEF GetPos, GetDump, Advance, reader
<1>6. posFile' = posFile \/ posFile' = None \/ (pos.name # None /\ posFile' = pos)
    BY DEF GetPos, GetDump
<1>7. /\ pos \in [name : Nat \cup {None}, seek : Int]
      /\ pos.name # None => pos.seek \in Nat
      /\ InOrder(dataFiles)
    BY DEF DataInv, MemoryOK
<1>8. posFile' \in Position \cup {None}
    BY <1>6, <1>7 DEF DataInv, DiskOK, Position
<1>9. DiskOK'
    BY <1>2, <1>8 DEF DataInv, DiskOK
<1>10. /\ pos' \in [name : Nat \cup {None}, seek : Int]
       /\ pos'.name # None => pos'.seek \in Nat
    BY SMTT(30), <1>5, <1>7
<1>11. MemoryOK'
    BY <1>2, <1>10 DEF DataInv, MemoryOK, index, writer
<1> QED
    BY Zenon, <1>1, <1>2, <1>4, <1>7, <1>9, <1>11, LocalFacts, ReaderStep
    DEF index, hist

\* Close and kill leave disk and memory, except the descriptors.
LEMMA EndSteps ==
    ASSUME ControlOK, DataInv, Kill \/ \E p \in Procs : CloseFinish(p)
    PROVE  DataInv'
<1>1. UNCHANGED <<disk, index, curReadfile, pos, curBatchSize, batchHeader, loc, count,
                  hist>>
    BY DEF Kill, CloseFinish
<1>2. rfd' = None /\ wfd' = FALSE
    BY DEF Kill, CloseFinish
<1>3. \A p \in Procs : pc'[p] = "idle" \/ pc'[p] = pc[p]
    BY DEF Kill, CloseFinish, Goto, ControlOK
<1>4. DiskOK' /\ LocalOK'
    BY <1>1, DiskFrame, LocalFrame DEF DataInv
<1>5. MemoryOK'
    BY Zenon, <1>1, <1>2 DEF DataInv, MemoryOK, index
<1>6. ReadInv'
    BY <1>2 DEF ReadInv
<1>7. WriteInv'
    BY Zenon, <1>1, <1>3 DEF DataInv, WriteInv, disk
<1> QED
    BY <1>1, <1>4, <1>5, <1>6, <1>7 DEF DataInv, index

\* Open builds an instance from what the directory holds.
LEMMA OpenStep ==
    ASSUME ControlOK, LockInv, DataInv, Open
    PROVE  DataInv'
<1>1. UNCHANGED <<files, data, pc, nxt, hist>>
    BY DEF Open
<1>2. \A p \in Procs : pc'[p] = "idle"
    BY Zenon, <1>1, ConstantsAssumption DEF Open, LockInv
<1>3. dataFiles' \in Seq(Nat) /\ InOrder(dataFiles')
    BY SortedType DEF Open, DataInv, DiskOK
<1>4. posFile' = posFile \/ posFile' = None
    BY DEF Open
<1>5. DiskOK'
    BY <1>1, <1>4 DEF DataInv, DiskOK
<1>6. \/ /\ posFile \in Position
         /\ curReadfile' = posFile.name /\ rfd' = posFile.seek /\ pos' = posFile
      \/ /\ curReadfile' = None /\ rfd' = None
         /\ \/ pos' = [name |-> None, seek |-> -1]
            \/ pos' = [name |-> None, seek |-> 0]
    BY DEF Open, DataInv, DiskOK
<1>7. /\ curReadfile' \in Nat \cup {None} /\ rfd' \in Nat \cup {None}
      /\ pos' \in [name : Nat \cup {None}, seek : Int]
      /\ pos'.name # None => pos'.seek \in Nat
    BY SMTT(30), <1>6 DEF Position
<1>8. wfd' = TRUE /\ curBatchSize' = Len(data) /\ batchHeader' \in Cell
    BY CellFacts DEF Open
<1>9. curBatchSize' \in Nat
    BY SMTT(30), <1>8 DEF DataInv, DiskOK
<1>10. MemoryOK'
    BY <1>3, <1>7, <1>8, <1>9 DEF MemoryOK
<1>11. loc' \in [Procs -> [n : Nat, id : Nat, hdr : Cell]]
    BY CellFacts DEF Open
<1>12. LocalOK'
    BY SMTT(30), <1>1, <1>11 DEF Open, DataInv, LocalOK, hist
<1>13. ReadInv' /\ WriteInv'
    BY SMTT(30), <1>1, <1>2, <1>8, <1>9 DEF ReadInv, WriteInv
<1> QED
    BY <1>3, <1>5, <1>10, <1>12, <1>13 DEF DataInv

\* The list of files changes under rwlock, or before any call of an instance.
LEMMA OpenInvKept ==
    ASSUME ControlOK, LockInv, OpenInv, [Next]_vars
    PROVE  OpenInv'
<1>1. ASSUME NEW p \in Procs, NEW l, Goto(p, l), l # "n_open", UNCHANGED dataFiles
      PROVE  OpenInv'
    BY <1>1 DEF ControlOK, OpenInv, Goto
<1>2. ASSUME NEW p \in Procs, NEW l, Goto(p, l), l # "n_open", rwlock = p \/ rwlock = None
      PROVE  OpenInv'
    BY <1>2, ConstantsAssumption
    DEF ControlOK, LockInv, Indexing, OpenInv, Goto
<1>3. ASSUME NEW p \in Procs,
             \/ PutStart(p) \/ PutLock(p) \/ PutSize(p) \/ PutHeader(p) \/ PutData(p)
             \/ StreamStart(p) \/ StreamLock(p) \/ StreamHeader(p) \/ StreamWrite(p)
             \/ StreamCopy(p) \/ RotateStart(p) \/ RotateLock(p) \/ RotateEOF(p)
      PROVE  OpenInv'
    <2>1. UNCHANGED dataFiles
        BY ZenonT(30), <1>3
        DEF PutStart, PutLock, PutSize, PutHeader, PutData, StreamStart, StreamLock,
           StreamHeader, StreamWrite, StreamCopy, RotateStart, RotateLock, RotateEOF,
           Enter, index
    <2>2. \E l \in PCs \ {"n_open"} : Goto(p, l)
        BY ZenonT(30), <1>3
        DEF PutStart, PutLock, PutSize, PutHeader, PutData, StreamStart, StreamLock,
           StreamHeader, StreamWrite, StreamCopy, RotateStart, RotateLock, RotateEOF,
           Enter, EnsureFails, AfterWrite, Return, PCs, WritePCs, ReadPCs, WaitPCs
    <2> QED
        BY <1>1, <2>1, <2>2
<1>4. ASSUME NEW p \in Procs,
             \/ GetStart(p) \/ GetLock(p) \/ GetWake(p) \/ GetNoWake(p) \/ GetOpen(p)
             \/ NextOpen(p) \/ GetRetry(p) \/ GetHeader(p) \/ GetLength(p) \/ GetData(p)
             \/ GetFn(p) \/ GetPos(p) \/ GetDump(p) \/ CloseStart(p) \/ CloseFinish(p)
      PROVE  OpenInv'
    <2>1. UNCHANGED dataFiles
        BY ZenonT(30), <1>4
        DEF GetStart, GetLock, GetWake, GetNoWake, GetOpen, NextOpen, GetRetry,
           GetHeader, GetLength, GetData, GetFn, GetPos, GetDump, CloseStart, CloseFinish,
           Enter, index
    <2>2. \E l \in PCs \ {"n_open"} : Goto(p, l)
        BY ZenonT(30), <1>4
        DEF GetStart, GetLock, GetWake, GetNoWake, GetOpen, NextOpen, GetRetry,
           GetHeader, GetLength, GetData, GetFn, GetPos, GetDump, CloseStart, CloseFinish,
           Enter, Switch, Return, PCs, WritePCs, ReadPCs, WaitPCs
    <2> QED
        BY <1>1, <2>1, <2>2
<1>5. ASSUME NEW p \in Procs, PutDrop(p) \/ NextRemove(p) PROVE OpenInv'
    BY ZenonT(30), <1>2, <1>5 DEF PutDrop, NextRemove, Return
<1>6. ASSUME NEW p \in Procs, RotateRename(p) PROVE OpenInv'
    BY Zenon, <1>2, <1>6 DEF RotateRename, AfterRotate, Return, LockInv, Indexing
<1>7. ASSUME NEW p \in Procs, NextReset(p) PROVE OpenInv'
    BY <1>7 DEF NextReset, Goto, ControlOK, OpenInv, index
<1>8. CASE Kill
    BY <1>8 DEF Kill, OpenInv
<1>9. CASE Open
    BY ZenonT(30), <1>9, ConstantsAssumption DEF Open, OpenInv, LockInv
<1>10. CASE UNCHANGED vars
    BY <1>10 DEF OpenInv, vars, index
<1> QED
    BY <1>3, <1>4, <1>5, <1>6, <1>7, <1>8, <1>9, <1>10 DEF Next, Step

\* Every step keeps the types.
LEMMA DataKept ==
    ASSUME ControlOK, LockInv, OpenInv, DataInv, [Next]_vars
    PROVE  DataInv'
<1>1. CASE UNCHANGED vars
    BY Zenon, <1>1
    DEF vars, disk, index, reader, writer, count, hist, DataInv, DiskOK, MemoryOK,
       LocalOK, ReadInv, WriteInv
<1>2. ASSUME NEW p \in Procs, Step(p) PROVE DataInv'
    <2>1. CASE PutDrop(p) \/ PutHeader(p) \/ PutData(p) \/ StreamLock(p) \/ StreamHeader(p)
               \/ StreamWrite(p) \/ StreamCopy(p) \/ RotateEOF(p) \/ RotateRename(p)
        BY <2>1, PutDropStep, PutHeaderStep, DataSteps, StreamLockStep,
           StreamHeaderSteps,
           RotateEOFStep, RotateRenameStep, Zenon
    <2>2. CASE NextRemove(p) \/ NextReset(p) \/ NextOpen(p) \/ GetHeader(p) \/ GetLength(p)
               \/ GetData(p) \/ GetFn(p) \/ GetPos(p) \/ GetDump(p)
        BY <2>2, NextRemoveStep, NextSteps, GetHeaderStep, GetLengthStep, GetDataStep,
           GetFnStep, PosSteps, Zenon
    <2>3. CASE CloseFinish(p)
        BY <2>3, EndSteps
    <2> QED
        BY <1>2, <2>1, <2>2, <2>3, QuietSteps, StartSteps, ZenonT(30) DEF Step
<1>3. CASE Kill \/ Open
    BY <1>3, EndSteps, OpenStep
<1> QED
    BY <1>1, <1>2, <1>3, Zenon DEF Next

\* The types, for any goroutines, options, record lengths and faults; with them
\* the order of the list of files, and that a failed rename never extends the
\* write file and a failed callback never seeks before the file's start.
THEOREM Types == Spec => [](TypeOK /\ DataInv /\ OpenInv)
<1>1. Init => DataInv /\ OpenInv
    <2> SUFFICES ASSUME Init PROVE DataInv /\ OpenInv
        OBVIOUS
    <2>1. DiskOK
        BY SMTT(30), FS_EmptySet DEF Init, DiskOK
    <2>2. MemoryOK
        BY SMTT(30), CellFacts DEF Init, MemoryOK
    <2>3. LocalOK
        BY SMTT(30), CellFacts DEF Init, LocalOK
    <2>4. ReadInv /\ WriteInv /\ OpenInv /\ InOrder(dataFiles)
        BY SMT DEF Init, ReadInv, WriteInv, OpenInv, InOrder
    <2> QED
        BY <2>1, <2>2, <2>3, <2>4 DEF DataInv
<1>2. ControlOK /\ LockInv /\ DataInv /\ OpenInv /\ [Next]_vars => (DataInv /\ OpenInv)'
    BY DataKept, OpenInvKept
<1>3. ControlOK /\ DataInv => TypeOK
    BY DEF DataInv, TypeOK
<1> QED
    BY <1>1, <1>2, <1>3, Locks, PTL DEF Spec

-----------------------------------------------------------------------------
(* Lists *)

\* The names of a list after one is appended.
LEMMA RangeAppend ==
    ASSUME NEW s \in Seq(Nat), NEW n \in Nat
    PROVE  Range(Append(s, n)) = Range(s) \cup {n}
<1>1. DOMAIN s = 1..Len(s) /\ DOMAIN Append(s, n) = 1..Len(s) + 1
    BY SMT
<1>2. \A i \in 1..Len(s) : Append(s, n)[i] = s[i]
    BY SMT
<1>3. Append(s, n)[Len(s) + 1] = n
    BY SMT
<1>4. Range(Append(s, n)) \subseteq Range(s) \cup {n}
    BY SMT, <1>1, <1>2, <1>3 DEF Range
<1>5. Range(s) \cup {n} \subseteq Range(Append(s, n))
    BY SMT, <1>1, <1>2, <1>3 DEF Range
<1> QED
    BY <1>4, <1>5

\* The names of a list without its first one.
LEMMA RangeTail ==
    ASSUME NEW s \in Seq(Nat), InOrder(s), s # <<>>
    PROVE  Range(Tail(s)) = Range(s) \ {Head(s)}
<1>1. DOMAIN s = 1..Len(s) /\ DOMAIN Tail(s) = 1..Len(s) - 1 /\ Len(s) \in Nat \ {0}
    BY SMT
<1>2. \A i \in 1..Len(s) - 1 : Tail(s)[i] = s[i + 1]
    BY SMT
<1>3. Head(s) = s[1]
    BY SMT
<1>4. \A i \in 2..Len(s) : s[1] < s[i] /\ s[i] # s[1]
    BY SMT, <1>1 DEF InOrder
<1>5. Range(Tail(s)) \subseteq Range(s) \ {Head(s)}
    <2> SUFFICES ASSUME NEW i \in 1..Len(s) - 1 PROVE Tail(s)[i] \in Range(s) \ {Head(s)}
        BY <1>1 DEF Range
    <2>1. i + 1 \in 2..Len(s) /\ i + 1 \in DOMAIN s
        BY SMT, <1>1
    <2> QED
        BY <1>2, <1>3, <1>4, <2>1 DEF Range
<1>6. Range(s) \ {Head(s)} \subseteq Range(Tail(s))
    <2> SUFFICES ASSUME NEW i \in 1..Len(s), s[i] # Head(s) PROVE s[i] \in Range(Tail(s))
        BY <1>1 DEF Range
    <2>1. i - 1 \in 1..Len(s) - 1
        BY SMT, <1>1, <1>3
    <2>2. s[i] = Tail(s)[i - 1]
        BY SMT, <1>2, <2>1
    <2> QED
        BY Zenon, <1>1, <2>1, <2>2 DEF Range
<1> QED
    BY <1>5, <1>6

\* The first name is a name, and no name is smaller.
LEMMA HeadSmallest ==
    ASSUME NEW s \in Seq(Nat), InOrder(s), s # <<>>
    PROVE  Head(s) \in Range(s) /\ \A x \in Range(s) : Head(s) <= x
<1>1. DOMAIN s = 1..Len(s) /\ 1 \in 1..Len(s) /\ Head(s) = s[1]
    BY SMT
<1>2. \A i \in 1..Len(s) : s[1] <= s[i]
    BY SMT DEF InOrder
<1> QED
    BY <1>1, <1>2 DEF Range

\* Two lists of the same names in order begin with the same name: what Open
\* lists begins with the file that was read before.
LEMMA SameHead ==
    ASSUME NEW s \in Seq(Nat), NEW t \in Seq(Nat), InOrder(s), InOrder(t),
           Range(s) = Range(t), s # <<>>
    PROVE  t # <<>> /\ Head(t) = Head(s)
<1>1. Head(s) \in Range(t)
    BY HeadSmallest
<1>2. t # <<>>
    BY SMT, <1>1 DEF Range
<1>3. Head(t) \in Nat /\ Head(s) \in Nat
    BY SMT, <1>2
<1>4. Head(t) <= Head(s) /\ Head(s) <= Head(t)
    BY <1>1, <1>2, HeadSmallest
<1> QED
    BY SMT, <1>2, <1>3, <1>4

=============================================================================
