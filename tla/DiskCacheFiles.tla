--------------------------- MODULE DiskCacheFiles ---------------------------
(***************************************************************************)
(* The list of files agrees with the directory, no rotated file is ever    *)
(* replaced, and .pos points between two records of the file it names: for *)
(* every cache that does not drop files to make room and is not killed     *)
(* between removing a file and resetting .pos.  Within one run of such a   *)
(* cache, the capacity is exceeded by no more than the newest file.        *)
(***************************************************************************)
EXTENDS DiskCacheContent

\* A leaf is first-order reasoning unless it names another prover.
USE Zenon

\* The options under which no Put drops a file (dropBatch), and the one place
\* where a kill leaves .pos with the name of a file that is gone.
NoDrop == (Capacity = 0 \/ ~DropOld) /\ "n_reset" \notin KillAt

Listed == ControlOK /\ LockInv /\ DataInv /\ OpenInv /\ ListInv

-----------------------------------------------------------------------------
(* Steps *)

listed == <<files, dataFiles, curReadfile, posFile, pos>>

\* A step that leaves files, list and position alone and begins no switch.
LEMMA ListFrame ==
    ASSUME ControlOK, ListInv, NEW p \in Procs, NEW l, Goto(p, l), pc[p] # "n_reset",
           l \notin {"p_drop", "n_remove", "n_reset", "n_open"}, UNCHANGED listed
    PROVE  ListInv'
<1>1. \A q \in Procs : pc'[q] = IF q = p THEN l ELSE pc[q]
    BY DEF ControlOK, Goto
<1>2. ListsDisk' /\ ReadsHead'
    BY DEF ListInv, ListsDisk, ReadsHead, listed
<1>3. SwitchOK'
    BY <1>1 DEF ListInv, SwitchOK, listed
<1>4. PosNamed'
    BY <1>1 DEF ListInv, PosNamed, listed
<1> QED
    BY <1>2, <1>3, <1>4 DEF ListInv

\* A step that begins to switch to the next file.
LEMMA SwitchFrame ==
    ASSUME ControlOK, ListInv, NEW p \in Procs, Switch(p), pc[p] # "n_reset",
           UNCHANGED listed
    PROVE  ListInv'
<1>1. PICK l : /\ l = IF curReadfile # None THEN "n_remove" ELSE "n_reset"
               /\ \A q \in Procs : pc'[q] = IF q = p THEN l ELSE pc[q]
    BY DEF ControlOK, Goto, Switch
<1>2. ListsDisk' /\ ReadsHead'
    BY DEF ListInv, ListsDisk, ReadsHead, listed
<1>3. SwitchOK'
    BY <1>1 DEF ListInv, SwitchOK, listed
<1>4. PosNamed'
    BY <1>1 DEF ListInv, PosNamed, listed
<1> QED
    BY <1>2, <1>3, <1>4 DEF ListInv

\* The steps of Put, StreamPut, Rotate and Close.  Without drop, PutLock never
\* goes on to dropBatch.
LEMMA WriterListSteps ==
    ASSUME NoDrop, Listed, NEW p \in Procs,
           \/ PutStart(p) \/ PutLock(p) \/ PutSize(p) \/ PutHeader(p) \/ PutData(p)
           \/ StreamStart(p) \/ StreamLock(p) \/ StreamHeader(p) \/ StreamWrite(p)
           \/ StreamCopy(p) \/ RotateStart(p) \/ RotateLock(p) \/ RotateEOF(p)
           \/ CloseStart(p) \/ CloseFinish(p)
    PROVE  ListInv'
<1>1. UNCHANGED listed
    BY ZenonT(30)
    DEF PutStart, PutLock, PutSize, PutHeader, PutData, StreamStart, StreamLock,
       StreamHeader, StreamWrite, StreamCopy, RotateStart, RotateLock, RotateEOF,
       CloseStart, CloseFinish, Enter, disk, index, reader, listed
<1>2. pc[p] # "n_reset"
    BY ZenonT(30)
    DEF PutStart, PutLock, PutSize, PutHeader, PutData, StreamStart, StreamLock,
       StreamHeader, StreamWrite, StreamCopy, RotateStart, RotateLock, RotateEOF,
       CloseStart, CloseFinish, Enter
<1>3. ~PutLock(p) => \E l \in PCs \ {"p_drop", "n_remove", "n_reset", "n_open"} : Goto(p, l)
    BY Zenon DEF PutStart, PutSize, PutHeader, PutData, StreamStart, StreamLock,
       StreamHeader, StreamWrite, StreamCopy, RotateStart, RotateLock, RotateEOF,
       CloseStart, CloseFinish, Enter, EnsureFails, AfterWrite, Return,
       PCs, WritePCs, ReadPCs, WaitPCs
<1>4. PutLock(p) => Goto(p, "p_size") \/ Goto(p, "idle")
    BY SMT, ConstantsAssumption DEF PutLock, IsFull, NoDrop, Return
<1> QED
    BY <1>1, <1>2, <1>3, <1>4, ListFrame DEF Listed

\* The steps of Get that leave the list alone.
LEMMA ReaderListSteps ==
    ASSUME Listed, NEW p \in Procs,
           \/ GetStart(p) \/ GetLock(p) \/ GetWake(p) \/ GetNoWake(p) \/ GetOpen(p)
           \/ GetRetry(p) \/ GetHeader(p) \/ GetLength(p) \/ GetData(p) \/ GetFn(p)
    PROVE  ListInv'
<1>1. UNCHANGED listed
    BY DEF GetStart, GetLock, GetWake, GetNoWake, GetOpen, GetRetry, GetHeader, GetLength,
       GetData, GetFn, Enter, disk, index, reader, listed
<1>2. pc[p] # "n_reset"
    BY DEF GetStart, GetLock, GetWake, GetNoWake, GetOpen, GetRetry, GetHeader, GetLength,
       GetData, GetFn, Enter
<1>3. \/ Switch(p)
      \/ \E l \in PCs \ {"p_drop", "n_remove", "n_reset", "n_open"} : Goto(p, l)
    BY Zenon
    DEF GetStart, GetLock, GetWake, GetNoWake, GetOpen, GetRetry, GetHeader, GetLength,
       GetData, GetFn, Enter, Return, PCs, WritePCs, ReadPCs, WaitPCs
<1> QED
    BY <1>1, <1>2, <1>3, ListFrame, SwitchFrame DEF Listed

\* rotate: the new file gets a number that no file has, at the end of the list.
LEMMA RenameListStep ==
    ASSUME Listed, NEW p \in Procs, RotateRename(p)
    PROVE  /\ ListInv'
           /\ \A f \in DOMAIN files \cap DOMAIN files' : files'[f] = files[f]
<1>1. Goto(p, "idle") \/ Goto(p, "g_open")
    BY Zenon DEF RotateRename, AfterRotate, Return
<1>2. pc[p] = "r_ren" /\ UNCHANGED <<posFile, curReadfile, pos>>
    BY DEF RotateRename, reader
<1>3. CASE UNCHANGED <<files, index>>
    BY <1>1, <1>2, <1>3, ListFrame DEF Listed, listed, index
<1>4. CASE /\ files' = AddFile(NewFile, data)
           /\ dataFiles' = SortNames(Append(dataFiles, NewFile))
    <2>1. /\ dataFiles \in Seq(Nat) /\ InOrder(dataFiles) /\ data \in Seq(Cell)
          /\ Range(dataFiles) = DOMAIN files
        BY DEF Listed, DataInv, MemoryOK, DiskOK, ListInv, ListsDisk
    <2>2. /\ NewFile \in Nat /\ InOrder(dataFiles')
          /\ dataFiles' = Append(dataFiles, NewFile)
          /\ \A i \in 1..Len(dataFiles) : dataFiles[i] < NewFile
        BY Zenon, <1>4, <2>1, RotatedInOrder
    <2>3. NewFile \notin DOMAIN files
        <3>1. \A i \in 1..Len(dataFiles) : dataFiles[i] # NewFile
            BY SMT, <2>1, <2>2
        <3> QED
            BY SMT, <2>1, <3>1 DEF Range
    <2>4. /\ DOMAIN files' = DOMAIN files \cup {NewFile}
          /\ \A f \in DOMAIN files' : files'[f] = IF f = NewFile THEN data ELSE files[f]
        BY Zenon, <1>4, <2>1, <2>2, AddFileType DEF Listed, DataInv
    <2>5. ListsDisk'
        BY <2>1, <2>2, <2>4, RangeAppend DEF ListsDisk
    <2>6. ReadsHead'
        <3>1. dataFiles # <<>> => Head(Append(dataFiles, NewFile)) = Head(dataFiles)
            BY SMT, <2>1, <2>2
        <3>2. Append(dataFiles, NewFile) # <<>>
            BY SMTT(30), <2>1, <2>2
        <3> QED
            BY <1>2, <2>2, <3>1, <3>2 DEF Listed, ListInv, ReadsHead
    <2>7. PICK l \in {"idle", "g_open"} :
              \A q \in Procs : pc'[q] = IF q = p THEN l ELSE pc[q]
        BY <1>1 DEF Listed, ControlOK, Goto
    <2>8. SwitchOK' /\ PosNamed'
        BY <1>2, <2>7 DEF Listed, ListInv, SwitchOK, PosNamed
    <2> QED
        BY <2>3, <2>4, <2>5, <2>6, <2>8 DEF ListInv
<1> QED
    BY Zenon, <1>3, <1>4 DEF RotateRename

\* switchNextFile: the head of the list goes with the file that was read.
LEMMA RemoveListStep ==
    ASSUME Listed, NEW p \in Procs, NextRemove(p)
    PROVE  ListInv'
<1>1. /\ pc[p] = "n_remove" /\ UNCHANGED <<posFile, pos>>
    BY DEF NextRemove
<1>2. CASE /\ files' = RemoveFile(curReadfile) /\ curReadfile' = None
           /\ dataFiles' = ListAfterRemove /\ Goto(p, "n_reset")
    <2>1. /\ dataFiles \in Seq(Nat) /\ InOrder(dataFiles) /\ Range(dataFiles) = DOMAIN files
          /\ dataFiles # <<>> /\ curReadfile = Head(dataFiles)
        BY <1>1 DEF Listed, DataInv, MemoryOK, ListInv, ListsDisk, ReadsHead, SwitchOK
    <2>2. dataFiles' = Tail(dataFiles)
        BY <1>2, <2>1 DEF ListAfterRemove
    <2>3. DOMAIN files' = DOMAIN files \ {curReadfile}
        BY ZenonT(30), <1>2, RemoveFileType DEF Listed, DataInv
    <2>4. ListsDisk'
        BY <2>1, <2>2, <2>3, RangeTail, TailInOrder DEF ListsDisk
    <2>5. ReadsHead'
        BY <1>2 DEF ReadsHead
    <2>6. \A q \in Procs : pc'[q] = IF q = p THEN "n_reset" ELSE pc[q]
        BY <1>2 DEF Listed, ControlOK, Goto
    <2>7. \A q \in Procs \ {p} : pc[q] # "n_remove"
        BY <1>1 DEF Listed, LockInv, Reading, ReadPCs
    <2>8. SwitchOK'
        BY <1>2, <2>6, <2>7 DEF Listed, ListInv, SwitchOK
    <2>9. PosNamed'
        BY <1>1, <2>6 DEF Listed, ListInv, PosNamed
    <2> QED
        BY <2>4, <2>5, <2>8, <2>9 DEF ListInv
<1>3. CASE UNCHANGED <<files, curReadfile, dataFiles>> /\ Return(p)
    BY <1>1, <1>3, ListFrame DEF Listed, listed, Return
<1> QED
    BY <1>2, <1>3 DEF NextRemove

\* switchNextFile: .pos and its copy forget the removed file.
LEMMA ResetListStep ==
    ASSUME Listed, NEW p \in Procs, NextReset(p)
    PROVE  ListInv'
<1>1. /\ pc[p] = "n_reset" /\ UNCHANGED <<files, dataFiles, curReadfile>>
    BY DEF NextReset, index
<1>2. posFile' = None /\ pos'.name = None
    BY SMT DEF NextReset, Listed, ListInv, PosNamed
<1>3. PICK l \in {"g_retry", "n_open"} :
          \A q \in Procs : pc'[q] = IF q = p THEN l ELSE pc[q]
    BY DEF NextReset, Listed, ControlOK, Goto
<1>4. ListsDisk' /\ ReadsHead'
    BY <1>1 DEF Listed, ListInv, ListsDisk, ReadsHead
<1>5. SwitchOK'
    BY <1>1, <1>3 DEF Listed, ListInv, SwitchOK
<1>6. PosNamed'
    BY <1>2 DEF PosNamed
<1> QED
    BY <1>4, <1>5, <1>6 DEF ListInv

\* switchNextFile: the first file of the list is opened.
LEMMA OpenListStep ==
    ASSUME Listed, NEW p \in Procs, NextOpen(p)
    PROVE  ListInv'
<1>1. pc[p] = "n_open" /\ UNCHANGED <<files, dataFiles>> /\ curReadfile' = Head(dataFiles)
    BY DEF NextOpen, index
<1>2. dataFiles # <<>> /\ curReadfile = None
    BY <1>1 DEF Listed, OpenInv, ListInv, SwitchOK
<1>3. PICK l \in {"g_retry", "idle"} :
          \A q \in Procs : pc'[q] = IF q = p THEN l ELSE pc[q]
    BY DEF NextOpen, Listed, ControlOK, Goto, Return
<1>4. \A q \in Procs \ {p} : pc[q] \notin ReadPCs
    BY <1>1 DEF Listed, LockInv, Reading, ReadPCs
<1>5. \A q \in Procs : pc[q] # "n_reset"
    BY <1>1, <1>4 DEF ReadPCs
<1>6. posFile = None /\ pos.name = None
    BY <1>2, <1>5, ConstantsAssumption
    DEF Listed, ListInv, PosNamed, DataInv, DiskOK, Position
<1>7. ListsDisk' /\ ReadsHead'
    BY <1>1, <1>2 DEF Listed, ListInv, ListsDisk, ReadsHead
<1>8. SwitchOK'
    BY <1>3, <1>4 DEF Listed, ListInv, SwitchOK, ReadPCs
<1>9. \/ UNCHANGED <<pos, posFile>>
      \/ /\ ~NoPos
         /\ pos' = [name |-> Head(dataFiles), seek |-> 0]
         /\ posFile' = [name |-> Head(dataFiles), seek |-> 0]
    BY DEF NextOpen
<1>10. PosNamed'
    BY SMT, <1>1, <1>6, <1>9 DEF PosNamed
<1> QED
    BY <1>7, <1>8, <1>10 DEF ListInv

\* Get: the position keeps its name.
LEMMA PosListSteps ==
    ASSUME Listed, NEW p \in Procs, GetPos(p) \/ GetDump(p)
    PROVE  ListInv'
<1>1. pc[p] \in {"g_pos", "g_dump"} /\ UNCHANGED <<files, dataFiles, curReadfile>>
    BY DEF GetPos, GetDump, index, reader
<1>2. PICK l \in {"g_dump", "idle"} :
          \A q \in Procs : pc'[q] = IF q = p THEN l ELSE pc[q]
    BY DEF GetPos, GetDump, Listed, ControlOK, Goto, Return
<1>3. pos'.name = pos.name
    BY DEF GetPos, GetDump, reader, Listed, DataInv, MemoryOK
<1>4. posFile' = posFile \/ posFile' = None \/ (pos.name # None /\ posFile' = pos)
    BY DEF GetPos, GetDump
<1>5. ListsDisk' /\ ReadsHead' /\ SwitchOK'
    BY <1>1, <1>2 DEF Listed, ListInv, ListsDisk, ReadsHead, SwitchOK
<1>6. PosNamed'
    BY <1>1, <1>2, <1>3, <1>4 DEF Listed, ListInv, PosNamed
<1> QED
    BY <1>5, <1>6 DEF ListInv

\* The process is killed, but not between removal and reset.
LEMMA KillListStep ==
    ASSUME NoDrop, Listed, Kill
    PROVE  ListInv'
<1>1. UNCHANGED listed
    BY DEF Kill, disk, index, listed
<1>2. \A p \in Procs : pc[p] # "n_reset" /\ pc'[p] = "idle"
    BY DEF Kill, NoDrop
<1>3. ListsDisk' /\ ReadsHead' /\ SwitchOK'
    BY <1>1, <1>2 DEF Listed, ListInv, ListsDisk, ReadsHead, SwitchOK, listed
<1>4. PosNamed'
    BY <1>1, <1>2 DEF Listed, ListInv, PosNamed, listed
<1> QED
    BY <1>3, <1>4 DEF ListInv

\* Open: the listing begins with the file that .pos names.
LEMMA ReopenListStep ==
    ASSUME Listed, Open
    PROVE  ListInv'
<1>1. files' = files /\ pc' = pc
    BY DEF Open
<1>2. \A p \in Procs : pc[p] = "idle"
    BY ConstantsAssumption DEF Open, Listed, LockInv
<1>3. /\ dataFiles' \in Seq(Nat) /\ InOrder(dataFiles') /\ Range(dataFiles') = DOMAIN files
    BY SortedType DEF Open, Listed, DataInv, DiskOK
<1>4. ListsDisk'
    BY <1>1, <1>3 DEF ListsDisk
<1>5. SwitchOK'
    BY <1>1, <1>2 DEF SwitchOK
<1>6. CASE ~NoPos /\ posFile # None /\ posFile.name \in DOMAIN files
    <2>1. curReadfile' = posFile.name /\ pos' = posFile /\ posFile' = posFile
        BY <1>6 DEF Open
    <2>2. posFile.name = curReadfile
        BY <1>2, <1>6 DEF Listed, ListInv, PosNamed
    <2>3. curReadfile # None
        BY <1>6, <2>2, ConstantsAssumption DEF Listed, DataInv, DiskOK
    <2>4. /\ dataFiles \in Seq(Nat) /\ InOrder(dataFiles) /\ Range(dataFiles) = DOMAIN files
          /\ dataFiles # <<>> /\ curReadfile = Head(dataFiles)
        BY <2>3 DEF Listed, DataInv, MemoryOK, ListInv, ListsDisk, ReadsHead
    <2>5. dataFiles' # <<>> /\ Head(dataFiles') = Head(dataFiles)
        BY <1>3, <2>4, SameHead
    <2>6. ReadsHead' /\ PosNamed'
        BY <1>6, <2>1, <2>2, <2>4, <2>5 DEF ReadsHead, PosNamed
    <2> QED
        BY <1>4, <1>5, <2>6 DEF ListInv
<1>7. CASE ~(~NoPos /\ posFile # None /\ posFile.name \in DOMAIN files)
    <2>1. curReadfile' = None /\ pos'.name = None /\ posFile' = None
        BY SMT, <1>7 DEF Open, Listed, ListInv, PosNamed
    <2>2. ReadsHead' /\ PosNamed'
        BY <2>1 DEF ReadsHead, PosNamed
    <2> QED
        BY <1>4, <1>5, <2>2 DEF ListInv
<1> QED
    BY <1>6, <1>7

\* Every step keeps list, directory, reader and .pos in agreement.
LEMMA ListInvKept ==
    ASSUME NoDrop, Listed, [Next]_vars
    PROVE  ListInv'
<1>1. CASE UNCHANGED vars
    BY <1>1
    DEF vars, disk, index, reader, Listed, ListInv, ListsDisk, ReadsHead, SwitchOK,
       PosNamed
<1>2. ASSUME NEW p \in Procs, Step(p) PROVE ListInv'
    <2>1. CASE PutDrop(p)
        BY <2>1 DEF PutDrop, Listed, ListInv, SwitchOK
    <2>2. CASE RotateRename(p)
        BY <2>2, RenameListStep
    <2>3. CASE NextRemove(p) \/ NextReset(p) \/ NextOpen(p) \/ GetPos(p) \/ GetDump(p)
        BY <2>3, RemoveListStep, ResetListStep, OpenListStep, PosListSteps
    <2> QED
        BY <1>2, <2>1, <2>2, <2>3, WriterListSteps, ReaderListSteps DEF Step
<1> QED
    BY <1>1, <1>2, KillListStep, ReopenListStep DEF Next

-----------------------------------------------------------------------------
(* Theorems *)

\* The invariants together.
LEMMA AlwaysListed == NoDrop /\ Spec => []Listed
<1>1. Init => ListInv
    BY SMT DEF Init, ListInv, ListsDisk, ReadsHead, SwitchOK, PosNamed, InOrder, Range
<1>2. NoDrop /\ Listed /\ [Next]_vars => (NoDrop /\ ListInv)'
    <2>1. NoDrop => NoDrop'
        BY DEF NoDrop
    <2> QED
        BY <2>1, ListInvKept
<1> QED
    BY <1>1, <1>2, Locks, Types, PTL DEF Spec, Listed

\* The list of files, the directory and the reader agree: what
\* removeCurrentReadingFile and rotate rely on.
THEOREM ListedFiles == NoDrop /\ Spec => []Tidy
<1>1. Listed => Tidy
    BY DEF Listed, ListInv, ListsDisk, ReadsHead, Tidy
<1> QED
    BY <1>1, AlwaysListed, PTL

\* Get reads the oldest file there is: a switch never skips one.
THEOREM ReadsFirst == NoDrop /\ Spec => []ReadsSmallest
<1>1. Listed => ReadsSmallest
    <2> SUFFICES ASSUME Listed, curReadfile # None
                 PROVE  \A f \in DOMAIN files : curReadfile <= f
        BY DEF ReadsSmallest
    <2>1. dataFiles \in Seq(Nat) /\ dataFiles # <<>> /\ InOrder(dataFiles)
        BY DEF Listed, DataInv, MemoryOK, ListInv, ReadsHead
    <2> QED
        BY <2>1, HeadSmallest DEF Listed, ListInv, ListsDisk, ReadsHead
<1> QED
    BY <1>1, AlwaysListed, PTL

\* os.Rename in rotate never replaces a file, and nothing writes a rotated one.
THEOREM RotatedFilesKept == NoDrop /\ Spec => NoOverwrite
<1> DEFINE Kept == \A f \in DOMAIN files \cap DOMAIN files' : files'[f] = files[f]
<1>1. Listed /\ [Next]_vars => [Kept]_vars
    <2> SUFFICES ASSUME Listed, Next PROVE Kept
        OBVIOUS
    <2>1. ASSUME NEW p \in Procs, PutDrop(p) \/ NextRemove(p) PROVE Kept
        BY ZenonT(30), <2>1, RemoveFileType
        DEF PutDrop, NextRemove, Listed, DataInv, index
    <2>2. ASSUME NEW p \in Procs,
                 \/ PutStart(p) \/ PutLock(p) \/ PutSize(p) \/ PutHeader(p) \/ PutData(p)
                 \/ StreamStart(p) \/ StreamLock(p) \/ StreamHeader(p) \/ StreamWrite(p)
                 \/ StreamCopy(p) \/ RotateStart(p) \/ RotateLock(p) \/ RotateEOF(p)
                 \/ CloseStart(p) \/ CloseFinish(p)
          PROVE  files' = files
        BY Zenon, <2>2
        DEF PutStart, PutLock, PutSize, PutHeader, PutData, StreamStart, StreamLock,
           StreamHeader, StreamWrite, StreamCopy, RotateStart, RotateLock, RotateEOF,
           CloseStart, CloseFinish, Enter, disk
    <2>3. ASSUME NEW p \in Procs,
                 \/ GetStart(p) \/ GetLock(p) \/ GetWake(p) \/ GetNoWake(p) \/ GetOpen(p)
                 \/ GetRetry(p) \/ GetHeader(p) \/ GetLength(p) \/ GetData(p) \/ GetFn(p)
                 \/ NextReset(p) \/ NextOpen(p) \/ GetPos(p) \/ GetDump(p)
          PROVE  files' = files
        BY Zenon, <2>3
        DEF GetStart, GetLock, GetWake, GetNoWake, GetOpen, GetRetry, GetHeader,
           GetLength, GetData, GetFn, NextReset, NextOpen, GetPos, GetDump, Enter, disk
    <2>4. CASE Kill \/ Open
        BY <2>4 DEF Kill, Open, disk
    <2> QED
        BY <2>1, <2>2, <2>3, <2>4, RenameListStep DEF Next, Step
<1> QED
    BY <1>1, AlwaysListed, PTL DEF Spec, NoOverwrite

-----------------------------------------------------------------------------
(* The capacity *)

\* There is a capacity, Rotate is not called (it may rotate an empty write file),
\* and the process is not restarted (Open counts the files anew).
Capped == Capacity > 0 /\ "Rotate" \notin Calls /\ MaxRestarts = 0

\* A step that leaves the rotated files alone.
LEMMA RoomFrame ==
    ASSUME ControlOK, RoomInv, NEW p \in Procs, NEW l, Goto(p, l), UNCHANGED <<files, index>>,
           data' # <<>> \/ l \in Begun => size <= Capacity,
           l # "x_lock", l = "r_eof" => data' # <<>>, l = "r_ren" => Len(data') > 1,
           data' = data \/ \A q \in Procs \ {p} : ~Writing(q)
    PROVE  RoomInv'
<1>1. \A q \in Procs : pc'[q] = IF q = p THEN l ELSE pc[q]
    BY DEF ControlOK, Goto
<1>2. UNCHANGED <<files, dataFiles, size>>
    BY DEF index
<1>3. size' \in Int /\ SizeBounded'
    BY <1>2 DEF RoomInv, SizeBounded, NewestLen, Content
<1>4. \A f \in DOMAIN files' : Len(files'[f]) > 1
    BY <1>2 DEF RoomInv
<1>5. \A q \in Procs \ {p} : pc[q] \in {"r_eof", "r_ren"} => data' = data
    BY DEF Writing, WritePCs
<1>6. \A q \in Procs : /\ pc'[q] # "x_lock"
                       /\ pc'[q] = "r_eof" => data' # <<>>
                       /\ pc'[q] = "r_ren" => Len(data') > 1
    BY <1>1, <1>5 DEF RoomInv
<1>7. (data' # <<>> \/ \E q \in Procs : pc'[q] \in Begun) => size' <= Capacity
    <2> SUFFICES ASSUME NEW q \in Procs, data' # <<>> \/ pc'[q] \in Begun
                 PROVE  size' <= Capacity
        OBVIOUS
    <2>1. CASE data' # <<>> \/ q = p
        BY <1>1, <1>2, <2>1
    <2>2. CASE q # p /\ pc'[q] \in Begun
        BY <1>1, <1>2, <2>2 DEF RoomInv
    <2> QED
        BY <2>1, <2>2
<1> QED
    BY <1>3, <1>4, <1>6, <1>7 DEF RoomInv

\* The steps that neither write nor check the capacity.
LEMMA QuietRoomSteps ==
    ASSUME Listed, RoomInv, NEW p \in Procs,
           \/ PutStart(p) \/ PutSize(p) \/ StreamStart(p) \/ StreamHeader(p)
           \/ GetStart(p) \/ GetLock(p) \/ GetNoWake(p) \/ GetOpen(p) \/ GetRetry(p)
           \/ GetHeader(p) \/ GetLength(p) \/ GetData(p) \/ GetFn(p) \/ GetPos(p) \/ GetDump(p)
           \/ NextReset(p) \/ NextOpen(p) \/ CloseStart(p) \/ CloseFinish(p)
    PROVE  RoomInv'
<1>1. UNCHANGED <<files, index, data>>
    BY ZenonT(30)
    DEF PutStart, PutSize, StreamStart, StreamHeader, GetStart, GetLock, GetNoWake, GetOpen,
       GetRetry, GetHeader, GetLength, GetData, GetFn, GetPos, GetDump, NextReset, NextOpen,
       CloseStart, CloseFinish, Enter, disk
<1>2. PICK l : /\ Goto(p, l) /\ l \notin {"x_lock", "r_eof", "r_ren"}
               /\ l \in Begun => pc[p] \in Begun
    <2>1. CASE PutStart(p) \/ PutSize(p) \/ StreamStart(p) \/ StreamHeader(p)
        <3>1. CASE PutStart(p) \/ StreamStart(p)
            <4>1. PICK l \in {"p_lock", "s_lock"} : Goto(p, l)
                BY <3>1 DEF PutStart, StreamStart, Enter
            <4> QED
                BY <4>1 DEF Begun
        <3>2. CASE PutSize(p) \/ StreamHeader(p)
            <4>1. PICK l \in {"p_hdr", "s_write", "idle"} : Goto(p, l)
                BY <3>2 DEF PutSize, StreamHeader, Return
            <4>2. pc[p] \in Begun
                BY <3>2 DEF PutSize, StreamHeader, Begun
            <4> QED
                BY <4>1, <4>2
        <3> QED
            BY <2>1, <3>1, <3>2
    <2>2. CASE \/ GetStart(p) \/ GetLock(p) \/ GetNoWake(p) \/ GetOpen(p) \/ GetRetry(p)
               \/ GetHeader(p) \/ GetLength(p) \/ GetData(p) \/ GetFn(p) \/ GetPos(p)
               \/ GetDump(p) \/ NextReset(p) \/ NextOpen(p) \/ CloseStart(p) \/ CloseFinish(p)
        <3>1. PICK l \in {"g_lock", "g_wake", "g_open", "g_retry", "g_hdr", "g_len", "g_data",
                          "g_fn", "g_pos", "g_dump", "n_remove", "n_reset", "n_open", "c_wait",
                          "idle"} : Goto(p, l)
            BY ZenonT(30), <2>2
            DEF GetStart, GetLock, GetNoWake, GetOpen, GetRetry, GetHeader, GetLength, GetData,
               GetFn, GetPos, GetDump, NextReset, NextOpen, CloseStart, CloseFinish, Enter,
               Return, Switch
        <3> QED
            BY <3>1 DEF Begun
    <2> QED
        BY <2>1, <2>2
<1>3. data # <<>> \/ l \in Begun => size <= Capacity
    BY <1>2 DEF RoomInv
<1> QED
    BY <1>1, <1>2, <1>3, RoomFrame DEF Listed

\* Put and StreamPut: what is let in fits.
LEMMA LockRoomSteps ==
    ASSUME NoDrop, Capped, Listed, RoomInv, NEW p \in Procs, PutLock(p) \/ StreamLock(p)
    PROVE  RoomInv'
<1>1. UNCHANGED <<files, index, data>>
    BY DEF PutLock, StreamLock, EnsureFails, disk
<1>2. loc[p].n \in Nat /\ size \in Int /\ Capacity \in Nat
    BY LocalType, ConstantsAssumption DEF Listed, DataInv, RoomInv
<1>3. ~IsFull(loc[p].n) => size <= Capacity
    BY SMT, <1>2 DEF IsFull, Capped
<1>4. ~DropOld
    BY SMT, <1>2 DEF NoDrop, Capped
<1>5. \/ Goto(p, "idle")
      \/ ~IsFull(loc[p].n) /\ (Goto(p, "p_size") \/ Goto(p, "s_hdr"))
    <2>1. CASE PutLock(p)
        BY <1>4, <2>1 DEF PutLock, Return
    <2>2. CASE StreamLock(p)
        BY <2>2 DEF StreamLock, EnsureFails, Return
    <2> QED
        BY <2>1, <2>2
<1>6. PICK l : Goto(p, l) /\ l \in {"idle", "p_size", "s_hdr"}
               /\ (l \in Begun => size <= Capacity)
    <2>1. "idle" \notin Begun
        BY DEF Begun
    <2>2. CASE Goto(p, "idle")
        BY <2>1, <2>2
    <2>3. CASE size <= Capacity /\ (Goto(p, "p_size") \/ Goto(p, "s_hdr"))
        BY <2>3
    <2> QED
        BY <1>3, <1>5, <2>2, <2>3
<1>7. data # <<>> => size <= Capacity
    BY DEF RoomInv
<1> QED
    BY <1>1, <1>6, <1>7, RoomFrame DEF Listed

\* Nobody writes but the owner of wlock.
LEMMA WritesAlone ==
    ASSUME LockInv, NEW p \in Procs, Writing(p)
    PROVE  \A q \in Procs \ {p} : ~Writing(q)
BY DEF LockInv

\* Put, StreamPut and rotate: the write file grows.
LEMMA WriteRoomSteps ==
    ASSUME Listed, RoomInv, NEW p \in Procs,
           \/ PutHeader(p) \/ StreamWrite(p) \/ PutData(p) \/ StreamCopy(p) \/ RotateEOF(p)
    PROVE  RoomInv'
<1>1. UNCHANGED <<files, index>>
    BY DEF PutHeader, StreamWrite, PutData, StreamCopy, RotateEOF
<1>2. Writing(p)
    BY DEF PutHeader, StreamWrite, PutData, StreamCopy, RotateEOF, Writing, WritePCs
<1>3. \A q \in Procs \ {p} : ~Writing(q)
    BY <1>2, WritesAlone DEF Listed
<1>4. size <= Capacity
    BY DEF PutHeader, StreamWrite, PutData, StreamCopy, RotateEOF, RoomInv, Begun
<1>5. CASE PutHeader(p) \/ StreamWrite(p)
    <2>1. PICK l \in {"p_data", "s_copy", "idle"} : Goto(p, l)
        BY <1>5 DEF PutHeader, StreamWrite, EnsureFails, Return
    <2> QED
        BY <1>1, <1>3, <1>4, <2>1, RoomFrame DEF Listed
<1>6. CASE PutData(p) \/ StreamCopy(p)
    <2>1. PICK l \in {"r_eof", "idle"} : Goto(p, l)
        BY <1>6 DEF PutData, StreamCopy, AfterWrite, Return
    <2>2. pc[p] \in {"p_data", "s_copy"} /\ data \in Seq(Cell) /\ curBatchSize \in Nat
        BY <1>6 DEF PutData, StreamCopy, Listed, DataInv, DiskOK, MemoryOK
    <2>3. data # <<>>
        BY SMT, <2>2 DEF Listed, DataInv, WriteInv
    <2>4. PICK k \in Nat : data' = data \o Payload(loc[p].id, loc[p].n, k)
        <3>1. loc[p].n \in Nat
            BY LocalType DEF Listed, DataInv
        <3>2. \A k \in 0..loc[p].n : k \in Nat
            BY SMT, <3>1
        <3> QED
            BY <1>6, <3>1, <3>2 DEF PutData, StreamCopy
    <2>5. Payload(loc[p].id, loc[p].n, k) \in Seq(Cell) /\ Len(Payload(loc[p].id, loc[p].n, k)) = k
        BY <2>4, LocalType, PayloadType, PayloadLen DEF Listed, DataInv
    <2>6. data' \in Seq(Cell) /\ Len(data') = Len(data) + k
        BY <2>2, <2>4, <2>5, ConcatType
    <2>7. data' # <<>>
        BY SMT, <2>2, <2>3, <2>4, <2>6
    <2> QED
        BY <1>1, <1>3, <1>4, <2>1, <2>7, RoomFrame DEF Listed
<1>7. CASE RotateEOF(p)
    <2>1. data \in Seq(Cell) /\ data # <<>>
        BY <1>7 DEF RotateEOF, RoomInv, Listed, DataInv, DiskOK
    <2>2. Len(WithEOF) > 1
        <3>1. EOF \in Cell
            BY CellFacts
        <3> QED
            BY SMT, <2>1, <3>1 DEF WithEOF
    <2>3. \/ Goto(p, "r_ren") /\ data' = WithEOF
          \/ Goto(p, "idle")
        BY <1>7 DEF RotateEOF, EnsureFails, Return
    <2>4. PICK l \in {"r_ren", "idle"} : Goto(p, l) /\ (l = "r_ren" => data' = WithEOF)
        BY <2>3
    <2> QED
        BY <1>1, <1>3, <1>4, <2>2, <2>4, RoomFrame DEF Listed
<1> QED
    BY <1>5, <1>6, <1>7

\* Get: the write file that is rotated is not empty.
LEMMA WakeRoomStep ==
    ASSUME Listed, RoomInv, NEW p \in Procs, GetWake(p)
    PROVE  RoomInv'
<1>1. UNCHANGED <<files, index, data>> /\ Goto(p, "r_eof") /\ curBatchSize > 0
    BY DEF GetWake, MayWake, disk
<1>2. data # <<>>
    BY SMT, <1>1 DEF Listed, DataInv, WriteInv, MemoryOK, DiskOK
<1>3. size <= Capacity
    BY <1>2 DEF RoomInv
<1> QED
    BY <1>1, <1>2, <1>3, RoomFrame DEF Listed

\* What follows the first of several names ends with the last one.
LEMMA TailLast ==
    ASSUME NEW s \in Seq(Nat), s # <<>>, Len(s) # 1
    PROVE  /\ 1 < Len(s) /\ Len(s) \in Nat /\ Head(s) = s[1]
           /\ Tail(s) # <<>> /\ Tail(s)[Len(Tail(s))] = s[Len(s)]
<1>1. Len(s) \in Nat \ {0} /\ Head(s) = s[1]
    BY SMT
<1>2. \A n \in Nat \ {0} : n # 1 => n \in Nat /\ 1 < n /\ n - 1 # 0
    BY SMT
<1>3. Len(s) \in Nat /\ 1 < Len(s) /\ Head(s) = s[1] /\ Len(s) - 1 # 0
    BY <1>1, <1>2
<1>4. Len(Tail(s)) = Len(s) - 1 /\ Tail(s) \in Seq(Nat)
    BY SMT, <1>3
<1>5. \A i \in 1..Len(s) - 1 : Tail(s)[i] = s[i + 1]
    BY SMT
<1>6. Tail(s)[Len(s) - 1] = s[Len(s)]
    BY SMT, <1>3, <1>5
<1>7. Tail(s) # <<>>
    <2>1. Len(<<>>) = 0
        BY SMT
    <2> QED
        BY <1>3, <1>4, <2>1
<1> QED
    BY <1>3, <1>4, <1>6, <1>7

\* The newest file is on disk.
LEMMA NewestOnDisk ==
    ASSUME Listed, dataFiles # <<>>
    PROVE  dataFiles[Len(dataFiles)] \in DOMAIN files /\ NewestLen \in Nat
<1>1. dataFiles \in Seq(Nat)
    BY DEF Listed, DataInv, MemoryOK
<1>2. Len(dataFiles) \in DOMAIN dataFiles
    BY SMT, <1>1
<1>3. dataFiles[Len(dataFiles)] \in DOMAIN files
    BY <1>2 DEF Listed, ListInv, ListsDisk, Range
<1>4. files[dataFiles[Len(dataFiles)]] \in Seq(Cell)
    BY <1>3 DEF Listed, DataInv, DiskOK
<1>5. Len(files[dataFiles[Len(dataFiles)]]) \in Nat
    BY SMT, <1>4
<1> QED
    BY <1>3, <1>5 DEF NewestLen, Content

\* rotate: the new file is the newest, and counts in full.
LEMMA RenameRoomStep ==
    ASSUME Listed, RoomInv, NEW p \in Procs, RotateRename(p)
    PROVE  RoomInv'
<1>1. data \in Seq(Cell) /\ Len(data) > 1 /\ size \in Int /\ dataFiles \in Seq(Nat)
    BY DEF RotateRename, RoomInv, Listed, DataInv, DiskOK, MemoryOK
<1>2. size <= Capacity /\ Capacity \in Nat
    <2>1. data # <<>>
        BY SMT, <1>1
    <2> QED
        BY <2>1, ConstantsAssumption DEF RoomInv
<1>3. \A q \in Procs \ {p} : ~Writing(q)
    <2>1. Writing(p)
        BY DEF RotateRename, Writing, WritePCs
    <2> QED
        BY <2>1, WritesAlone DEF Listed
<1>4. CASE data' = Truncated /\ Return(p) /\ UNCHANGED <<files, index>>
    BY <1>2, <1>3, <1>4, RoomFrame DEF Return, Listed
<1>5. CASE /\ files' = AddFile(NewFile, data) /\ size' = size + Counted(Len(data))
           /\ dataFiles' = SortNames(Append(dataFiles, NewFile)) /\ data' = <<>>
           /\ AfterRotate(p) \/ Return(p)
    <2>1. NewFile \in Nat /\ dataFiles' = Append(dataFiles, NewFile)
        BY <1>1, <1>5, RotatedInOrder DEF Listed, DataInv
    <2>2. /\ DOMAIN files' = DOMAIN files \cup {NewFile}
          /\ \A g \in DOMAIN files' : files'[g] = IF g = NewFile THEN data ELSE files[g]
        BY <1>1, <1>5, <2>1, AddFileType DEF Listed, DataInv
    <2>3. \A g \in DOMAIN files' : Len(files'[g]) > 1
        BY <1>1, <2>2 DEF RoomInv
    <2>4. dataFiles' # <<>> /\ dataFiles'[Len(dataFiles')] = NewFile
        BY SMT, <1>1, <2>1
    <2>5. NewestLen' = Len(data)
        BY <2>2, <2>4 DEF NewestLen, Content
    <2>6. size' = size + Len(data)
        BY <1>1, <1>5 DEF Counted
    <2>7. size' \in Int /\ SizeBounded'
        BY SMT, <1>1, <1>2, <2>5, <2>6 DEF SizeBounded
    <2>8. PICK l \in {"g_open", "idle"} : Goto(p, l)
        BY <1>5 DEF AfterRotate, Return
    <2>9. \A q \in Procs : pc'[q] = IF q = p THEN l ELSE pc[q]
        BY <2>8 DEF Listed, ControlOK, Goto
    <2>10. \A q \in Procs : pc'[q] \notin {"x_lock", "r_eof", "r_ren"} \cup Begun
        <3> SUFFICES ASSUME NEW q \in Procs
                     PROVE  pc'[q] \notin {"x_lock", "r_eof", "r_ren"} \cup Begun
            OBVIOUS
        <3>1. CASE q = p
            BY <2>8, <2>9, <3>1 DEF Begun
        <3>2. CASE q # p
            <4>1. pc[q] \notin WritePCs
                BY <1>3, <3>2 DEF Writing
            <4>2. pc[q] \notin {"r_eof", "r_ren"} \cup Begun
                BY <4>1 DEF WritePCs, Begun
            <4> QED
                BY <2>9, <3>2, <4>2 DEF RoomInv
        <3> QED
            BY <3>1, <3>2
    <2>11. data' = <<>>
        BY <1>5
    <2> QED
        BY <2>3, <2>7, <2>10, <2>11 DEF RoomInv
<1> QED
    BY <1>4, <1>5 DEF RotateRename

\* removeCurrentReadingFile: what is removed is the oldest file; when it is the
\* newest as well, all that it added to size goes with it.
LEMMA RemoveRoomStep ==
    ASSUME Listed, RoomInv, NEW p \in Procs, NextRemove(p)
    PROVE  RoomInv'
<1>1. dataFiles \in Seq(Nat) /\ dataFiles # <<>> /\ curReadfile = Head(dataFiles)
    BY DEF NextRemove, Listed, DataInv, MemoryOK, ListInv, SwitchOK, ReadsHead
<1>2. size \in Int /\ Capacity \in Nat /\ size <= Capacity + NewestLen
    BY ConstantsAssumption DEF RoomInv, SizeBounded
<1>3. curReadfile \in DOMAIN files /\ files[curReadfile] \in Seq(Cell)
    <2>1. Head(dataFiles) \in Range(dataFiles)
        BY <1>1, HeadSmallest DEF Listed, DataInv
    <2> QED
        BY <1>1, <2>1 DEF Listed, ListInv, ListsDisk, DataInv, DiskOK
<1>4. size' = size - Len(files[curReadfile]) /\ Len(files[curReadfile]) \in Nat
    <2>1. size' = size - Counted(Len(files[curReadfile]))
        BY <1>3 DEF NextRemove, Content
    <2>2. Len(files[curReadfile]) > 1
        BY <1>3 DEF RoomInv
    <2>3. Len(files[curReadfile]) \in Nat
        BY SMT, <1>3
    <2> QED
        BY <2>1, <2>2, <2>3 DEF Counted
<1>5. size' \in Int /\ size' <= size
    BY SMT, <1>2, <1>4
<1>6. PICK l \in {"n_reset", "idle"} : Goto(p, l)
    BY DEF NextRemove, Return
<1>7. \A q \in Procs : pc'[q] = IF q = p THEN l ELSE pc[q]
    BY <1>6 DEF Listed, ControlOK, Goto
<1>8. data' = data
    BY DEF NextRemove
<1>9. \A q \in Procs : /\ pc'[q] # "x_lock"
                       /\ pc'[q] = "r_eof" => data' # <<>>
                       /\ pc'[q] = "r_ren" => Len(data') > 1
    BY <1>6, <1>7, <1>8 DEF RoomInv
<1>10. (data' # <<>> \/ \E q \in Procs : pc'[q] \in Begun) => size' <= Capacity
    <2>1. \A q \in Procs : pc'[q] \in Begun => pc[q] \in Begun
        BY <1>6, <1>7 DEF Begun
    <2>2. data' # <<>> \/ (\E q \in Procs : pc'[q] \in Begun) => size <= Capacity
        BY <1>8, <2>1 DEF RoomInv
    <2>3. size <= Capacity => size' <= Capacity
        BY SMT, <1>2, <1>5
    <2> QED
        BY <2>2, <2>3
<1>11. SizeBounded' /\ \A f \in DOMAIN files' : Len(files'[f]) > 1
    <2>1. CASE UNCHANGED <<files, dataFiles>>
        <3>1. NewestLen' = NewestLen
            BY <2>1 DEF NewestLen, Content
        <3>2. NewestLen \in Nat
            BY <1>1, NewestOnDisk
        <3>3. SizeBounded'
            BY SMT, <1>2, <1>5, <3>1, <3>2 DEF SizeBounded
        <3> QED
            BY <2>1, <3>3 DEF RoomInv
    <2>2. CASE files' = RemoveFile(curReadfile) /\ dataFiles' = ListAfterRemove
        <3>1. /\ DOMAIN files' = DOMAIN files \ {curReadfile}
              /\ \A g \in DOMAIN files' : files'[g] = files[g]
            BY <2>2, RemoveFileType DEF Listed, DataInv
        <3>2. dataFiles' = Tail(dataFiles)
            BY <1>1, <2>2 DEF ListAfterRemove
        <3>3. CASE Len(dataFiles) = 1
            <4>1. dataFiles' = <<>> /\ dataFiles[Len(dataFiles)] = Head(dataFiles)
                BY SMT, <1>1, <3>2, <3>3
            <4>2. NewestLen = Len(files[curReadfile]) /\ NewestLen' = 0
                BY <1>1, <1>3, <4>1 DEF NewestLen, Content
            <4> QED
                BY SMT, <1>2, <1>4, <3>1, <4>2 DEF SizeBounded, RoomInv
        <3>4. CASE Len(dataFiles) # 1
            <4>1. /\ dataFiles' # <<>> /\ Head(dataFiles) = dataFiles[1]
                  /\ dataFiles'[Len(dataFiles')] = dataFiles[Len(dataFiles)]
                  /\ 1 < Len(dataFiles) /\ Len(dataFiles) \in Nat
                BY <1>1, <3>2, <3>4, TailLast
            <4>2. dataFiles[1] < dataFiles[Len(dataFiles)] /\ dataFiles[1] \in Nat
                BY SMT, <1>1, <4>1 DEF Listed, DataInv, InOrder
            <4>3. dataFiles[Len(dataFiles)] # curReadfile
                BY SMT, <1>1, <4>1, <4>2
            <4>4. dataFiles[Len(dataFiles)] \in DOMAIN files
                BY <1>1, NewestOnDisk
            <4>5. NewestLen' = NewestLen
                BY <1>1, <3>1, <4>1, <4>3, <4>4 DEF NewestLen, Content
            <4>6. NewestLen \in Nat
                BY <1>1, NewestOnDisk
            <4>7. SizeBounded'
                BY SMT, <1>2, <1>5, <4>5, <4>6 DEF SizeBounded
            <4> QED
                BY <3>1, <4>7 DEF RoomInv
        <3> QED
            BY <3>3, <3>4
    <2> QED
        BY <2>1, <2>2 DEF NextRemove
<1> QED
    BY <1>5, <1>9, <1>10, <1>11 DEF RoomInv

\* Every step keeps room.
LEMMA RoomInvKept ==
    ASSUME NoDrop, Capped, Listed, RoomInv, [Next]_vars
    PROVE  RoomInv'
<1>1. CASE UNCHANGED vars
    BY <1>1
    DEF vars, disk, index, RoomInv, SizeBounded, NewestLen, Content
<1>2. ASSUME NEW p \in Procs, Step(p) PROVE RoomInv'
    <2>1. ~PutDrop(p) /\ ~RotateStart(p) /\ ~RotateLock(p)
        BY DEF PutDrop, RotateStart, RotateLock, Enter, Capped, RoomInv, Listed, ListInv,
           SwitchOK
    <2>2. CASE \/ PutHeader(p) \/ StreamWrite(p) \/ PutData(p) \/ StreamCopy(p)
               \/ RotateEOF(p) \/ RotateRename(p)
        BY <2>2, WriteRoomSteps, RenameRoomStep
    <2>3. CASE PutLock(p) \/ StreamLock(p) \/ GetWake(p) \/ NextRemove(p)
        BY <2>3, LockRoomSteps, WakeRoomStep, RemoveRoomStep
    <2> QED
        BY <1>2, <2>1, <2>2, <2>3, QuietRoomSteps DEF Step
<1>3. ~Kill /\ ~Open
    <2>1. ~(restarts < MaxRestarts)
        BY SMT DEF Capped, Listed, DataInv, LocalOK
    <2> QED
        BY <2>1 DEF Kill, Open
<1> QED
    BY <1>1, <1>2, <1>3 DEF Next

\* The capacity check holds for any number of concurrent calls: what the rotated
\* files count for exceeds the capacity by no more than the newest of them, the
\* batch that was being written when the check last let data in.
THEOREM CapacityKept == NoDrop /\ Capped /\ Spec => []SizeBounded
<1>1. Init => RoomInv
    BY SMT, ConstantsAssumption DEF Init, RoomInv, SizeBounded, NewestLen, Begun
<1>2. NoDrop /\ Capped /\ Listed /\ RoomInv /\ [Next]_vars => (NoDrop /\ Capped /\ RoomInv)'
    <2>1. NoDrop /\ Capped => (NoDrop /\ Capped)'
        BY DEF NoDrop, Capped
    <2> QED
        BY <2>1, RoomInvKept
<1>3. RoomInv => SizeBounded
    BY DEF RoomInv
<1> QED
    BY <1>1, <1>2, <1>3, AlwaysListed, PTL DEF Spec

-----------------------------------------------------------------------------
(* The position *)

\* No record is empty, which GetPos would not count, and no buffer too small.
Advancing == 0 \notin Lens /\ BufLens = {}

Placed == Listed /\ Framing /\ PosInv

\* What PosInv says when nobody is between header and position.
Rest ==
    rfd # None => Ahead(0) /\ Boundary(Content(curReadfile), rfd)
PosFileOn ==
    posFile # None /\ posFile.name = curReadfile => Boundary(Content(curReadfile), posFile.seek)
PosOn ==
    pos.name # None /\ pos.name = curReadfile => Boundary(Content(curReadfile), pos.seek)

\* A step that leaves descriptor, position and file alone.
LEMMA PosFrame ==
    ASSUME ControlOK, PosInv, NEW p \in Procs, NEW l, Goto(p, l),
           pc[p] \notin UnderWay \cup {"n_remove"}, l \notin UnderWay,
           UNCHANGED <<posFile, reader, batchHeader>>,
           Content(curReadfile)' = Content(curReadfile),
           \A q \in Procs \ {p} : loc'[q] = loc[q]
    PROVE  PosInv'
<1>1. \A q \in Procs : pc'[q] = IF q = p THEN l ELSE pc[q]
    BY DEF ControlOK, Goto
<1>2. UNCHANGED <<curReadfile, rfd, pos, Content(curReadfile)>>
    BY DEF reader
<1> SUFFICES ASSUME ~NoPos PROVE PosInv'
    BY DEF PosInv
<1>3. \A q \in Procs : ReadOK(q)'
    BY <1>1, <1>2 DEF PosInv, ReadOK, UnderWay, Ahead
<1>4. /\ rfd' # None => curReadfile' # None
      /\ PosFileOn' /\ PosOn'
    BY <1>2 DEF PosInv, PosFileOn, PosOn
<1>5. (\A q \in Procs : pc'[q] \notin UnderWay \cup {"n_remove"}) => Rest'
    BY <1>1, <1>2 DEF PosInv, Rest, Ahead
<1> QED
    BY <1>3, <1>4, <1>5 DEF PosInv, PosFileOn, PosOn, Rest

\* A step of the goroutine that has rlock.
LEMMA PosReader ==
    ASSUME ControlOK, LockInv, NEW p \in Procs, pc[p] \in ReadPCs, NEW l, Goto(p, l),
           rfd' # None => curReadfile' # None, PosFileOn', PosOn', ReadOK(p)',
           l \notin UnderWay \cup {"n_remove"} => Rest'
    PROVE  PosInv'
<1>1. \A q \in Procs : pc'[q] = IF q = p THEN l ELSE pc[q]
    BY DEF ControlOK, Goto
<1>2. \A q \in Procs \ {p} : pc[q] \notin ReadPCs
    BY DEF LockInv, Reading
<1>3. \A q \in Procs : ReadOK(q)'
    BY <1>1, <1>2 DEF ReadOK, ReadPCs
<1>4. (\A q \in Procs : pc'[q] \notin UnderWay \cup {"n_remove"}) => Rest'
    BY <1>1
<1> QED
    BY <1>3, <1>4 DEF PosInv, PosFileOn, PosOn, Rest

\* What the goroutine that has rlock finds.
LEMMA PosFound ==
    ASSUME Placed, ~NoPos, NEW p \in Procs, pc[p] \in ReadPCs
    PROVE  /\ rfd # None => curReadfile # None
           /\ PosFileOn /\ PosOn /\ ReadOK(p)
           /\ pc[p] \notin UnderWay \cup {"n_remove"} => Rest
           /\ pc[p] # "n_reset" => /\ posFile # None => posFile.name = curReadfile
                                   /\ pos.name # None => pos.name = curReadfile
<1>1. \A q \in Procs \ {p} : pc[q] \notin ReadPCs
    BY DEF Placed, Listed, LockInv, Reading
<1>2. pc[p] \notin UnderWay \cup {"n_remove"} =>
          \A q \in Procs : pc[q] \notin UnderWay \cup {"n_remove"}
    BY <1>1 DEF UnderWay, ReadPCs
<1>3. pc[p] # "n_reset" => \A q \in Procs : pc[q] # "n_reset"
    BY <1>1 DEF ReadPCs
<1>4. pc[p] # "n_reset" => /\ posFile # None => posFile.name = curReadfile
                           /\ pos.name # None => pos.name = curReadfile
    BY <1>3 DEF Placed, Listed, ListInv, PosNamed
<1>5. pc[p] \notin UnderWay \cup {"n_remove"} => Rest
    BY <1>2 DEF Placed, PosInv, Rest
<1> QED
    BY <1>4, <1>5 DEF Placed, PosInv, PosFileOn, PosOn

\* The steps of Get that only lock, wake and decide.
LEMMA QuietPosSteps ==
    ASSUME Placed, NEW p \in Procs,
           \/ GetStart(p) \/ GetLock(p) \/ GetWake(p) \/ GetNoWake(p) \/ GetOpen(p)
           \/ GetRetry(p)
    PROVE  PosInv'
<1>1. UNCHANGED <<files, posFile, reader, batchHeader, loc>>
    BY DEF GetStart, GetLock, GetWake, GetNoWake, GetOpen, GetRetry, Enter, disk
<1>2. PICK l \in {"idle", "g_lock", "g_wake", "r_eof", "g_open", "g_retry", "g_hdr",
                  "n_remove", "n_reset"} : Goto(p, l)
    BY DEF GetStart, GetLock, GetWake, GetNoWake, GetOpen, GetRetry, Enter, Switch, Return
<1>3. pc[p] \notin UnderWay \cup {"n_remove"}
    BY DEF GetStart, GetLock, GetWake, GetNoWake, GetOpen, GetRetry, Enter, UnderWay
<1>4. Content(curReadfile)' = Content(curReadfile)
    BY <1>1 DEF reader, Content
<1> QED
    BY <1>1, <1>2, <1>3, <1>4, PosFrame DEF Placed, Listed, UnderWay

\* The steps of the writers: the file being read stays what it is.
LEMMA WriterPosSteps ==
    ASSUME WholeWrites, Placed, NEW p \in Procs,
           \/ PutStart(p) \/ PutLock(p) \/ PutSize(p) \/ PutHeader(p) \/ PutData(p)
           \/ StreamStart(p) \/ StreamLock(p) \/ StreamHeader(p) \/ StreamWrite(p)
           \/ StreamCopy(p) \/ RotateStart(p) \/ RotateLock(p) \/ RotateEOF(p)
           \/ CloseStart(p)
    PROVE  PosInv'
<1>1. CASE StreamStart(p)
    BY <1>1 DEF WholeWrites, StreamStart, Enter
<1>2. CASE StreamLock(p) \/ StreamHeader(p) \/ StreamWrite(p) \/ StreamCopy(p)
    BY <1>2 DEF Placed, Framing, BatchInv, Putting, StreamLock, StreamHeader,
       StreamWrite, StreamCopy
<1>3. CASE \/ PutStart(p) \/ PutLock(p) \/ PutSize(p) \/ PutHeader(p) \/ PutData(p)
           \/ RotateStart(p) \/ RotateLock(p) \/ RotateEOF(p) \/ CloseStart(p)
    <2>1. UNCHANGED <<files, posFile, reader, batchHeader>>
        BY <1>3 DEF PutStart, PutLock, PutSize, PutHeader, PutData, RotateStart, RotateLock,
           RotateEOF, CloseStart, Enter, disk
    <2>2. PICK l \in {"idle", "p_lock", "p_drop", "p_size", "p_hdr", "p_data", "x_lock",
                      "r_eof", "r_ren", "c_wait"} : Goto(p, l)
        BY <1>3 DEF PutStart, PutLock, PutSize, PutHeader, PutData, RotateStart, RotateLock,
           RotateEOF, CloseStart, Enter, EnsureFails, AfterWrite, Return
    <2>3. pc[p] \notin UnderWay \cup {"n_remove"}
        BY <1>3 DEF PutStart, PutLock, PutSize, PutHeader, PutData, RotateStart, RotateLock,
           RotateEOF, CloseStart, Enter, UnderWay
    <2>4. loc' = loc \/ \E r : Set(p, r)
        BY <1>3 DEF PutStart, PutLock, PutSize, PutHeader, PutData, RotateStart, RotateLock,
           RotateEOF, CloseStart, Enter
    <2>5. \A q \in Procs \ {p} : loc'[q] = loc[q]
        BY <2>4 DEF Set, Placed, Listed, DataInv, LocalOK
    <2>6. Content(curReadfile)' = Content(curReadfile)
        BY <2>1 DEF reader, Content
    <2> QED
        BY <2>1, <2>2, <2>3, <2>5, <2>6, PosFrame DEF Placed, Listed, UnderWay
<1> QED
    BY <1>1, <1>2, <1>3

\* rotate: the new file is another one.
LEMMA RenamePosStep ==
    ASSUME Placed, NEW p \in Procs, RotateRename(p)
    PROVE  PosInv'
<1>1. UNCHANGED <<posFile, reader, batchHeader, loc>> /\ pc[p] = "r_ren"
    BY DEF RotateRename
<1>2. PICK l \in {"idle", "g_open"} : Goto(p, l)
    BY DEF RotateRename, AfterRotate, Return
<1>3. \A f \in DOMAIN files \cap DOMAIN files' : files'[f] = files[f]
    BY RenameListStep DEF Placed
<1>4. files' = files \/ files' = AddFile(NewFile, data)
    BY DEF RotateRename
<1>5. DOMAIN files \subseteq DOMAIN files' /\ DOMAIN files' \subseteq Nat
    <2>1. dataFiles \in Seq(Nat) /\ InOrder(dataFiles) /\ DOMAIN files \subseteq Nat
        BY DEF Placed, Listed, DataInv, MemoryOK, DiskOK
    <2>2. NewFile \in Nat
        BY <2>1, RotatedInOrder
    <2> QED
        BY <1>4, <2>1, <2>2 DEF AddFile
<1>6. curReadfile = None \/ curReadfile \in DOMAIN files
    <2>1. ASSUME curReadfile # None PROVE curReadfile \in DOMAIN files
        <3>1. /\ dataFiles \in Seq(Nat) /\ InOrder(dataFiles) /\ dataFiles # <<>>
              /\ curReadfile = Head(dataFiles) /\ Range(dataFiles) = DOMAIN files
            BY <2>1 DEF Placed, Listed, DataInv, MemoryOK, ListInv, ListsDisk, ReadsHead
        <3> QED
            BY <3>1, HeadSmallest
    <2> QED
        BY <2>1
<1>7. Content(curReadfile)' = Content(curReadfile)
    <2>1. curReadfile' = curReadfile
        BY <1>1 DEF reader
    <2>2. CASE curReadfile = None
        BY <1>5, <2>1, <2>2, ConstantsAssumption DEF Content
    <2>3. CASE curReadfile \in DOMAIN files
        BY <1>3, <1>5, <2>1, <2>3 DEF Content
    <2> QED
        BY <1>6, <2>2, <2>3
<1> QED
    BY <1>1, <1>2, <1>7, PosFrame DEF Placed, Listed, UnderWay

\* Get: the header, which is the first cell behind the position.
LEMMA HeaderPosStep ==
    ASSUME Placed, NEW p \in Procs, GetHeader(p)
    PROVE  PosInv'
<1> SUFFICES ASSUME ~NoPos PROVE PosInv'
    BY DEF PosInv
<1>1. pc[p] = "g_hdr" /\ pc[p] \in ReadPCs /\ UNCHANGED <<files, posFile, curReadfile, pos, loc>>
    BY DEF GetHeader, ReadPCs, disk
<1>2. ControlOK /\ LockInv /\ pc \in [Procs -> PCs]
    BY DEF Placed, Listed, ControlOK
<1>3. (rfd # None => curReadfile # None) /\ PosFileOn /\ PosOn /\ Rest
    BY <1>1, PosFound DEF UnderWay
<1> DEFINE s == Content(curReadfile)
<1>4. Content(curReadfile)' = s /\ PosFileOn' /\ PosOn'
    BY <1>1, <1>3 DEF Content, PosFileOn, PosOn
<1>5. s \in Seq(Cell)
    BY FileBeingRead DEF Placed
<1>6. CASE rfd # None /\ rfd < Len(s)
    <2>1. batchHeader' = s[rfd + 1] /\ rfd' = rfd + 1 /\ Goto(p, "g_len")
        BY <1>6 DEF GetHeader
    <2>2. rfd \in Nat /\ pos.seek = rfd - 0 /\ pos.name # None /\ s[rfd + 1].t # "dat"
        BY <1>3, <1>6 DEF Rest, Ahead, Boundary, Placed, Listed, DataInv, MemoryOK
    <2> HIDE DEF s
    <2>3. rfd' # None /\ rfd' >= 1 /\ pos.seek = rfd' - 1 /\ rfd' <= Len(s)
        <3>1. Len(s) \in Nat
            BY SMT, <1>5
        <3>2. rfd' \in Nat /\ rfd' >= 1 /\ pos.seek = rfd' - 1 /\ rfd' <= Len(s)
            BY SMT, <1>6, <2>1, <2>2, <3>1
        <3> QED
            BY <3>2, ConstantsAssumption
    <2>4. pc'[p] = "g_len"
        BY <1>2, <2>1 DEF Goto
    <2>5. ReadOK(p)'
        BY <1>1, <1>4, <2>1, <2>2, <2>3, <2>4 DEF ReadOK, Ahead
    <2>6. curReadfile' # None
        BY <1>1, <1>3, <1>6
    <2> QED
        BY <1>1, <1>2, <1>4, <2>1, <2>5, <2>6, PosReader DEF UnderWay
<1>7. CASE ~(rfd # None /\ rfd < Len(s))
    <2>1. Switch(p) /\ rfd' = rfd
        BY <1>7 DEF GetHeader
    <2>2. PICK l : Goto(p, l) /\ l = IF curReadfile # None THEN "n_remove" ELSE "n_reset"
        BY <2>1 DEF Switch
    <2>3. pc'[p] = l
        BY <1>2, <2>2 DEF Goto
    <2>4. ReadOK(p)'
        BY <2>2, <2>3 DEF ReadOK
    <2>5. l # "n_remove" => Rest'
        BY <1>1, <1>3, <2>1, <2>2 DEF Rest
    <2> QED
        BY <1>1, <1>2, <1>3, <1>4, <2>1, <2>2, <2>4, <2>5, PosReader DEF UnderWay
<1> QED
    BY <1>6, <1>7

\* Get: the length, which is that of the record at the position.
LEMMA LengthPosStep ==
    ASSUME Advancing, Placed, NEW p \in Procs, GetLength(p)
    PROVE  PosInv'
<1> SUFFICES ASSUME ~NoPos PROVE PosInv'
    BY DEF PosInv
<1>1. /\ pc[p] = "g_len" /\ pc[p] \in ReadPCs
      /\ UNCHANGED <<files, posFile, curReadfile, pos, batchHeader>>
    BY DEF GetLength, ReadPCs, disk
<1>2. ControlOK /\ LockInv /\ pc \in [Procs -> PCs] /\ batchHeader \in Cell
    BY DEF Placed, Listed, ControlOK, DataInv, MemoryOK
<1>3. (rfd # None => curReadfile # None) /\ PosFileOn /\ PosOn /\ ReadOK(p)
    BY <1>1, PosFound
<1>4. Content(curReadfile)' = Content(curReadfile) /\ PosFileOn' /\ PosOn'
    BY <1>1, <1>3 DEF Content, PosFileOn, PosOn
<1>5. /\ Ahead(1) /\ rfd <= Len(Content(curReadfile))
      /\ Content(curReadfile)[rfd] = batchHeader /\ batchHeader.t # "dat"
    BY <1>1, <1>3 DEF ReadOK
<1>6. CASE batchHeader.t = "eof"
    <2>1. Switch(p) /\ rfd' = rfd
        BY <1>6 DEF GetLength
    <2>2. Goto(p, "n_remove")
        BY <1>3, <1>5, <2>1 DEF Switch, Ahead
    <2>3. pc'[p] = "n_remove"
        BY <1>2, <2>2 DEF Goto
    <2>4. ReadOK(p)'
        BY <2>3 DEF ReadOK
    <2> QED
        BY <1>1, <1>2, <1>3, <1>4, <2>1, <2>2, <2>4, PosReader
<1>7. CASE batchHeader.t # "eof"
    <2>1. PICK n \in Lengths(batchHeader) :
              /\ Set(p, [n |-> n, id |-> 0, hdr |-> batchHeader])
              /\ Goto(p, "g_data") /\ rfd' = rfd
        BY <1>7 DEF GetLength, Advancing
    <2>2. n = batchHeader.n
        BY <1>5 DEF Lengths
    <2>3. batchHeader.t = "hdr"
        BY <1>2, <1>5, <1>7 DEF Cell
    <2>4. loc'[p].n = n /\ loc'[p].hdr = batchHeader
        BY <2>1 DEF Set, Placed, Listed, DataInv, LocalOK
    <2>5. pc'[p] = "g_data"
        BY <1>2, <2>1 DEF Goto
    <2>6. Ahead(1)'
        BY <1>1, <1>5, <2>1 DEF Ahead
    <2>7. ReadOK(p)'
        BY <1>4, <1>5, <2>1, <2>2, <2>3, <2>4, <2>5, <2>6 DEF ReadOK
    <2> QED
        BY <1>1, <1>2, <1>3, <1>4, <2>1, <2>7, PosReader DEF UnderWay
<1> QED
    BY <1>6, <1>7

\* Get: the data, behind which the next record begins.
LEMMA DataPosStep ==
    ASSUME Advancing, Placed, NEW p \in Procs, GetData(p)
    PROVE  PosInv'
<1> SUFFICES ASSUME ~NoPos PROVE PosInv'
    BY DEF PosInv
<1>1. /\ pc[p] = "g_data" /\ pc[p] \in ReadPCs
      /\ UNCHANGED <<files, posFile, curReadfile, pos>>
    BY DEF GetData, ReadPCs, disk
<1>2. ControlOK /\ LockInv /\ pc \in [Procs -> PCs]
    BY DEF Placed, Listed, ControlOK
<1>3. (rfd # None => curReadfile # None) /\ PosFileOn /\ PosOn /\ ReadOK(p)
    BY <1>1, PosFound
<1> DEFINE s == Content(curReadfile)
           n == loc[p].n
<1>4. Content(curReadfile)' = s /\ PosFileOn' /\ PosOn'
    BY <1>1, <1>3 DEF Content, PosFileOn, PosOn
<1>5. /\ rfd # None /\ rfd >= 1 /\ pos.name # None /\ pos.seek = rfd - 1 /\ rfd <= Len(s)
      /\ s[rfd] = loc[p].hdr /\ loc[p].hdr.t = "hdr" /\ n = loc[p].hdr.n
    BY <1>1, <1>3 DEF ReadOK, Ahead
<1>6. rfd \in Nat /\ n \in Nat
    BY <1>5, LocalType DEF Placed, Listed, DataInv, MemoryOK
<1>7. s \in Seq(Cell) /\ (s # <<>> => Framed(s) /\ Sized(s))
    BY FileBeingRead DEF Placed
<1>8. (rfd # None /\ rfd + n <= Len(s)) =>
          /\ rfd' = rfd + n
          /\ \E i : Set(p, [loc[p] EXCEPT !.id = i])
          /\ Goto(p, "g_fn")
    BY DEF GetData
<1> HIDE DEF s
<1>9. rfd \in 1..Len(s) /\ s # <<>>
    BY SMT, <1>5, <1>6, <1>7
<1>10. rfd + n <= Len(s) /\ Boundary(s, rfd + n)
    BY <1>5, <1>7, <1>9, BoundaryAfter
<1>11. n # 0
    BY <1>5, <1>7, <1>9 DEF Sized, Advancing
<1>12. PICK i : rfd' = rfd + n /\ Set(p, [loc[p] EXCEPT !.id = i]) /\ Goto(p, "g_fn")
    BY <1>5, <1>8, <1>10
<1>13. loc'[p].n = n /\ pc'[p] = "g_fn"
    BY <1>2, <1>12 DEF Set, Goto, Placed, Listed, DataInv, LocalOK
<1> HIDE DEF n
<1>14. rfd' \in Nat /\ n > 0 /\ rfd' >= n + 1 /\ pos.seek = rfd' - (n + 1)
    BY SMT, <1>5, <1>6, <1>11, <1>12
<1>15. rfd' # None
    BY <1>14, ConstantsAssumption
<1>16. ReadOK(p)'
    BY <1>1, <1>4, <1>5, <1>10, <1>12, <1>13, <1>14, <1>15 DEF ReadOK, Ahead
<1>17. curReadfile' # None
    BY <1>1, <1>3, <1>5
<1> QED
    BY <1>1, <1>2, <1>4, <1>12, <1>16, <1>17, PosReader DEF UnderWay

\* Get: the callback, whose failure seeks back to the position.
LEMMA FnPosStep ==
    ASSUME Placed, NEW p \in Procs, GetFn(p)
    PROVE  PosInv'
<1> SUFFICES ASSUME ~NoPos PROVE PosInv'
    BY DEF PosInv
<1>1. /\ pc[p] = "g_fn" /\ pc[p] \in ReadPCs
      /\ UNCHANGED <<files, posFile, curReadfile, pos, loc>>
    BY DEF GetFn, ReadPCs, disk
<1>2. ControlOK /\ LockInv /\ pc \in [Procs -> PCs]
    BY DEF Placed, Listed, ControlOK
<1>3. /\ rfd # None => curReadfile # None
      /\ PosFileOn /\ PosOn /\ ReadOK(p)
      /\ pos.name # None => pos.name = curReadfile
    BY <1>1, PosFound
<1> DEFINE s == Content(curReadfile)
           n == loc[p].n
<1>4. Content(curReadfile)' = s /\ PosFileOn' /\ PosOn'
    BY <1>1, <1>3 DEF Content, PosFileOn, PosOn
<1>5. /\ rfd # None /\ rfd >= n + 1 /\ pos.name # None /\ pos.seek = rfd - (n + 1)
      /\ Boundary(s, rfd) /\ n > 0
    BY <1>1, <1>3 DEF ReadOK, Ahead
<1>6. rfd \in Nat /\ n \in Nat
    BY <1>5, LocalType DEF Placed, Listed, DataInv, MemoryOK
<1>7. \/ rfd' = rfd /\ Goto(p, "g_pos")
      \/ rfd' = rfd - (n + 1) /\ Goto(p, "idle")
    BY <1>5 DEF GetFn, Fallback, Return
<1>8. curReadfile' # None
    BY <1>1, <1>3, <1>5
<1>9. CASE rfd' = rfd /\ Goto(p, "g_pos")
    <2>1. pc'[p] = "g_pos"
        BY <1>2, <1>9 DEF Goto
    <2>2. ReadOK(p)'
        BY <1>1, <1>4, <1>5, <1>9, <2>1 DEF ReadOK, Ahead
    <2> QED
        BY <1>1, <1>2, <1>4, <1>8, <1>9, <2>2, PosReader DEF UnderWay
<1>10. CASE rfd' = rfd - (n + 1) /\ Goto(p, "idle")
    <2>1. pc'[p] = "idle"
        BY <1>2, <1>10 DEF Goto
    <2>2. ReadOK(p)'
        BY <2>1 DEF ReadOK
    <2> HIDE DEF s, n
    <2>3. rfd' = pos.seek
        BY <1>5, <1>10
    <2>4. rfd' \in Nat /\ rfd' >= 0 /\ pos.seek = rfd' - 0
        BY SMT, <1>5, <1>6, <1>10
    <2>5. Boundary(s, rfd')
        BY <1>3, <1>5, <2>3 DEF PosOn, s
    <2>6. Rest'
        BY <1>1, <1>4, <1>5, <2>4, <2>5, ConstantsAssumption DEF Rest, Ahead
    <2> QED
        BY <1>1, <1>2, <1>4, <1>8, <1>10, <2>2, <2>6, PosReader
<1> QED
    BY <1>7, <1>9, <1>10

\* Get: the position catches up with the descriptor.
LEMMA AdvancePosStep ==
    ASSUME Placed, NEW p \in Procs, GetPos(p)
    PROVE  PosInv'
<1> SUFFICES ASSUME ~NoPos PROVE PosInv'
    BY DEF PosInv
<1>1. /\ pc[p] = "g_pos" /\ pc[p] \in ReadPCs
      /\ UNCHANGED <<files, curReadfile, rfd, loc>>
    BY DEF GetPos, ReadPCs
<1>2. ControlOK /\ LockInv /\ pc \in [Procs -> PCs] /\ pos \in [name : Nat \cup {None}, seek : Int]
    BY DEF Placed, Listed, ControlOK, DataInv, MemoryOK
<1>3. (rfd # None => curReadfile # None) /\ PosFileOn /\ PosOn /\ ReadOK(p)
    BY <1>1, PosFound
<1> DEFINE s == Content(curReadfile)
           n == loc[p].n
<1>4. Content(curReadfile)' = s
    BY <1>1 DEF Content
<1>5. /\ rfd # None /\ rfd >= n + 1 /\ pos.name # None /\ pos.seek = rfd - (n + 1)
      /\ Boundary(s, rfd) /\ n > 0
    BY <1>1, <1>3 DEF ReadOK, Ahead
<1>6. rfd \in Nat /\ n \in Nat
    BY <1>5, LocalType DEF Placed, Listed, DataInv, MemoryOK
<1>7. n # 0
    BY SMT, <1>5, <1>6
<1>8. /\ pos' = [pos EXCEPT !.seek = pos.seek + n + 1]
      /\ posFile' = None \/ posFile' = posFile
      /\ Goto(p, "g_dump") \/ Goto(p, "idle")
    BY <1>7 DEF GetPos, Advance, Return
<1>9. pos'.name = pos.name /\ pos'.seek = pos.seek + n + 1
    BY <1>2, <1>8
<1>10. PICK l \in {"g_dump", "idle"} : Goto(p, l)
    BY <1>8
<1>11. pc'[p] = l
    BY <1>2, <1>10 DEF Goto
<1>12. ReadOK(p)'
    BY <1>11 DEF ReadOK
<1>13. PosFileOn'
    BY <1>1, <1>3, <1>4, <1>8 DEF PosFileOn
<1> HIDE DEF s, n
<1>14. pos'.seek = rfd /\ rfd >= 0 /\ rfd = rfd - 0
    BY SMT, <1>5, <1>6, <1>9
<1>15. Rest' /\ PosOn'
    BY <1>1, <1>4, <1>5, <1>9, <1>14 DEF Rest, Ahead, PosOn
<1>16. curReadfile' # None
    BY <1>1, <1>3, <1>5
<1> QED
    BY <1>1, <1>2, <1>10, <1>12, <1>13, <1>15, <1>16, PosReader DEF UnderWay

\* Get: .pos becomes the position.
LEMMA DumpPosStep ==
    ASSUME Placed, NEW p \in Procs, GetDump(p)
    PROVE  PosInv'
<1> SUFFICES ASSUME ~NoPos PROVE PosInv'
    BY DEF PosInv
<1>1. /\ pc[p] = "g_dump" /\ pc[p] \in ReadPCs /\ Goto(p, "idle")
      /\ UNCHANGED <<files, curReadfile, rfd, pos>>
      /\ posFile' = IF pos.name = None THEN None ELSE pos
    BY DEF GetDump, ReadPCs, reader, Return
<1>2. ControlOK /\ LockInv /\ pc \in [Procs -> PCs]
    BY DEF Placed, Listed, ControlOK
<1>3. (rfd # None => curReadfile # None) /\ PosOn /\ Rest
    BY <1>1, PosFound DEF UnderWay
<1>4. Content(curReadfile)' = Content(curReadfile)
    BY <1>1 DEF Content
<1>5. PosOn' /\ Rest'
    BY <1>1, <1>3, <1>4 DEF PosOn, Rest, Ahead
<1>6. PosFileOn'
    BY <1>1, <1>3, <1>4 DEF PosFileOn, PosOn
<1>7. pc'[p] = "idle"
    BY <1>1, <1>2 DEF Goto
<1>8. ReadOK(p)'
    BY <1>7 DEF ReadOK
<1> QED
    BY <1>1, <1>2, <1>3, <1>5, <1>6, <1>8, PosReader

\* switchNextFile: the descriptor is closed, then the position reset.
LEMMA SwitchPosSteps ==
    ASSUME Placed, NEW p \in Procs, NextRemove(p) \/ NextReset(p)
    PROVE  PosInv'
<1> SUFFICES ASSUME ~NoPos PROVE PosInv'
    BY DEF PosInv
<1>1. pc[p] \in {"n_remove", "n_reset"} /\ pc[p] \in ReadPCs
    BY DEF NextRemove, NextReset, ReadPCs
<1>2. ControlOK /\ LockInv /\ pc \in [Procs -> PCs] /\ posFile \in Position \cup {None}
    BY DEF Placed, Listed, ControlOK, DataInv, DiskOK
<1>3. (rfd # None => curReadfile # None) /\ PosFileOn /\ PosOn
    BY <1>1, PosFound
<1>4. PICK l \in {"n_reset", "g_retry", "n_open", "idle"} : Goto(p, l)
    BY DEF NextRemove, NextReset, Return
<1>5. pc'[p] = l
    BY <1>2, <1>4 DEF Goto
<1>6. ReadOK(p)'
    BY <1>5 DEF ReadOK
<1>7. CASE NextRemove(p)
    <2>1. rfd' = None /\ UNCHANGED <<posFile, pos>>
        BY <1>7 DEF NextRemove
    <2>2. curReadfile' = None \/ UNCHANGED <<files, curReadfile>>
        BY <1>7 DEF NextRemove
    <2>3. posFile # None => posFile.name # None
        BY <1>2, ConstantsAssumption DEF Position
    <2>4. PosFileOn' /\ PosOn'
        BY <1>3, <2>1, <2>2, <2>3 DEF PosFileOn, PosOn, Content
    <2>5. Rest'
        BY <2>1 DEF Rest
    <2> QED
        BY <1>1, <1>2, <1>4, <1>6, <2>1, <2>4, <2>5, PosReader
<1>8. CASE NextReset(p)
    <2>1. UNCHANGED <<curReadfile, rfd>> /\ posFile' = None /\ pos'.name = None
        BY SMT, <1>8 DEF NextReset
    <2>2. curReadfile = None
        BY <1>8 DEF NextReset, Placed, Listed, ListInv, SwitchOK
    <2>3. rfd' = None
        BY <1>3, <2>1, <2>2
    <2>4. PosFileOn' /\ PosOn' /\ Rest'
        BY <2>1, <2>3 DEF PosFileOn, PosOn, Rest
    <2> QED
        BY <1>1, <1>2, <1>4, <1>6, <2>3, <2>4, PosReader
<1> QED
    BY <1>7, <1>8

\* switchNextFile: the next file is read from its first record.
LEMMA OpenPosStep ==
    ASSUME Placed, NEW p \in Procs, NextOpen(p)
    PROVE  PosInv'
<1> SUFFICES ASSUME ~NoPos PROVE PosInv'
    BY DEF PosInv
<1>1. pc[p] = "n_open" /\ pc[p] \in ReadPCs /\ files' = files
    BY DEF NextOpen, ReadPCs
<1>2. ControlOK /\ LockInv /\ pc \in [Procs -> PCs] /\ posFile \in Position \cup {None}
    BY DEF Placed, Listed, ControlOK, DataInv, DiskOK
<1>3. /\ rfd # None => curReadfile # None
      /\ posFile # None => posFile.name = curReadfile
      /\ pos.name # None => pos.name = curReadfile
    BY <1>1, PosFound
<1>4. curReadfile = None
    BY <1>1 DEF Placed, Listed, ListInv, SwitchOK
<1>5. rfd = None /\ posFile = None /\ pos.name = None
    BY <1>2, <1>3, <1>4, ConstantsAssumption DEF Position
<1>6. PICK l \in {"g_retry", "idle"} : Goto(p, l)
    BY DEF NextOpen, Return
<1>7. pc'[p] = l
    BY <1>2, <1>6 DEF Goto
<1>8. ReadOK(p)'
    BY <1>7 DEF ReadOK
<1>9. CASE UNCHANGED <<rfd, pos, posFile>>
    <2>1. PosFileOn' /\ PosOn' /\ Rest' /\ rfd' = None
        BY <1>5, <1>9 DEF PosFileOn, PosOn, Rest
    <2> QED
        BY <1>1, <1>2, <1>6, <1>8, <2>1, PosReader
<1>10. CASE \E f \in DOMAIN files :
              /\ curReadfile' = f /\ rfd' = 0
              /\ pos' = [name |-> f, seek |-> 0] /\ posFile' = [name |-> f, seek |-> 0]
    <2>1. PICK f \in DOMAIN files :
              /\ curReadfile' = f /\ rfd' = 0
              /\ pos' = [name |-> f, seek |-> 0] /\ posFile' = [name |-> f, seek |-> 0]
        BY <1>10
    <2>2. files[f] \in Seq(Cell) /\ Framed(files[f]) /\ f \in Nat
        BY DEF Placed, Listed, DataInv, DiskOK, Framing, BatchInv, Complete
    <2>3. Content(curReadfile)' = files[f] /\ Boundary(files[f], 0)
        BY <1>1, <2>1, <2>2, BoundaryFirst DEF Content
    <2>4. /\ pos'.name = f /\ pos'.seek = 0 /\ posFile'.seek = 0
          /\ f # None /\ 0 # None /\ 0 >= 0 /\ 0 = 0 - 0
        <3>1. 0 \in Nat /\ 0 >= 0 /\ 0 = 0 - 0
            BY SMT
        <3> QED
            BY <2>1, <2>2, <3>1, ConstantsAssumption
    <2>5. PosFileOn' /\ PosOn' /\ Rest' /\ curReadfile' # None
        BY <2>1, <2>3, <2>4 DEF PosFileOn, PosOn, Rest, Ahead
    <2> QED
        BY <1>1, <1>2, <1>6, <1>8, <2>5, PosReader
<1> QED
    BY <1>9, <1>10 DEF NextOpen

\* Close and kill: the descriptor is closed.
LEMMA EndPosSteps ==
    ASSUME Placed, Kill \/ \E p \in Procs : CloseFinish(p)
    PROVE  PosInv'
<1>1. rfd' = None /\ UNCHANGED <<files, posFile, curReadfile, pos>>
    BY DEF Kill, CloseFinish, disk
<1>2. \A q \in Procs : pc'[q] \notin UnderWay
    <2>1. CASE Kill
        BY <2>1 DEF Kill, UnderWay
    <2>2. ASSUME NEW p \in Procs, CloseFinish(p) PROVE \A q \in Procs : pc'[q] \notin UnderWay
        <3>1. readers = {} /\ Goto(p, "idle")
            BY <2>2 DEF CloseFinish, CallsDone
        <3>2. \A q \in Procs : pc[q] \in {"idle", "c_wait"}
            BY <3>1 DEF Placed, Listed, LockInv
        <3> QED
            BY <3>1, <3>2 DEF Goto, Placed, Listed, ControlOK, UnderWay
    <2> QED
        BY <2>1, <2>2
<1>3. \A q \in Procs : ReadOK(q)'
    BY <1>2 DEF ReadOK, UnderWay
<1>4. Content(curReadfile)' = Content(curReadfile)
    BY <1>1 DEF Content
<1>5. ~NoPos => PosFileOn' /\ PosOn'
    BY <1>1, <1>4 DEF Placed, PosInv, PosFileOn, PosOn
<1> QED
    BY <1>1, <1>3, <1>5 DEF PosInv, PosFileOn, PosOn

\* Open: the descriptor and the position are what .pos says.
LEMMA ReopenPosStep ==
    ASSUME Placed, Open
    PROVE  PosInv'
<1> SUFFICES ASSUME ~NoPos PROVE PosInv'
    BY DEF PosInv
<1>1. files' = files /\ pc' = pc
    BY DEF Open
<1>2. \A p \in Procs : pc[p] = "idle"
    BY ConstantsAssumption DEF Open, Placed, Listed, LockInv
<1>3. \A q \in Procs : ReadOK(q)'
    BY <1>1, <1>2 DEF ReadOK
<1>4. CASE posFile # None /\ posFile.name \in DOMAIN files
    <2>1. /\ curReadfile' = posFile.name /\ rfd' = posFile.seek
          /\ pos' = posFile /\ posFile' = posFile
        BY <1>4 DEF Open
    <2>2. posFile.name = curReadfile
        BY <1>2, <1>4 DEF Placed, Listed, ListInv, PosNamed
    <2>3. Content(curReadfile)' = Content(curReadfile)
        BY <1>1, <2>1, <2>2 DEF Content
    <2>4. Boundary(Content(curReadfile), posFile.seek)
        BY <1>4, <2>2 DEF Placed, PosInv
    <2>5. posFile.name \in Nat /\ posFile.seek \in Nat
        BY <1>4 DEF Placed, Listed, DataInv, DiskOK, Position
    <2>6. posFile.seek >= 0 /\ posFile.seek = posFile.seek - 0
        BY SMT, <2>5
    <2>7. posFile.name # None
        BY <2>5, ConstantsAssumption
    <2>8. PosFileOn' /\ PosOn' /\ Rest' /\ curReadfile' # None
        BY <2>1, <2>3, <2>4, <2>6, <2>7 DEF PosFileOn, PosOn, Rest, Ahead
    <2> QED
        BY <1>3, <2>8 DEF PosInv, PosFileOn, PosOn, Rest
<1>5. CASE ~(posFile # None /\ posFile.name \in DOMAIN files)
    <2>1. rfd' = None /\ pos'.name = None /\ posFile' = None
        BY SMT, <1>5 DEF Open
    <2> QED
        BY <1>3, <2>1 DEF PosInv
<1> QED
    BY <1>4, <1>5

\* Every step keeps descriptor, position and .pos between records.
LEMMA PosInvKept ==
    ASSUME WholeWrites, NoDrop, Advancing, Placed, [Next]_vars
    PROVE  PosInv'
<1>1. CASE UNCHANGED vars
    BY <1>1 DEF vars, disk, index, reader, writer, Placed, PosInv, ReadOK, Ahead, Content
<1>2. ASSUME NEW p \in Procs, Step(p) PROVE PosInv'
    <2>1. CASE PutDrop(p)
        BY <2>1 DEF PutDrop, Placed, Listed, ListInv, SwitchOK
    <2>2. CASE \/ GetHeader(p) \/ GetLength(p) \/ GetData(p) \/ GetFn(p) \/ GetPos(p) \/ GetDump(p)
        BY <2>2, HeaderPosStep, LengthPosStep, DataPosStep, FnPosStep, AdvancePosStep, DumpPosStep
    <2>3. CASE NextRemove(p) \/ NextReset(p) \/ NextOpen(p) \/ RotateRename(p) \/ CloseFinish(p)
        BY <2>3, SwitchPosSteps, OpenPosStep, RenamePosStep, EndPosSteps
    <2> QED
        BY <1>2, <2>1, <2>2, <2>3, WriterPosSteps, QuietPosSteps DEF Step
<1> QED
    BY <1>1, <1>2, EndPosSteps, ReopenPosStep DEF Next

\* A Get that ended, was killed or closed leaves a .pos from which the next instance
\* reads whole records.
THEOREM PositionRecovers == WholeWrites /\ NoDrop /\ Advancing /\ Spec => []PosOnBoundary
<1>1. Init => PosInv
    BY DEF Init, PosInv, ReadOK
<1>2. WholeWrites /\ NoDrop /\ Advancing /\ Placed /\ [Next]_vars =>
          (WholeWrites /\ NoDrop /\ Advancing /\ PosInv)'
    <2>1. WholeWrites /\ NoDrop /\ Advancing => (WholeWrites /\ NoDrop /\ Advancing)'
        BY DEF WholeWrites, NoDrop, Advancing
    <2> QED
        BY <2>1, PosInvKept
<1>3. Placed => PosOnBoundary
    <2> SUFFICES ASSUME Placed, inst # "open", posFile # None, posFile.name \in DOMAIN files
                 PROVE  Boundary(files[posFile.name], posFile.seek)
        BY DEF PosOnBoundary
    <2>1. \A p \in Procs : pc[p] = "idle"
        BY ConstantsAssumption DEF Placed, Listed, LockInv
    <2>2. ~NoPos /\ posFile.name = curReadfile
        BY <2>1 DEF Placed, Listed, ListInv, PosNamed
    <2>3. Boundary(Content(curReadfile), posFile.seek)
        BY <2>2 DEF Placed, PosInv
    <2> QED
        BY <2>2, <2>3 DEF Content
<1> QED
    BY <1>1, <1>2, <1>3, AlwaysListed, AlwaysFramed, PTL DEF Spec, Placed

=============================================================================
