--------------------------- MODULE DiskCacheProps ---------------------------
(***************************************************************************)
(* The properties of the disk cache.  Which of them hold depends on the    *)
(* configuration: the runs say which are checked where.                    *)
(***************************************************************************)
EXTENDS DiskCacheInvariants, SequencesExt

\* Readers are interchangeable.
Symmetry == Permutations(Readers)

-----------------------------------------------------------------------------
(* What is left to read *)

\* Where the records of these cells begin, after offset off and before the
\* first end marker; a record cut off by the end of the cells does not count.
Heads(s, off) ==
    {i \in off + 1..Len(s) :
        /\ s[i].t = "hdr" /\ i + s[i].n <= Len(s)
        /\ \A j \in off + 1..i : s[j].t # "eof"}

\* The records of these cells after offset off, in order.
Ids(s, off) ==
    LET heads == Heads(s, off)
        at    == SelectSeq([i \in 1..Len(s) |-> i], LAMBDA i : i \in heads)
    IN  [k \in 1..Len(at) |-> s[at[k]].id]

IdsOfFiles(fs) == FoldLeft(LAMBDA ids, f : ids \o Ids(Content(f), 0), <<>>, fs)

\* The offset of the next record that no callback has seen or accepted.
Consumed ==
    CASE rlock # None /\ pc[rlock] \in {"g_len", "g_data"} -> rfd - 1
      [] rlock # None /\ pc[rlock] = "g_fn" -> rfd - (loc[rlock].n + 1)
      [] OTHER -> rfd

\* The records Get will still hand out, in order: the rest of the file being
\* read, the other listed files, the write file.
OpenUnread ==
    LET current == IF rfd = None THEN <<>>
                   ELSE Ids(Content(curReadfile), Consumed)
        rest    == IF curReadfile = None THEN dataFiles
                   ELSE IF dataFiles = <<>> THEN <<>> ELSE Tail(dataFiles)
    IN  current \o IdsOfFiles(rest)

\* The same for an instance that is not open: what Open would find.
DiskUnread ==
    LET names == CHOOSE s \in Sorted(DOMAIN files) : TRUE
    IN  IF ~NoPos /\ posFile # None /\ posFile.name \in DOMAIN files
        THEN Ids(files[posFile.name], posFile.seek) \o
             IdsOfFiles(IF names = <<>> THEN <<>> ELSE Tail(names))
        ELSE IdsOfFiles(names)

Unread == (IF inst = "open" THEN OpenUnread ELSE DiskUnread) \o Ids(data, 0)

-----------------------------------------------------------------------------
(* Files *)

\* size ("current byte size") is the sum of the listed files, over every rotation,
\* removal, failed rename and reopening of a cache on which Rotate is not called: that
\* alone lists files of a marker only, which the code counts at times.
SizeExact ==
    inst = "open" => size = SumFunction([k \in 1..Len(dataFiles) |-> Len(Content(dataFiles[k]))])

-----------------------------------------------------------------------------
(* Records *)

\* Whatever was written and not skipped was delivered once or is still there,
\* in order: putting, rotating and reading lose, repeat and reorder nothing.
ExactlyOnce ==
    SelectSeq(written, LAMBDA i : i \notin dropped) = delivered \o Unread

\* The weakenings that the options call for.
MaySkip   == BufLens # {} \/ NoFallback
MayRewind == MaxRestarts > 0 /\ ("Kill" \in Calls \/ ~ForceDump)
Q == INSTANCE CacheQueue WITH Records <- 1..MaxCalls, queue <- Unread

\* The cache implements the queue: every step of it appends a record, delivers
\* the oldest one, or changes nothing a client sees.
Queue == Q!Spec

-----------------------------------------------------------------------------
(* Progress *)

InFlight(p) == pc[p] # "idle" /\ Step(p)

\* A call that was made goes on, and gets a lock that is free again and again
\* (sync.Mutex and sync.RWMutex hand over to the longest waiter); readers keep
\* calling Get; a write file nobody writes is idle long enough in the end.
Fairness ==
    /\ \A p \in Procs : SF_vars(InFlight(p))
    /\ \A p \in Readers : WF_vars(GetStart(p)) /\ SF_vars(GetWake(p))

FairSpec == Spec /\ Fairness

\* Every call returns: the locks are taken in an order that cannot deadlock, and
\* a Close that waits keeps new calls out.
CallsReturn == \A p \in Procs : pc[p] # "idle" ~> pc[p] = "idle"

\* Every record is delivered unless the cache is closed first, the records of a
\* write file that never fills included.
EventuallyDelivered ==
    \A i \in 1..MaxCalls :
        i \in Range(written) ~> (i \in Range(delivered) \/ inst # "open")

=============================================================================
