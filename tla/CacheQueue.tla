----------------------------- MODULE CacheQueue -----------------------------
(***************************************************************************)
(* What the disk cache promises its clients: a FIFO queue.  Put appends a  *)
(* record, Get hands the oldest one to the callback.  Two weakenings are   *)
(* switched on by constants: a reader with a small buffer, or one that     *)
(* does not fall back on errors, may skip the oldest record, and a cache   *)
(* that was reopened may hand out again what was consumed last, because    *)
(* .pos lags behind.                                                       *)
(***************************************************************************)
EXTENDS Naturals, Sequences

CONSTANTS Records, MaySkip, MayRewind

VARIABLES queue, delivered

Init == queue = <<>> /\ delivered = <<>>

Put ==
    /\ UNCHANGED delivered
    /\ LET q == queue IN queue' \in {Append(q, id) : id \in Records}

Get ==
    /\ delivered' # delivered
    /\ queue # <<>>
    /\ delivered' = Append(delivered, Head(queue))
    /\ queue' = Tail(queue)

Skip ==
    /\ MaySkip
    /\ UNCHANGED delivered
    /\ queue # <<>>
    /\ queue' = Tail(queue)

\* The last k records delivered come back, in order, before all others.
Rewind ==
    /\ MayRewind
    /\ UNCHANGED delivered
    /\ LET q == queue
           Last(k) == SubSeq(delivered, Len(delivered) - k + 1, Len(delivered))
       IN  queue' \in {Last(k) \o q : k \in 1..Len(delivered)}

Next == Put \/ Get \/ Skip \/ Rewind

Spec == Init /\ [][Next]_<<queue, delivered>>

=============================================================================
