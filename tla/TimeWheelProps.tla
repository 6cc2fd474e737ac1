--------------------------- MODULE TimeWheelProps ---------------------------
(***************************************************************************)
(* What the tail-sampling buffer must keep true, and its refinement of     *)
(* GroupBuffer.                                                            *)
(***************************************************************************)
EXTENDS TimeWheel

\* The payload of a group, wherever it is.
Payload(dg) == IF dg.spillKey = NoKey THEN dg.packet.points ELSE Spilled(dg.spillKey).points

\* Groups that hold a payload, each with the points accepted for it.
Held ==
    {[group |-> activeMap[g], points |-> accepted[g]] : g \in DOMAIN activeMap}
    \cup {[group |-> e.group, points |-> e.points] : e \in frozen \cup pending}
    \cup (IF deciding.step = "idle" THEN {} ELSE {[group |-> deciding.group, points |-> deciding.entry.points]})

-----------------------------------------------------------------------------
(* Safety *)

\* The wheel and the map agree: an active group is in the list of its
\* slotIndex and of no other slot, no list holds a key that is not active (a
\* leftover would expire the group's next incarnation too early), and the
\* pointer reaches the slot after exactly the ticks the TTL left: timewheel.go
\* Ingest and AdvanceTime.
WheelExact ==
    /\ \A g \in Groups : \A s \in Shards : \A i \in 0..WheelSize - 1 :
        g \in slots[s][i] <=>
            g \in DOMAIN activeMap /\ s = shardOf(g) /\ i = activeMap[g].slotIndex
    /\ \A g \in DOMAIN activeMap :
        /\ due[g] \in 1..WheelSize - 1
        /\ activeMap[g].slotIndex = (currentPos[shardOf(g)] + due[g]) % WheelSize

\* No point accepted by Ingest is lost, duplicated or reordered by merging,
\* compressing, spilling and reading back, and PointCount counts them.
PayloadComplete ==
    \A h \in Held : Payload(h.group) = h.points /\ h.group.packet.pointCount = Len(h.points)

\* A spill file belongs to exactly one group that still needs it, or to the
\* group being decided: none is shared.  A file without an owner is one that a
\* Put or a Delete that failed, or a merge that failed after the payload was
\* read back, left there; whatever succeeds leaves none.
SpillOwned ==
    LET Owners(f) == {g \in DOMAIN activeMap : activeMap[g].spillKey = f.key}
        Waiting(f) == {e \in frozen \cup pending : e.group.spillKey = f.key}
        Decides(f) == deciding.step # "idle" /\ deciding.spillKey = f.key
    IN  \A f \in disk : Cardinality(Owners(f)) + Cardinality(Waiting(f)) + (IF Decides(f) THEN 1 ELSE 0)
                        = IF f.key \in forgotten THEN 0 ELSE 1

\* A packet that is kept carries all the points accepted for its group
\* (timewheel.go: "Kept packets are sent downstream and must hold the full
\* payload"), or none of them if its file could not be read.
KeptComplete ==
    \A o \in outcomes : o.decision = "kept" =>
        o.packet.points = o.accepted \/ (o.failed /\ o.packet.points = <<>>)

-----------------------------------------------------------------------------
(* Refinement *)

Closing == {[key |-> e.key, points |-> Payload(e.group)] : e \in frozen \cup pending}
           \cup (IF deciding.step = "idle" THEN {}
                 ELSE {[key |-> deciding.entry.key, points |-> Payload(deciding.group)]})

Buffer == INSTANCE GroupBuffer WITH
    Batches    <- {p.points : p \in Packets},
    collecting <- [g \in Groups |-> IF g \in DOMAIN activeMap THEN Payload(activeMap[g]) ELSE <<>>],
    closed     <- Closing,
    decided    <- {[key |-> o.key, points |-> o.accepted,
                    sent |-> IF o.decision = "kept" THEN o.packet.points ELSE <<>>] : o \in outcomes}

\* GlobalSampler implements GroupBuffer.
Buffers == Buffer!GBSpec

=============================================================================
