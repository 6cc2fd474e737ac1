----------------------------- MODULE TimeWheel -----------------------------
(***************************************************************************)
(* The tail-sampling buffer of src/aggregate/timewheel.go: GlobalSampler   *)
(* collects the packets of a group until the group has been silent for its *)
(* TTL, then decides whether the group is kept.  Payloads over a threshold *)
(* wait on disk (spill.go).                                                *)
(*                                                                         *)
(* Ingest runs under the lock of its shard and is one step.  AdvanceTime   *)
(* takes the shard locks one after another: one step each.                 *)
(* TailSamplingOutcomes holds no lock and reads the configuration three    *)
(* times for a group: three steps, between which UpdateConfig may run.     *)
(*                                                                         *)
(* A group is the record of what tailSamplingGroupMapKey hashes, and the   *)
(* hash is taken to be injective.  A payload is the sequence of its points *)
(* and its compression; a slot's list is the set of the keys in it.        *)
(***************************************************************************)
EXTENDS SamplingConfig, FiniteSets

CONSTANTS
    Groups,       \* set of [token, id, type, key]
    Packets,      \* the packets clients may send, each at most once
    Workloads,    \* sets of packets that clients send together
    Configs,      \* set of <<token, configuration>> passed to UpdateConfig
    ShardCount,
    WheelSize,    \* slots of a shard: 3600
    WaitTime,     \* waitTime
    SpillThreshold,     \* 0: no spiller
    MayFail,      \* spiller operations that may fail, of {"put", "get", "delete"}
    MaxUpdates,   \* bound: calls of UpdateConfig
    PayloadLen(_),      \* len(packet.PointsPayload)
    Compress(_),  \* CompressPointsPayload of a sequence of points
    HasPredicates(_),   \* packetHasSpanPredicates
    MergePredicates(_, _),          \* mergeSpanPredicates
    Coverable(_),       \* compilePipelinesFast returns true
    DecideWithPredicates(_, _),     \* decideWithPredicates: [match, keep]
    EvaluatePipelines(_, _)         \* evaluatePipelines: [match, keep]

VARIABLES
    configMap,    \* token -> configuration, or Nil
    updates,
    currentPos,   \* shard -> position of the wheel's pointer
    activeMap,    \* group -> DataGroup, of the groups that are collecting
    slots,        \* shard -> position -> keys
    disk,         \* the spilled payloads: set of [key, points]
    seq,          \* FilePayloadSpiller.seq
    forgotten,    \* history: keys of the files that a failed Put, Delete or merge left
    sweep,        \* shard AdvanceTime visits next, or ShardCount: not running
    frozen,       \* frozenMap of the running AdvanceTime
    pending,      \* expired groups that wait for TailSamplingOutcomes
    deciding,     \* idle, or the group being decided, with the local variables;
                  \* history: did UpdateConfig run (raced), did a Get fail (failed)
    unsent,       \* packets not yet passed to Ingest
    outcomes,     \* what TailSamplingOutcomes returned
    due,          \* history: ticks until a group expires
    accepted      \* history: group -> points accepted since the group is active

wheelVars == <<currentPos, activeMap, slots, due, accepted>>
spillVars == <<disk, seq, forgotten>>
decideVars == <<pending, deciding, outcomes>>
vars == <<configMap, updates, wheelVars, spillVars, sweep, frozen, decideVars, unsent>>

Shards == 0..ShardCount - 1
Tokens == {g.token : g \in Groups}

ASSUME SizesAssumption == ShardCount \in Nat \ {0} /\ WheelSize \in Nat \ {0, 1} /\ WaitTime \in Int

ASSUME GroupsAssumption == \A g \in Groups : g.id \in Nat

\* A client counts the points it sends.
ASSUME PacketsAssumption ==
    \A p \in Packets :
        /\ {"group", "points", "pointCount"} \subseteq DOMAIN p
        /\ p.group \in Groups /\ p.points \in Seq(Nat) /\ p.pointCount = Len(p.points)

\* A packet has points, and a client sends each of its points once.
ASSUME WorkloadsAssumption ==
    /\ Workloads \subseteq SUBSET Packets
    /\ \A W \in Workloads : \A p, q \in W :
        /\ p.points # <<>>
        /\ p # q /\ p.group = q.group =>
             \A i \in DOMAIN p.points, j \in DOMAIN q.points : p.points[i] # q.points[j]

\* A configuration has three sections, and each one that is there has a TTL.
ASSUME ConfigsAssumption ==
    \A c \in Configs :
        /\ {"tracing", "logging", "rum"} \subseteq DOMAIN c[2]
        /\ \A sec \in {c[2].tracing, c[2].logging, c[2].rum} :
             sec # Nil => "ttl" \in DOMAIN sec /\ sec.ttl \in Int

shardOf(g) == g.id % ShardCount
NoKey == 0        \* the empty spill key

TypeOK ==
    /\ DOMAIN configMap = Tokens /\ DOMAIN activeMap \subseteq Groups
    /\ currentPos \in [Shards -> 0..WheelSize - 1]
    /\ slots \in [Shards -> [0..WheelSize - 1 -> SUBSET Groups]]
    /\ seq \in Nat
    /\ sweep \in 0..ShardCount
    /\ due \in [Groups -> 0..WheelSize - 1]
    /\ unsent \subseteq Packets

Init ==
    /\ configMap = [t \in Tokens |-> Nil]
    /\ updates = 0
    /\ currentPos = [s \in Shards |-> 0]
    /\ activeMap = [g \in {} |-> Nil]
    /\ slots = [s \in Shards |-> [i \in 0..WheelSize - 1 |-> {}]]
    /\ disk = {} /\ seq = 0 /\ forgotten = {}
    /\ sweep = ShardCount /\ frozen = {}
    /\ pending = {} /\ deciding = [step |-> "idle"] /\ outcomes = {}
    /\ unsent \in Workloads
    /\ due = [g \in Groups |-> 0]
    /\ accepted = [g \in Groups |-> <<>>]

-----------------------------------------------------------------------------
(* Configuration *)

\* The default TTL is waitTime, before Init has its own.
WithWaitTime(ts) ==
    LET TTL(sec) == IF sec # Nil /\ sec.ttl = 0 THEN [sec EXCEPT !.ttl = WaitTime] ELSE sec
    IN  [ts EXCEPT !.tracing = TTL(@), !.logging = TTL(@), !.rum = TTL(@)]

UpdateConfig(token, ts) ==
    LET new == Completed(WithWaitTime(ts)) IN
    /\ updates < MaxUpdates
    /\ updates' = updates + 1
    /\ configMap' = IF /\ configMap[token] = Nil \/ configMap[token].version # ts.version
                       /\ InitOK(new)
                    THEN [configMap EXCEPT ![token] = new]
                    ELSE configMap
    /\ deciding' = IF deciding.step = "idle" THEN deciding ELSE [deciding EXCEPT !.raced = TRUE]
    /\ UNCHANGED <<wheelVars, spillVars, sweep, frozen, pending, outcomes, unsent>>

PipelinesOf(g) == pipelinesFor(configMap[g.token], g.type, g.key)
needsPayloadForDecision(g) ==
    LET ps == PipelinesOf(g) IN ~ (ps = Nil \/ Coverable(ps))

-----------------------------------------------------------------------------
(* Spilling *)

Spilled(key) == CHOOSE f \in disk : f.key = key
\* Mutant: the file stays.
releaseNothing(files, key) == {[disk |-> files, left |-> {}]}

\* releaseSpill: a Delete that fails is logged, and nobody tries again.
releaseSpill(files, key) ==
    {[disk |-> {f \in files : f.key # key}, left |-> {}]}
    \cup IF "delete" \in MayFail /\ key # NoKey THEN {[disk |-> files, left |-> {key}]} ELSE {}

\* spillIfNeeded: what the group keeps and what is on disk afterwards.  A Put
\* that fails leaves the payload in memory, and may leave a file cut short.
spillIfNeeded(packet, files) ==
    LET InMemory(fs, n, left) == [packet |-> packet, spillKey |-> NoKey, disk |-> fs, seq |-> n,
                                  forgotten |-> forgotten \cup left]
        File(pts) == files \cup {[key |-> seq + 1, points |-> pts]}
    IN  IF SpillThreshold = 0 \/ PayloadLen(packet) <= SpillThreshold
        THEN {InMemory(files, seq, {})}
        ELSE {[packet |-> [packet EXCEPT !.points = <<>>], spillKey |-> seq + 1,
               disk |-> File(packet.points), seq |-> seq + 1, forgotten |-> forgotten]}
             \cup IF "put" \in MayFail
                  THEN {InMemory(files, seq + 1, {}), InMemory(File(<<>>), seq + 1, {seq + 1})} ELSE {}

-----------------------------------------------------------------------------
(* Ingest *)

\* Ticks until the group expires, or 0 when Ingest rejects the packet: the
\* data type is not supported or not configured, or the TTL is not positive.
ttlSec(g) ==
    LET sec == Section(configMap[g.token], g.type) IN
    IF sec = Nil \/ sec.ttl < Second THEN 0
    ELSE IF sec.ttl \div Second >= WheelSize THEN WheelSize - 1 ELSE sec.ttl \div Second

Rejected(p) == ttlSec(p.group) = 0

\* Mutant: the new points go before the old ones.
mergeNewestFirst(dst, src) == [points |-> src.points \o dst.points, compression |-> dst.compression]

mergePacketPayload(dst, src) ==
    IF dst.compression = "none" /\ src.compression = "none"
    THEN [points |-> dst.points \o src.points, compression |-> "none"]
    ELSE [points |-> dst.points \o src.points, compression |-> Compress(dst.points \o src.points)]

mergeFails(dst, src) ==
    /\ dst.compression # "none" \/ src.compression # "none"
    /\ ~ (Decompresses(dst) /\ Decompresses(src))

EarlierTime(old, new) == IF new > 0 /\ (old = 0 \/ new < old) THEN new ELSE old
LaterTime(old, new) == IF new > old THEN new ELSE old

Merged(old, p) ==
    LET payload == mergePacketPayload(old, p) IN
    [group       |-> old.group,
     points      |-> payload.points,
     compression |-> payload.compression,
     hasError    |-> old.hasError \/ p.hasError,
     pred        |-> MergePredicates(old.pred, p.pred),
     pointCount  |-> old.pointCount + p.pointCount,
     start       |-> EarlierTime(old.start, p.start),
     end         |-> LaterTime(old.end, p.end),
     maxTime     |-> LaterTime(old.maxTime, p.maxTime)]

\* Mutant: what was read is not assigned.
HydratedWithoutPayload(dg) == [dg EXCEPT !.spillKey = NoKey]

\* hydrateDataGroup: the packet with the payload that was read back.
Hydrated(dg) ==
    IF dg.spillKey = NoKey THEN dg
    ELSE [dg EXCEPT !.packet.points = Spilled(dg.spillKey).points, !.spillKey = NoKey]

\* Mutant: the group stays in its old slot.
RequeueKeepingOld(g, from, ttl) ==
    slots' = [slots EXCEPT ![shardOf(g)][(currentPos[shardOf(g)] + ttl) % WheelSize] = @ \cup {g}]

Requeue(g, from, ttl) ==
    LET s == shardOf(g)
        expirePos == (currentPos[s] + ttl) % WheelSize
    IN  slots' = [slots EXCEPT ![s] =
                    [i \in 0..WheelSize - 1 |->
                        IF i = expirePos THEN @[i] \cup {g}
                        ELSE IF i = from THEN @[i] \ {g} ELSE @[i]]]

\* The group in its new slot, with what spillIfNeeded left of its packet.
WithGroup(g, st) ==
    [h \in DOMAIN activeMap \cup {g} |->
        IF h # g THEN activeMap[h]
        ELSE [packet |-> st.packet, spillKey |-> st.spillKey,
              slotIndex |-> (currentPos[shardOf(g)] + ttlSec(g)) % WheelSize]]

\* The packet is returned unused: not configured.
IngestRejected(p) ==
    /\ p \in unsent /\ Rejected(p)
    /\ unsent' = unsent \ {p}
    /\ UNCHANGED <<configMap, updates, wheelVars, spillVars, sweep, frozen, decideVars>>

\* The first packet of a group.
IngestNew(p) ==
    LET g == p.group IN
    /\ p \in unsent /\ ~ Rejected(p) /\ g \notin DOMAIN activeMap
    /\ unsent' = unsent \ {p}
    /\ \E st \in spillIfNeeded(p, disk) :
        /\ disk' = st.disk /\ seq' = st.seq /\ forgotten' = st.forgotten
        /\ activeMap' = WithGroup(g, st)
    /\ Requeue(g, WheelSize, ttlSec(g))
    /\ due' = [due EXCEPT ![g] = ttlSec(g)]
    /\ accepted' = [accepted EXCEPT ![g] = p.points]
    /\ UNCHANGED <<configMap, updates, currentPos, sweep, frozen, decideVars>>

\* A later packet: read the payload back, merge, spill again, release the old
\* file, move the group to its new slot.
IngestMerge(p) ==
    LET g   == p.group
        old == activeMap[g]
        dg  == Hydrated(old)
    IN
    /\ p \in unsent /\ ~ Rejected(p) /\ g \in DOMAIN activeMap
    /\ ~ mergeFails(dg.packet, p)
    /\ unsent' = unsent \ {p}
    /\ \E st \in spillIfNeeded(Merged(dg.packet, p), disk) :
       \E r \in releaseSpill(st.disk, old.spillKey) :
        /\ disk' = r.disk /\ seq' = st.seq /\ forgotten' = st.forgotten \cup r.left
        /\ activeMap' = WithGroup(g, st)
    /\ Requeue(g, old.slotIndex, ttlSec(g))
    /\ due' = [due EXCEPT ![g] = ttlSec(g)]
    /\ accepted' = [accepted EXCEPT ![g] = @ \o p.points]
    /\ UNCHANGED <<configMap, updates, currentPos, sweep, frozen, decideVars>>

\* The payload cannot be read back: the packet is dropped.
IngestHydrateFails(p) ==
    /\ p \in unsent /\ ~ Rejected(p) /\ p.group \in DOMAIN activeMap
    /\ "get" \in MayFail /\ activeMap[p.group].spillKey # NoKey
    /\ unsent' = unsent \ {p}
    /\ UNCHANGED <<configMap, updates, wheelVars, spillVars, sweep, frozen, decideVars>>

\* The payloads cannot be merged: the packet is dropped.  What was read back
\* stays in memory, its file stays on disk, and the group forgets the file.
IngestMergeFails(p) ==
    LET g == p.group IN
    /\ p \in unsent /\ ~ Rejected(p) /\ g \in DOMAIN activeMap
    /\ mergeFails(Hydrated(activeMap[g]).packet, p)
    /\ unsent' = unsent \ {p}
    /\ activeMap' = [activeMap EXCEPT ![g] = Hydrated(@)]
    /\ forgotten' = forgotten \cup ({activeMap[g].spillKey} \ {NoKey})
    /\ UNCHANGED <<configMap, updates, currentPos, slots, due, accepted, disk, seq, sweep,
                   frozen, decideVars>>

Ingest(p) ==
    IngestRejected(p) \/ IngestNew(p) \/ IngestMerge(p) \/ IngestHydrateFails(p)
    \/ IngestMergeFails(p)

-----------------------------------------------------------------------------
(* AdvanceTime *)

AdvanceStart ==
    /\ sweep = ShardCount
    /\ sweep' = 0 /\ frozen' = {}
    /\ UNCHANGED <<configMap, updates, wheelVars, spillVars, decideVars, unsent>>

\* One shard under its lock; after the last one AdvanceTime returns.
AdvanceShard ==
    LET pos     == (currentPos[sweep] + 1) % WheelSize
        expired == slots[sweep][pos] \cap DOMAIN activeMap
        out     == frozen \cup {[key |-> g, group |-> activeMap[g], points |-> accepted[g]] :
                                    g \in expired}
    IN
    /\ sweep < ShardCount
    /\ currentPos' = [currentPos EXCEPT ![sweep] = pos]
    /\ slots' = [slots EXCEPT ![sweep][pos] = {}]
    /\ activeMap' = [g \in DOMAIN activeMap \ expired |-> activeMap[g]]
    /\ due' = [g \in Groups |-> IF g \in expired THEN 0
                                ELSE IF shardOf(g) = sweep /\ g \in DOMAIN activeMap THEN due[g] - 1
                                ELSE due[g]]
    /\ accepted' = [g \in Groups |-> IF g \in expired THEN <<>> ELSE accepted[g]]
    /\ sweep' = sweep + 1
    /\ IF sweep + 1 = ShardCount
       THEN frozen' = {} /\ pending' = pending \cup out
       ELSE frozen' = out /\ pending' = pending
    /\ UNCHANGED <<configMap, updates, spillVars, deciding, outcomes, unsent>>

-----------------------------------------------------------------------------
(* TailSamplingOutcomes *)

\* Read the payload back if the configuration of now needs it, or if the
\* packet carries no summary.  If that fails the packet is decided without.
DecideHydrate(e) ==
    LET dg   == e.group
        need == dg.spillKey # NoKey /\ (needsPayloadForDecision(e.key) \/ ~ HasPredicates(dg.packet))
    IN
    /\ deciding.step = "idle" /\ e \in pending
    /\ pending' = pending \ {e}
    /\ \E dg2 \in {Hydrated(dg), dg} :
        /\ dg2 = Hydrated(dg) => need \/ dg.spillKey = NoKey
        /\ dg2 # Hydrated(dg) => ~ need \/ "get" \in MayFail
        /\ deciding' = [entry |-> e, group |-> dg2, spillKey |-> dg.spillKey,
                        step |-> "pipelines", pipelines |-> Nil, raced |-> FALSE,
                        failed |-> need /\ dg2 # Hydrated(dg)]
    /\ UNCHANGED <<configMap, updates, wheelVars, spillVars, sweep, frozen, outcomes, unsent>>

DecidePipelines ==
    /\ deciding.step = "pipelines"
    /\ deciding' = [deciding EXCEPT !.step = "match",
                                    !.pipelines = PipelinesOf(deciding.entry.key)]
    /\ UNCHANGED <<configMap, updates, wheelVars, spillVars, sweep, frozen, pending,
                   outcomes, unsent>>

\* decideWithPredicates or evaluatePipelines, by the configuration of now.
UsePredicates(d) ==
    /\ d.spillKey # NoKey
    /\ ~ needsPayloadForDecision(d.entry.key)
    /\ HasPredicates(d.group.packet)

Keeps(d) ==
    /\ d.pipelines # Nil
    /\ LET r == IF UsePredicates(d) THEN DecideWithPredicates(d.group.packet, d.pipelines)
                                    ELSE EvaluatePipelines(d.group.packet, d.pipelines)
       IN  r.match /\ r.keep

\* A kept packet gets its payload; the file is released in any case.
DecideFinish ==
    /\ deciding.step = "match"
    /\ \E kept \in {Keeps(deciding)} :
        LET d    == deciding
            read == kept /\ d.spillKey # NoKey /\ d.group.packet.points = <<>>
        IN  \E dg \in {d.group, Hydrated(d.group)} :
            /\ dg = d.group => ~ read \/ d.group.spillKey = NoKey \/ "get" \in MayFail
            /\ dg # d.group => read
            /\ outcomes' = outcomes \cup
                 {[key |-> d.entry.key, accepted |-> d.entry.points, packet |-> dg.packet,
                   decision |-> IF kept THEN "kept" ELSE "dropped",
                   pipelines |-> d.pipelines, raced |-> d.raced,
                   failed |-> d.failed \/ (read /\ dg.spillKey # NoKey)]}
    /\ \E r \in releaseSpill(disk, deciding.spillKey) :
        disk' = r.disk /\ forgotten' = forgotten \cup r.left
    /\ deciding' = [step |-> "idle"]
    /\ UNCHANGED <<configMap, updates, wheelVars, seq, sweep, frozen, pending, unsent>>

-----------------------------------------------------------------------------
Next ==
    \/ \E c \in Configs : UpdateConfig(c[1], c[2])
    \/ \E p \in Packets : Ingest(p)
    \/ AdvanceStart
    \/ AdvanceShard
    \/ \E e \in pending : DecideHydrate(e)
    \/ DecidePipelines
    \/ DecideFinish

Spec == Init /\ [][Next]_vars

=============================================================================
