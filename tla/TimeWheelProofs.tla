-------------------------- MODULE TimeWheelProofs --------------------------
(***************************************************************************)
(* For every number of shards and slots, every set of groups and packets,  *)
(* every sequence of configurations and whatever spiller operation fails:  *)
(* the wheel and the map of the tail-sampling buffer agree; no point that  *)
(* Ingest accepted is lost before its group is decided; a packet that is   *)
(* kept holds all of its points, or none if its file cannot be read; every *)
(* spilled file has one owner; and the buffer implements GroupBuffer.      *)
(***************************************************************************)
EXTENDS TimeWheelProps, FiniteSetTheorems, TLAPS

\* A leaf is first-order reasoning unless it names another prover.
USE Zenon

Positions == 0..WheelSize - 1

\* The remainder of a sum of two positions.
LEMMA Wraps ==
    ASSUME NEW x \in 0..2 * WheelSize - 1
    PROVE  x % WheelSize = IF x < WheelSize THEN x ELSE x - WheelSize
BY SMT, SizesAssumption

\* A position that is due in d ticks is due in d - 1 after the next.
LEMMA OneTick ==
    ASSUME NEW a \in Positions, NEW d \in 2..WheelSize - 1
    PROVE  (((a + 1) % WheelSize) + (d - 1)) % WheelSize = (a + d) % WheelSize
<1>1. (a + 1) % WheelSize = IF a + 1 < WheelSize THEN a + 1 ELSE a + 1 - WheelSize
  BY SMT, Wraps, SizesAssumption DEF Positions
<1>2. (a + d) % WheelSize = IF a + d < WheelSize THEN a + d ELSE a + d - WheelSize
  BY SMT, Wraps, SizesAssumption DEF Positions
<1>3. CASE a + 1 < WheelSize
  BY SMT, <1>1, <1>3, SizesAssumption DEF Positions
<1>4. CASE a + 1 >= WheelSize
  <2>1. a + 1 = WheelSize
    BY SMT, <1>4, SizesAssumption DEF Positions
  <2>2. (d - 1) % WheelSize = d - 1
    BY SMT, Wraps, SizesAssumption
  <2> QED BY SMT, <1>1, <1>2, <2>1, <2>2, SizesAssumption DEF Positions
<1> QED BY SMT, <1>3, <1>4, SizesAssumption DEF Positions

-----------------------------------------------------------------------------
(* The inductive invariant *)

\* A section that is configured has a TTL.
SectionsOK(ts) ==
    \A sec \in {ts.tracing, ts.logging, ts.rum} : sec # Nil => sec.ttl \in Int

ConfigOK == \A t \in Tokens : configMap[t] # Nil => SectionsOK(configMap[t])

\* A DataGroup has a slot of the wheel.
GroupsOK ==
    \A g \in DOMAIN activeMap :
        "slotIndex" \in DOMAIN activeMap[g] /\ activeMap[g].slotIndex \in Positions

WInv == TypeOK /\ ConfigOK /\ GroupsOK /\ WheelExact

-----------------------------------------------------------------------------
(* The configuration *)

\* What Init completes keeps its TTLs.
LEMMA CompletedOK ==
    ASSUME NEW c \in Configs
    PROVE  SectionsOK(Completed(WithWaitTime(c[2])))
<1> DEFINE ts == c[2]
           TTL(sec) == IF sec # Nil /\ sec.ttl = 0 THEN [sec EXCEPT !.ttl = WaitTime] ELSE sec
           new == WithWaitTime(ts)
<1>1. /\ {"tracing", "logging", "rum"} \subseteq DOMAIN ts
      /\ \A sec \in {ts.tracing, ts.logging, ts.rum} :
            sec # Nil => "ttl" \in DOMAIN sec /\ sec.ttl \in Int
  BY ConfigsAssumption
<1>2. new.tracing = TTL(ts.tracing) /\ new.logging = TTL(ts.logging) /\ new.rum = TTL(ts.rum)
  BY <1>1 DEF WithWaitTime
<1>3. ASSUME NEW sec \in {ts.tracing, ts.logging, ts.rum}
      PROVE  TTL(sec) # Nil => TTL(sec).ttl \in Int
  BY <1>1, SizesAssumption
<1>4. ASSUME NEW sec, sec # Nil => sec.ttl \in Int, NEW ttl \in Int, NEW key, NEW names
      PROVE  InitSection(sec, ttl, key, names) # Nil => InitSection(sec, ttl, key, names).ttl \in Int
  BY <1>4 DEF InitSection
<1>5. TracingTTL \in Int /\ GroupTTL \in Int
  BY SMT DEF TracingTTL, GroupTTL, Second
<1> HIDE DEF new, TTL
<1>6. \A sec \in {new.tracing, new.logging, new.rum} : sec # Nil => sec.ttl \in Int
  BY SMT, <1>2, <1>3
<1>7. /\ Completed(new).tracing = InitSection(new.tracing, TracingTTL, "trace_id", traceBuiltinMetricNames)
      /\ Completed(new).logging = InitSection(new.logging, GroupTTL, "", loggingBuiltinMetricNames)
      /\ Completed(new).rum = InitSection(new.rum, GroupTTL, "", rumBuiltinMetricNames)
  BY DEF Completed
<1>8. SectionsOK(Completed(new))
  <2>1. Completed(new).tracing # Nil => Completed(new).tracing.ttl \in Int
    BY <1>4, <1>5, <1>6, <1>7, Zenon
  <2>2. Completed(new).logging # Nil => Completed(new).logging.ttl \in Int
    BY <1>4, <1>5, <1>6, <1>7, Zenon
  <2>3. Completed(new).rum # Nil => Completed(new).rum.ttl \in Int
    BY <1>4, <1>5, <1>6, <1>7, Zenon
  <2> QED BY SMT, <2>1, <2>2, <2>3 DEF SectionsOK
<1> QED BY <1>8 DEF new

\* A packet that is not rejected waits for less than a turn of the wheel.
LEMMA TTLInWheel ==
    ASSUME ConfigOK, NEW g \in Groups, ttlSec(g) # 0
    PROVE  ttlSec(g) \in 1..WheelSize - 1
<1> DEFINE sec == Section(configMap[g.token], g.type)
<1>1. sec # Nil /\ ~ (sec.ttl < Second)
  BY DEF ttlSec
<1>2. configMap[g.token] # Nil /\ g.token \in Tokens
  BY <1>1 DEF Section, Tokens
<1>3. SectionsOK(configMap[g.token])
  BY <1>2 DEF ConfigOK
<1>4. sec \in {configMap[g.token].tracing, configMap[g.token].logging, configMap[g.token].rum}
  BY <1>1, <1>2 DEF Section
<1>5. sec.ttl \in Int
  BY <1>1, <1>3, <1>4 DEF SectionsOK
<1>6. ttlSec(g) = IF sec.ttl \div Second >= WheelSize THEN WheelSize - 1 ELSE sec.ttl \div Second
  BY <1>1 DEF ttlSec
<1> HIDE DEF sec
<1>7. sec.ttl \div Second \in Int /\ sec.ttl \div Second >= 1
  BY SMT, <1>1, <1>5 DEF Second
<1> QED BY SMT, <1>6, <1>7, SizesAssumption

-----------------------------------------------------------------------------
(* The steps *)

LEMMA InitWInv == Init => WInv
<1> SUFFICES ASSUME Init PROVE WInv
  OBVIOUS
<1>1. TypeOK
  BY SMT, SizesAssumption, GroupsAssumption, WorkloadsAssumption DEF Init, TypeOK, Shards
<1>2. ConfigOK /\ GroupsOK /\ WheelExact
  BY SizesAssumption DEF Init, ConfigOK, GroupsOK, WheelExact, Shards
<1> QED BY <1>1, <1>2 DEF WInv

LEMMA ShardOfGroup ==
    ASSUME NEW g \in Groups
    PROVE  shardOf(g) \in Shards
BY SMT, SizesAssumption, GroupsAssumption DEF shardOf, Shards

\* Ingest puts a group that was in the slot `from', or in none, into the slot
\* its TTL asks for.
LEMMA Requeued ==
    ASSUME WInv, NEW p \in Packets, ~ Rejected(p), NEW st, NEW from,
           LET g == p.group IN
           /\ IF g \in DOMAIN activeMap THEN from = activeMap[g].slotIndex ELSE from = WheelSize
           /\ activeMap' = WithGroup(g, st)
           /\ Requeue(g, from, ttlSec(g))
           /\ due' = [due EXCEPT ![g] = ttlSec(g)]
           /\ UNCHANGED currentPos
    PROVE  /\ DOMAIN activeMap' \subseteq Groups /\ GroupsOK' /\ WheelExact'
           /\ slots' \in [Shards -> [Positions -> SUBSET Groups]]
           /\ due' \in [Groups -> 0..WheelSize - 1]
<1> DEFINE g == p.group
           s == shardOf(g)
           pos == (currentPos[s] + ttlSec(g)) % WheelSize
<1>1. g \in Groups /\ s \in Shards
  BY PacketsAssumption, ShardOfGroup
<1>2. ttlSec(g) \in 1..WheelSize - 1
  BY <1>1, TTLInWheel DEF WInv, Rejected
<1>3. currentPos[s] \in Positions
  BY <1>1 DEF WInv, TypeOK, Positions
<1>4. pos \in Positions
  BY SMT, <1>2, <1>3, SizesAssumption DEF Positions
<1>5. /\ DOMAIN activeMap' = DOMAIN activeMap \cup {g}
      /\ \A h \in DOMAIN activeMap : h # g => activeMap'[h] = activeMap[h]
      /\ activeMap'[g] = [packet |-> st.packet, spillKey |-> st.spillKey, slotIndex |-> pos]
  BY DEF WithGroup
<1>6. slots \in [Shards -> [Positions -> SUBSET Groups]]
  BY DEF WInv, TypeOK, Positions
<1>7. /\ slots' \in [Shards -> [Positions -> SUBSET Groups]]
      /\ \A t \in Shards : t # s => slots'[t] = slots[t]
      /\ \A i \in Positions : slots'[s][i] = IF i = pos THEN slots[s][i] \cup {g}
                                             ELSE IF i = from THEN slots[s][i] \ {g} ELSE slots[s][i]
  BY <1>1, <1>6 DEF Requeue, Positions
<1>8. due' \in [Groups -> 0..WheelSize - 1] /\ due'[g] = ttlSec(g) /\ \A h \in Groups : h # g => due'[h] = due[h]
  BY SMT, <1>1, <1>2, SizesAssumption DEF WInv, TypeOK
<1>9. DOMAIN activeMap \subseteq Groups
  BY DEF WInv, TypeOK
<1> HIDE DEF g, s, pos
<1>10. DOMAIN activeMap' \subseteq Groups
  BY <1>1, <1>5, <1>9
<1>11. GroupsOK'
  <2> SUFFICES ASSUME NEW h \in DOMAIN activeMap'
               PROVE  "slotIndex" \in DOMAIN activeMap'[h] /\ activeMap'[h].slotIndex \in Positions
    BY DEF GroupsOK, Positions
  <2>1. CASE h = g
    BY SMT, <2>1, <1>4, <1>5
  <2>2. CASE h # g
    BY <2>2, <1>5 DEF WInv, GroupsOK
  <2> QED BY <2>1, <2>2
<1>12. ASSUME NEW h \in Groups, NEW t \in Shards, NEW i \in Positions
       PROVE  h \in slots'[t][i] <=>
                h \in DOMAIN activeMap' /\ t = shardOf(h) /\ i = activeMap'[h].slotIndex
  <2>1. h \in slots[t][i] <=> h \in DOMAIN activeMap /\ t = shardOf(h) /\ i = activeMap[h].slotIndex
    BY DEF WInv, WheelExact, Positions
  <2>2. CASE h # g
    <3>1. h \in slots'[t][i] <=> h \in slots[t][i]
      BY <2>2, <1>7
    <3> QED BY <2>1, <2>2, <3>1, <1>5
  <2>3. CASE h = g
    <3>1. CASE t # s
      BY <2>1, <2>3, <3>1, <1>7 DEF s
    <3>2. CASE t = s
      <4>1. g \in slots[s][i] => i = from
        BY <2>1, <2>3, <3>2 DEF g
      <4>2. g \in slots'[s][i] <=> i = pos
        BY <1>7, <4>1
      <4> QED BY SMT, <2>3, <3>2, <4>2, <1>5 DEF s
    <3> QED BY <3>1, <3>2
  <2> QED BY <2>2, <2>3
<1>13. ASSUME NEW h \in DOMAIN activeMap'
       PROVE  /\ due'[h] \in 1..WheelSize - 1
              /\ activeMap'[h].slotIndex = (currentPos'[shardOf(h)] + due'[h]) % WheelSize
  <2>1. CASE h = g
    BY SMT, <2>1, <1>2, <1>5, <1>8 DEF pos, s
  <2>2. CASE h # g
    <3>1. h \in DOMAIN activeMap /\ h \in Groups
      BY <2>2, <1>5, <1>9
    <3> QED BY <2>2, <3>1, <1>5, <1>8 DEF WInv, WheelExact
  <2> QED BY <2>1, <2>2
<1>14. WheelExact'
  BY <1>12, <1>13 DEF WheelExact, Positions, shardOf, Shards
<1> QED BY <1>7, <1>8, <1>10, <1>11, <1>14

\* The pointer of one shard moves by one slot: the groups in it leave the map,
\* every other group of the shard is one tick nearer.
LEMMA Advanced == WInv /\ AdvanceShard => WInv'
<1> SUFFICES ASSUME WInv, AdvanceShard PROVE WInv'
  OBVIOUS
<1> DEFINE pos == (currentPos[sweep] + 1) % WheelSize
           expired == slots[sweep][pos] \cap DOMAIN activeMap
<1>1. sweep \in Shards /\ sweep' \in 0..ShardCount
  BY SMT, SizesAssumption DEF WInv, TypeOK, AdvanceShard, Shards
<1>2. currentPos[sweep] \in Positions /\ pos \in Positions
  BY SMT, <1>1, SizesAssumption DEF WInv, TypeOK, Positions
<1>3. currentPos' \in [Shards -> Positions] /\ currentPos' = [currentPos EXCEPT ![sweep] = pos]
  BY <1>1, <1>2 DEF WInv, TypeOK, AdvanceShard, Positions
<1>4. slots \in [Shards -> [Positions -> SUBSET Groups]]
  BY DEF WInv, TypeOK, Positions
<1>5. /\ slots' \in [Shards -> [Positions -> SUBSET Groups]]
      /\ \A t \in Shards, i \in Positions :
            slots'[t][i] = IF t = sweep /\ i = pos THEN {} ELSE slots[t][i]
  BY <1>1, <1>2, <1>4 DEF AdvanceShard
<1>6. /\ DOMAIN activeMap' = DOMAIN activeMap \ expired
      /\ \A g \in DOMAIN activeMap' : activeMap'[g] = activeMap[g]
  BY DEF AdvanceShard
<1>7. DOMAIN activeMap \subseteq Groups
  BY DEF WInv, TypeOK
<1>8. \A g \in DOMAIN activeMap : g \in expired <=> shardOf(g) = sweep /\ activeMap[g].slotIndex = pos
  BY <1>1, <1>2, <1>7 DEF WInv, WheelExact, Positions
<1>9. \A g \in Groups : due'[g] = IF g \in expired THEN 0
                                  ELSE IF shardOf(g) = sweep /\ g \in DOMAIN activeMap THEN due[g] - 1
                                  ELSE due[g]
  BY DEF AdvanceShard
<1>10. \A g \in DOMAIN activeMap : /\ due[g] \in 1..WheelSize - 1
                                  /\ activeMap[g].slotIndex = (currentPos[shardOf(g)] + due[g]) % WheelSize
  BY DEF WInv, WheelExact
<1>11. due' \in [Groups -> 0..WheelSize - 1]
  <2>1. DOMAIN due' = Groups /\ due' = [g \in Groups |-> due'[g]]
    BY DEF AdvanceShard
  <2>2. ASSUME NEW g \in Groups PROVE due'[g] \in 0..WheelSize - 1
    <3>1. due[g] \in 0..WheelSize - 1
      BY DEF WInv, TypeOK
    <3> QED BY SMT, <1>9, <1>10, <3>1, SizesAssumption
  <2> QED BY <2>1, <2>2
<1>12. DOMAIN configMap' = Tokens /\ seq' \in Nat /\ unsent' \subseteq Packets /\ ConfigOK'
  BY DEF WInv, TypeOK, ConfigOK, AdvanceShard, spillVars, SectionsOK
<1> HIDE DEF pos, expired
<1>13. TypeOK'
  BY <1>1, <1>3, <1>5, <1>6, <1>7, <1>11, <1>12 DEF TypeOK, Positions
<1>14. GroupsOK'
  BY <1>6 DEF WInv, GroupsOK, Positions
<1>15. ASSUME NEW g \in Groups, NEW t \in Shards, NEW i \in Positions
       PROVE  g \in slots'[t][i] <=>
                g \in DOMAIN activeMap' /\ t = shardOf(g) /\ i = activeMap'[g].slotIndex
  <2>1. g \in slots[t][i] <=> g \in DOMAIN activeMap /\ t = shardOf(g) /\ i = activeMap[g].slotIndex
    BY DEF WInv, WheelExact, Positions
  <2>2. CASE t = sweep /\ i = pos
    BY <2>2, <1>5, <1>6, <1>8
  <2>3. CASE ~ (t = sweep /\ i = pos)
    BY <2>1, <2>3, <1>5, <1>6, <1>8
  <2> QED BY <2>2, <2>3
<1>16. ASSUME NEW g \in DOMAIN activeMap'
       PROVE  /\ due'[g] \in 1..WheelSize - 1
              /\ activeMap'[g].slotIndex = (currentPos'[shardOf(g)] + due'[g]) % WheelSize
  <2>1. g \in DOMAIN activeMap /\ g \notin expired /\ g \in Groups /\ activeMap'[g] = activeMap[g]
    BY <1>6, <1>7
  <2>2. shardOf(g) \in Shards
    BY <2>1, ShardOfGroup
  <2>3. CASE shardOf(g) # sweep
    BY <2>1, <2>2, <2>3, <1>3, <1>9, <1>10 DEF WInv, TypeOK
  <2>4. CASE shardOf(g) = sweep
    <3>1. due[g] \in 1..WheelSize - 1 /\ activeMap[g].slotIndex = (currentPos[sweep] + due[g]) % WheelSize
      BY <2>1, <2>4, <1>10
    <3>2. activeMap[g].slotIndex # (currentPos[sweep] + 1) % WheelSize
      BY <2>1, <2>4, <1>8 DEF pos
    <3>3. due[g] \in 2..WheelSize - 1
      BY SMT, <3>1, <3>2, SizesAssumption
    <3>4. due'[g] = due[g] - 1 /\ currentPos'[sweep] = (currentPos[sweep] + 1) % WheelSize
      BY <2>1, <2>4, <1>1, <1>3, <1>9 DEF WInv, TypeOK, pos
    <3>5. (currentPos'[sweep] + due'[g]) % WheelSize = (currentPos[sweep] + due[g]) % WheelSize
      BY <3>3, <3>4, <1>2, OneTick
    <3>6. due'[g] \in 1..WheelSize - 1
      BY SMT, <3>3, <3>4, SizesAssumption
    <3> QED BY <2>1, <2>4, <3>1, <3>5, <3>6
  <2> QED BY <2>3, <2>4
<1>17. WheelExact'
  BY <1>15, <1>16 DEF WheelExact, Positions, shardOf, Shards
<1> QED BY <1>12, <1>13, <1>14, <1>17 DEF WInv

\* Steps that leave the wheel alone.
LEMMA WheelUnchanged ==
    ASSUME WInv, UNCHANGED <<configMap, wheelVars>>, seq' \in Nat, sweep' \in 0..ShardCount,
           unsent' \subseteq Packets
    PROVE  WInv'
<1> USE DEF wheelVars
<1>1. TypeOK'
  BY DEF WInv, TypeOK
<1>2. ConfigOK' /\ GroupsOK'
  BY DEF WInv, ConfigOK, GroupsOK, SectionsOK, Positions
<1>3. WheelExact'
  BY DEF WInv, WheelExact, shardOf
<1> QED BY <1>1, <1>2, <1>3 DEF WInv

\* Where spillIfNeeded leaves the counter of the files.
LEMMA SpillSeq ==
    ASSUME seq \in Nat, NEW packet, NEW fs, NEW st \in spillIfNeeded(packet, fs)
    PROVE  st.seq \in Nat
BY SMT DEF spillIfNeeded

LEMMA NextWInv == WInv /\ [Next]_vars => WInv'
<1> SUFFICES ASSUME WInv, [Next]_vars PROVE WInv'
  OBVIOUS
<1> USE DEF WInv
<1>0. seq \in Nat /\ sweep \in 0..ShardCount /\ unsent \subseteq Packets
  BY DEF TypeOK
<1>1. ASSUME NEW c \in Configs, UpdateConfig(c[1], c[2]) PROVE WInv'
  <2>1. UNCHANGED <<wheelVars, spillVars, sweep, unsent>>
    BY <1>1 DEF UpdateConfig
  <2>2. SectionsOK(Completed(WithWaitTime(c[2])))
    BY CompletedOK
  <2>3. DOMAIN configMap' = Tokens /\ ConfigOK'
    <3>1. \/ configMap' = configMap
          \/ configMap' = [configMap EXCEPT ![c[1]] = Completed(WithWaitTime(c[2]))]
      BY <1>1 DEF UpdateConfig
    <3>2. CASE configMap' = configMap
      BY <3>2 DEF TypeOK, ConfigOK, SectionsOK
    <3>3. CASE configMap' = [configMap EXCEPT ![c[1]] = Completed(WithWaitTime(c[2]))]
      <4>1. DOMAIN configMap' = Tokens
        BY <3>3 DEF TypeOK
      <4>2. ASSUME NEW t \in Tokens, configMap'[t] # Nil PROVE SectionsOK(configMap'[t])
        BY <2>2, <3>3, <4>2, Zenon DEF TypeOK, ConfigOK
      <4> QED BY <4>1, <4>2 DEF ConfigOK, SectionsOK
    <3> QED BY <3>1, <3>2, <3>3
  <2>4. TypeOK' /\ GroupsOK'
    BY <2>1, <2>3 DEF TypeOK, GroupsOK, Positions, wheelVars, spillVars
  <2>5. WheelExact'
    BY <2>1 DEF WheelExact, wheelVars, shardOf
  <2> QED BY <2>3, <2>4, <2>5
<1>2. ASSUME NEW p \in Packets, IngestRejected(p) PROVE WInv'
  BY <1>0, <1>2, WheelUnchanged DEF IngestRejected, spillVars
<1>3. ASSUME NEW p \in Packets, IngestNew(p) PROVE WInv'
  <2>1. PICK st \in spillIfNeeded(p, disk) : seq' = st.seq /\ activeMap' = WithGroup(p.group, st)
    BY <1>3 DEF IngestNew
  <2>2. seq' \in Nat
    BY <1>0, <2>1, SpillSeq
  <2>3. /\ DOMAIN activeMap' \subseteq Groups /\ GroupsOK' /\ WheelExact'
        /\ slots' \in [Shards -> [Positions -> SUBSET Groups]] /\ due' \in [Groups -> 0..WheelSize - 1]
    BY <1>3, <2>1, Requeued DEF IngestNew
  <2> QED BY <1>3, <2>2, <2>3 DEF IngestNew, TypeOK, ConfigOK, SectionsOK, Positions
<1>4. ASSUME NEW p \in Packets, IngestMerge(p) PROVE WInv'
  <2>1. PICK packet, fs : \E st \in spillIfNeeded(packet, fs) : seq' = st.seq /\ activeMap' = WithGroup(p.group, st)
    BY <1>4 DEF IngestMerge
  <2>2. PICK st \in spillIfNeeded(packet, fs) : seq' = st.seq /\ activeMap' = WithGroup(p.group, st)
    BY <2>1
  <2>3. seq' \in Nat
    BY <1>0, <2>2, SpillSeq
  <2>4. /\ DOMAIN activeMap' \subseteq Groups /\ GroupsOK' /\ WheelExact'
        /\ slots' \in [Shards -> [Positions -> SUBSET Groups]] /\ due' \in [Groups -> 0..WheelSize - 1]
    BY <1>4, <2>2, Requeued DEF IngestMerge
  <2> QED BY <1>4, <2>3, <2>4 DEF IngestMerge, TypeOK, ConfigOK, SectionsOK, Positions
<1>5. ASSUME NEW p \in Packets, IngestHydrateFails(p) PROVE WInv'
  BY <1>0, <1>5, WheelUnchanged DEF IngestHydrateFails, spillVars
<1>6. ASSUME NEW p \in Packets, IngestMergeFails(p) PROVE WInv'
  <2> DEFINE g == p.group
  <2>1. /\ activeMap' = [activeMap EXCEPT ![g] = Hydrated(activeMap[g])] /\ g \in DOMAIN activeMap
        /\ UNCHANGED <<configMap, currentPos, slots, due, seq, sweep>> /\ unsent' \subseteq Packets
    BY <1>0, <1>6 DEF IngestMergeFails
  <2>2. /\ "slotIndex" \in DOMAIN Hydrated(activeMap[g])
        /\ Hydrated(activeMap[g]).slotIndex = activeMap[g].slotIndex
    BY <2>1 DEF Hydrated, GroupsOK
  <2>3. /\ DOMAIN activeMap' = DOMAIN activeMap
        /\ \A h \in DOMAIN activeMap : /\ "slotIndex" \in DOMAIN activeMap'[h]
                                       /\ activeMap'[h].slotIndex = activeMap[h].slotIndex
    BY <2>1, <2>2 DEF GroupsOK
  <2>4. TypeOK' /\ ConfigOK'
    BY <2>1, <2>3 DEF TypeOK, ConfigOK, SectionsOK
  <2>5. GroupsOK'
    BY <2>3 DEF GroupsOK, Positions
  <2>6. WheelExact'
    BY SMT, <2>1, <2>3 DEF WheelExact, shardOf
  <2> QED BY <2>4, <2>5, <2>6
<1>7. CASE AdvanceStart
  BY SMT, <1>0, <1>7, SizesAssumption, WheelUnchanged DEF AdvanceStart, spillVars
<1>8. CASE AdvanceShard
  BY <1>8, Advanced
<1>9. CASE \E e \in pending : DecideHydrate(e)
  BY <1>0, <1>9, WheelUnchanged DEF DecideHydrate, spillVars
<1>10. CASE DecidePipelines
  BY <1>0, <1>10, WheelUnchanged DEF DecidePipelines, spillVars
<1>11. CASE DecideFinish
  BY <1>0, <1>11, WheelUnchanged DEF DecideFinish
<1>12. CASE UNCHANGED vars
  BY <1>0, <1>12, WheelUnchanged DEF vars, spillVars
<1> QED BY <1>1, <1>2, <1>3, <1>4, <1>5, <1>6, <1>7, <1>8, <1>9, <1>10, <1>11, <1>12 DEF Next, Ingest

\* The wheel and the map agree after any number of Ingest, AdvanceTime and
\* UpdateConfig calls: every active group is in exactly the slot the pointer
\* reaches when its TTL has passed, and no slot holds a key that is not active
\* (timewheel.go Ingest and AdvanceTime).
THEOREM WheelCorrect == Spec => [](TypeOK /\ WheelExact)
<1>1. WInv => TypeOK /\ WheelExact
  BY DEF WInv
<1> QED BY <1>1, InitWInv, NextWInv, PTL DEF Spec

-----------------------------------------------------------------------------
(* The payloads *)

\* dg holds these points: in memory, or in the file of its own among fs.
Holds(dg, pts, fs) ==
    /\ {"packet", "spillKey"} \subseteq DOMAIN dg
    /\ {"points", "pointCount"} \subseteq DOMAIN dg.packet
    /\ pts \in Seq(Nat)
    /\ dg.packet.pointCount = Len(pts)
    /\ IF dg.spillKey = NoKey THEN dg.packet.points = pts
       ELSE dg.packet.points = <<>> /\ \E f \in fs : f.key = dg.spillKey /\ f.points = pts

\* The keys of files are numbers that FilePayloadSpiller.seq has passed, each
\* of one file.
FilesOK(fs, n) ==
    /\ n \in Nat
    /\ \A f \in fs : f.key \in 1..n
    /\ \A f1, f2 \in fs : f1.key = f2.key => f1 = f2

SameFile(k1, k2) == k1 = k2 /\ k1 # NoKey

\* No two groups share a file.
Apart(active, entries) ==
    /\ \A g, h \in DOMAIN active : SameFile(active[g].spillKey, active[h].spillKey) => g = h
    /\ \A g \in DOMAIN active : \A e \in entries : ~ SameFile(active[g].spillKey, e.group.spillKey)
    /\ \A e1, e2 \in entries : SameFile(e1.group.spillKey, e2.group.spillKey) => e1 = e2

\* What AdvanceTime has collected does not wait for its decision yet.
FrozenApart == \A e1 \in frozen, e2 \in pending : ~ SameFile(e1.group.spillKey, e2.group.spillKey)

\* The group being decided holds its points; its file is nobody else's.
DecidingOK ==
    deciding.step # "idle" =>
        /\ {"entry", "group", "spillKey", "step", "pipelines", "raced", "failed"} \subseteq DOMAIN deciding
        /\ deciding.spillKey \in 0..seq
        /\ deciding.group.spillKey \in {NoKey, deciding.spillKey}
        /\ Holds(deciding.group, deciding.entry.points, disk)
        /\ \A g \in DOMAIN activeMap : ~ SameFile(activeMap[g].spillKey, deciding.spillKey)
        /\ \A e \in frozen \cup pending : ~ SameFile(e.group.spillKey, deciding.spillKey)

PInv ==
    /\ FilesOK(disk, seq)
    /\ DOMAIN activeMap \subseteq Groups
    /\ DOMAIN accepted = Groups
    /\ \A g \in DOMAIN activeMap : Holds(activeMap[g], accepted[g], disk)
    /\ \A e \in frozen \cup pending : Holds(e.group, e.points, disk)
    /\ Apart(activeMap, frozen \cup pending)
    /\ FrozenApart
    /\ DecidingOK

-----------------------------------------------------------------------------
(* Files *)

\* Get reads the file of its key.
LEMMA SpilledIs ==
    ASSUME FilesOK(disk, seq), NEW f \in disk
    PROVE  Spilled(f.key) = f
BY DEF FilesOK, Spilled

\* hydrateDataGroup gives the group its points back.
LEMMA HydratedHolds ==
    ASSUME FilesOK(disk, seq), NEW dg, NEW pts, Holds(dg, pts, disk), NEW fs
    PROVE  /\ Holds(Hydrated(dg), pts, fs)
           /\ Hydrated(dg).spillKey = NoKey /\ Hydrated(dg).packet.points = pts
<1>1. CASE dg.spillKey = NoKey
  BY <1>1 DEF Holds, Hydrated
<1>2. CASE dg.spillKey # NoKey
  <2>1. PICK f \in disk : f.key = dg.spillKey /\ f.points = pts
    BY <1>2 DEF Holds
  <2>2. Spilled(dg.spillKey).points = pts
    BY <2>1, SpilledIs
  <2>3. Hydrated(dg) = [dg EXCEPT !.packet.points = pts, !.spillKey = NoKey]
    BY <1>2, <2>2 DEF Hydrated
  <2>4. /\ DOMAIN Hydrated(dg) = DOMAIN dg /\ Hydrated(dg).spillKey = NoKey
        /\ Hydrated(dg).packet = [dg.packet EXCEPT !.points = pts]
    BY <2>3 DEF Holds
  <2> QED BY <2>4 DEF Holds
<1> QED BY <1>1, <1>2

\* A group whose file stays holds its points.
LEMMA HoldsKept ==
    ASSUME NEW dg, NEW pts, NEW fs, NEW fs2, Holds(dg, pts, fs),
           \A f \in fs : SameFile(f.key, dg.spillKey) => f \in fs2
    PROVE  Holds(dg, pts, fs2)
BY DEF Holds, SameFile

\* What spillIfNeeded may do: nothing, a Put that leaves no file, one that
\* leaves a file cut short, or a Put.
LEMMA SpillCases ==
    ASSUME NEW packet, NEW fs, NEW st \in spillIfNeeded(packet, fs)
    PROVE  \/ st.spillKey = NoKey /\ st.packet = packet /\ st.disk = fs /\ st.seq \in {seq, seq + 1}
              /\ st.forgotten = forgotten
           \/ st.spillKey = NoKey /\ st.packet = packet /\ st.seq = seq + 1
              /\ st.disk = fs \cup {[key |-> seq + 1, points |-> <<>>]}
              /\ st.forgotten = forgotten \cup {seq + 1}
           \/ st.packet = [packet EXCEPT !.points = <<>>] /\ st.spillKey = seq + 1 /\ st.seq = seq + 1
              /\ st.disk = fs \cup {[key |-> seq + 1, points |-> packet.points]}
              /\ st.forgotten = forgotten
BY SMT DEF spillIfNeeded

\* spillIfNeeded keeps the points, and takes a key that no file has.
LEMMA SpillHolds ==
    ASSUME NEW packet, NEW pts \in Seq(Nat), NEW fs, FilesOK(fs, seq), NEW st \in spillIfNeeded(packet, fs),
           {"points", "pointCount"} \subseteq DOMAIN packet, packet.points = pts,
           packet.pointCount = Len(pts), NEW dg,
           {"packet", "spillKey"} \subseteq DOMAIN dg, dg.packet = st.packet, dg.spillKey = st.spillKey
    PROVE  /\ Holds(dg, pts, st.disk)
           /\ FilesOK(st.disk, st.seq)
           /\ fs \subseteq st.disk /\ st.seq >= seq /\ st.spillKey \in {NoKey, seq + 1}
<1>0. seq \in Nat
  BY DEF FilesOK
<1>1. CASE st.spillKey = NoKey /\ st.packet = packet /\ st.disk = fs /\ st.seq \in {seq, seq + 1}
  BY SMT, <1>0, <1>1 DEF Holds, FilesOK
<1>2. CASE st.spillKey = NoKey /\ st.packet = packet /\ st.seq = seq + 1
           /\ st.disk = fs \cup {[key |-> seq + 1, points |-> <<>>]}
  BY SMT, <1>0, <1>2 DEF Holds, FilesOK
<1>3. CASE /\ st.packet = [packet EXCEPT !.points = <<>>] /\ st.spillKey = seq + 1 /\ st.seq = seq + 1
           /\ st.disk = fs \cup {[key |-> seq + 1, points |-> packet.points]}
  <2>1. FilesOK(st.disk, st.seq)
    BY SMT, <1>0, <1>3 DEF FilesOK
  <2>2. /\ {"points", "pointCount"} \subseteq DOMAIN st.packet
        /\ st.packet.points = <<>> /\ st.packet.pointCount = Len(pts)
    BY <1>3
  <2> DEFINE new == [key |-> seq + 1, points |-> pts]
  <2>3. \E f \in st.disk : f.key = st.spillKey /\ f.points = pts
    <3>1. new \in st.disk /\ new.key = st.spillKey /\ new.points = pts
      BY <1>3
    <3> QED BY <3>1, Zenon
  <2> QED BY SMT, <1>0, <1>3, <2>1, <2>2, <2>3 DEF Holds, NoKey
<1> QED BY SMT, <1>1, <1>2, <1>3, SpillCases

\* A group's file has a number that the spiller gave out before.
LEMMA HoldsOld ==
    ASSUME NEW dg, NEW pts, NEW fs, NEW n, FilesOK(fs, n), Holds(dg, pts, fs)
    PROVE  dg.spillKey # n + 1
<1>1. n \in Nat /\ \A f \in fs : f.key \in 1..n
  BY DEF FilesOK
<1>2. dg.spillKey = NoKey \/ \E f \in fs : f.key = dg.spillKey
  BY DEF Holds
<1> QED BY SMT, <1>1, <1>2 DEF NoKey

\* What releaseSpill may do: take the file away, or leave it to nobody.
LEMMA Released ==
    ASSUME NEW fs, NEW key, NEW r \in releaseSpill(fs, key)
    PROVE  /\ r.disk \subseteq fs
           /\ \A f \in fs \ r.disk : f.key = key
           /\ \A f \in r.disk : f.key = key => f.key \in r.left
           /\ \A k \in r.left : k = key /\ k # NoKey
BY SMT DEF releaseSpill

-----------------------------------------------------------------------------
(* The steps *)

LEMMA InitPInv == Init => PInv
BY SMT DEF Init, PInv, FilesOK, Apart, FrozenApart, DecidingOK

\* Ingest gives a group the points pts, and releases no file but the one that
\* the group had.
LEMMA Collected ==
    ASSUME PInv, NEW g \in Groups, NEW pts \in Seq(Nat), NEW packet, NEW st \in spillIfNeeded(packet, disk),
           {"points", "pointCount"} \subseteq DOMAIN packet, packet.points = pts,
           packet.pointCount = Len(pts),
           disk' \subseteq st.disk,
           \A f \in st.disk \ disk' : g \in DOMAIN activeMap /\ f.key = activeMap[g].spillKey,
           seq' = st.seq, activeMap' = WithGroup(g, st),
           accepted' = [accepted EXCEPT ![g] = pts],
           UNCHANGED <<frozen, pending, deciding>>
    PROVE  PInv'
<1> USE DEF PInv
<1>1. FilesOK(disk, seq)
  OBVIOUS
<1>2. /\ DOMAIN activeMap' = DOMAIN activeMap \cup {g}
      /\ \A h \in DOMAIN activeMap : h # g => activeMap'[h] = activeMap[h]
      /\ {"packet", "spillKey"} \subseteq DOMAIN activeMap'[g]
      /\ activeMap'[g].packet = st.packet /\ activeMap'[g].spillKey = st.spillKey
  BY DEF WithGroup
<1>3. /\ Holds(activeMap'[g], pts, disk') /\ FilesOK(disk', seq') /\ disk \subseteq st.disk
      /\ seq' >= seq /\ activeMap'[g].spillKey \in {NoKey, seq + 1}
  <2>1. /\ Holds(activeMap'[g], pts, st.disk) /\ FilesOK(st.disk, seq') /\ disk \subseteq st.disk
        /\ seq' >= seq /\ activeMap'[g].spillKey \in {NoKey, seq + 1}
    BY SMT, <1>1, <1>2, SpillHolds
  <2>2. g \in DOMAIN activeMap => activeMap[g].spillKey # seq + 1
    BY <1>1, HoldsOld
  <2>3. \A f \in st.disk : SameFile(f.key, activeMap'[g].spillKey) => f \in disk'
    BY <2>1, <2>2 DEF SameFile
  <2>4. Holds(activeMap'[g], pts, disk')
    BY <2>1, <2>3, HoldsKept
  <2>5. FilesOK(disk', seq')
    BY <2>1 DEF FilesOK
  <2> QED BY <2>1, <2>4, <2>5
<1>4. seq \in Nat /\ seq' \in Nat
  BY <1>3 DEF FilesOK
<1>5. DOMAIN accepted' = Groups /\ accepted'[g] = pts
      /\ \A h \in DOMAIN activeMap : h # g => accepted'[h] = accepted[h]
  OBVIOUS
<1>6. ASSUME NEW dg, NEW x, Holds(dg, x, disk),
             g \in DOMAIN activeMap => ~ SameFile(dg.spillKey, activeMap[g].spillKey)
      PROVE  Holds(dg, x, disk')
  <2>1. \A f \in disk : SameFile(f.key, dg.spillKey) => f \in disk'
    BY <1>3, <1>6 DEF SameFile
  <2> QED BY <2>1, <1>6, HoldsKept
<1>7. ASSUME NEW dg, NEW x, Holds(dg, x, disk) PROVE ~ SameFile(dg.spillKey, activeMap'[g].spillKey)
  BY <1>3, <1>4, <1>7, SMTT(30) DEF Holds, FilesOK, SameFile
<1>8. ASSUME NEW h \in DOMAIN activeMap' PROVE Holds(activeMap'[h], accepted'[h], disk')
  <2>1. CASE h = g
    BY <2>1, <1>3, <1>5
  <2>2. CASE h # g
    <3>1. h \in DOMAIN activeMap /\ Holds(activeMap[h], accepted[h], disk)
      BY <2>2, <1>2
    <3>2. g \in DOMAIN activeMap => ~ SameFile(activeMap[h].spillKey, activeMap[g].spillKey)
      BY <2>2, <3>1 DEF Apart
    <3>3. Holds(activeMap[h], accepted[h], disk')
      BY <3>1, <3>2, <1>6
    <3> QED BY <2>2, <3>1, <3>3, <1>2, <1>5
  <2> QED BY <2>1, <2>2
<1>9. ASSUME NEW e \in frozen' \cup pending' PROVE Holds(e.group, e.points, disk')
  <2>1. e \in frozen \cup pending /\ Holds(e.group, e.points, disk)
    OBVIOUS
  <2>2. g \in DOMAIN activeMap => ~ SameFile(e.group.spillKey, activeMap[g].spillKey)
    BY <2>1 DEF Apart, SameFile
  <2> QED BY <2>1, <2>2, <1>6
<1>10. Apart(activeMap', frozen' \cup pending')
  <2>1. \A h \in DOMAIN activeMap : ~ SameFile(activeMap[h].spillKey, activeMap'[g].spillKey)
    BY <1>7
  <2>2. \A e \in frozen \cup pending : ~ SameFile(e.group.spillKey, activeMap'[g].spillKey)
    BY <1>7
  <2>3. ASSUME NEW h1 \in DOMAIN activeMap', NEW h2 \in DOMAIN activeMap',
               SameFile(activeMap'[h1].spillKey, activeMap'[h2].spillKey)
        PROVE  h1 = h2
    BY SMT, <2>1, <2>3, <1>2 DEF Apart, SameFile
  <2>4. ASSUME NEW h \in DOMAIN activeMap', NEW e \in frozen \cup pending
        PROVE  ~ SameFile(activeMap'[h].spillKey, e.group.spillKey)
    BY SMT, <2>2, <1>2 DEF Apart, SameFile
  <2> QED BY <2>3, <2>4 DEF Apart
<1>11. DecidingOK'
  <2> SUFFICES ASSUME deciding.step # "idle" PROVE DecidingOK'
    BY DEF DecidingOK
  <2>1. /\ {"entry", "group", "spillKey", "step", "pipelines", "raced", "failed"} \subseteq DOMAIN deciding
        /\ deciding.spillKey \in 0..seq /\ deciding.group.spillKey \in {NoKey, deciding.spillKey}
        /\ Holds(deciding.group, deciding.entry.points, disk)
        /\ \A h \in DOMAIN activeMap : ~ SameFile(activeMap[h].spillKey, deciding.spillKey)
        /\ \A e \in frozen \cup pending : ~ SameFile(e.group.spillKey, deciding.spillKey)
    BY DEF DecidingOK
  <2>2. Holds(deciding.group, deciding.entry.points, disk')
    BY <2>1, <1>6 DEF SameFile, NoKey
  <2>3. ~ SameFile(activeMap'[g].spillKey, deciding.spillKey)
    BY SMT, <2>1, <1>3, <1>4 DEF SameFile, NoKey
  <2>4. \A h \in DOMAIN activeMap' : ~ SameFile(activeMap'[h].spillKey, deciding.spillKey)
    BY <2>1, <2>3, <1>2
  <2>5. deciding.spillKey \in 0..seq'
    BY SMT, <2>1, <1>3, <1>4
  <2> QED BY <2>1, <2>2, <2>4, <2>5 DEF DecidingOK
<1>12. DOMAIN activeMap' \subseteq Groups
  BY <1>2
<1> QED BY <1>3, <1>5, <1>8, <1>9, <1>10, <1>11, <1>12 DEF FrozenApart

\* AdvanceTime moves groups out of the map, with their points.
LEMMA AdvanceKeeps == PInv /\ AdvanceShard => PInv'
<1> SUFFICES ASSUME PInv, AdvanceShard PROVE PInv'
  OBVIOUS
<1> USE DEF PInv
<1> DEFINE pos == (currentPos[sweep] + 1) % WheelSize
           expired == slots[sweep][pos] \cap DOMAIN activeMap
           moved == {[key |-> g, group |-> activeMap[g], points |-> accepted[g]] : g \in expired}
<1>1. /\ DOMAIN activeMap' = DOMAIN activeMap \ expired
      /\ \A g \in DOMAIN activeMap' : activeMap'[g] = activeMap[g]
  BY DEF AdvanceShard
<1>2. DOMAIN accepted' = Groups /\ \A g \in DOMAIN activeMap' : accepted'[g] = accepted[g]
  BY <1>1 DEF AdvanceShard
<1>3. frozen' \cup pending' = frozen \cup pending \cup moved
  BY DEF AdvanceShard
<1>4. UNCHANGED <<disk, seq, deciding>>
  BY DEF AdvanceShard, spillVars
<1>5. \A e \in moved : \E g \in expired : e.group = activeMap[g] /\ e.points = accepted[g]
                                          /\ e = [key |-> g, group |-> activeMap[g], points |-> accepted[g]]
  BY SMT
<1>6. expired \subseteq DOMAIN activeMap
  OBVIOUS
<1> HIDE DEF moved, expired
<1>7. \A g \in DOMAIN activeMap' : Holds(activeMap'[g], accepted'[g], disk')
  BY <1>1, <1>2, <1>4
<1>8. \A e \in frozen' \cup pending' : Holds(e.group, e.points, disk')
  BY <1>3, <1>4, <1>5, <1>6
<1>9. Apart(activeMap', frozen' \cup pending')
  <2>1. \A g, h \in DOMAIN activeMap' : SameFile(activeMap'[g].spillKey, activeMap'[h].spillKey) => g = h
    BY <1>1 DEF Apart
  <2>2. ASSUME NEW g \in DOMAIN activeMap', NEW e \in frozen' \cup pending'
        PROVE  ~ SameFile(activeMap'[g].spillKey, e.group.spillKey)
    <3>1. CASE e \in frozen \cup pending
      BY <3>1, <1>1 DEF Apart
    <3>2. CASE e \in moved
      BY <3>2, <1>1, <1>5, <1>6 DEF Apart
    <3> QED BY <3>1, <3>2, <1>3
  <2>3. ASSUME NEW e1 \in frozen' \cup pending', NEW e2 \in frozen' \cup pending',
               SameFile(e1.group.spillKey, e2.group.spillKey)
        PROVE  e1 = e2
    <3>1. CASE e1 \in frozen \cup pending /\ e2 \in frozen \cup pending
      BY <2>3, <3>1 DEF Apart
    <3>2. CASE e1 \in moved /\ e2 \in moved
      BY <2>3, <3>2, <1>5, <1>6 DEF Apart
    <3>3. CASE e1 \in moved /\ e2 \in frozen \cup pending
      BY <2>3, <3>3, <1>5, <1>6 DEF Apart
    <3>4. CASE e1 \in frozen \cup pending /\ e2 \in moved
      BY SMT, <2>3, <3>4, <1>5, <1>6 DEF Apart, SameFile
    <3> QED BY <3>1, <3>2, <3>3, <3>4, <1>3
  <2> QED BY <2>1, <2>2, <2>3 DEF Apart
<1>10. DecidingOK'
  BY <1>1, <1>3, <1>4, <1>5, <1>6 DEF DecidingOK
<1>11. FrozenApart'
  <2>1. CASE frozen' = {}
    BY <2>1 DEF FrozenApart
  <2>2. CASE frozen' = frozen \cup moved /\ pending' = pending
    <3>1. \A e1 \in moved, e2 \in pending : ~ SameFile(e1.group.spillKey, e2.group.spillKey)
      BY <1>5, <1>6 DEF Apart
    <3> QED BY <2>2, <3>1 DEF FrozenApart
  <2> QED BY <2>1, <2>2 DEF AdvanceShard, moved, expired
<1>12. DOMAIN activeMap' \subseteq Groups
  BY <1>1
<1> QED BY <1>2, <1>4, <1>7, <1>8, <1>9, <1>10, <1>11, <1>12

\* What TailSamplingOutcomes knows of the group it begins to decide.
LEMMA DecidesEntry ==
    ASSUME NEW e, DecideHydrate(e)
    PROVE  \E dg \in {Hydrated(e.group), e.group}, failed \in BOOLEAN :
              deciding' = [entry |-> e, group |-> dg, spillKey |-> e.group.spillKey,
                           step |-> "pipelines", pipelines |-> Nil, raced |-> FALSE, failed |-> failed]
BY Zenon DEF DecideHydrate

\* The group that is being decided keeps its points, with or without its file.
LEMMA HydrateKeeps == ASSUME NEW e, PInv, DecideHydrate(e) PROVE PInv'
<1> USE DEF PInv
<1>1. /\ e \in pending /\ pending' = pending \ {e} /\ deciding.step = "idle"
      /\ UNCHANGED <<activeMap, accepted, disk, seq, frozen>>
  BY DEF DecideHydrate, wheelVars, spillVars
<1>2. PICK dg \in {Hydrated(e.group), e.group}, failed \in BOOLEAN :
         deciding' = [entry |-> e, group |-> dg, spillKey |-> e.group.spillKey,
                      step |-> "pipelines", pipelines |-> Nil, raced |-> FALSE, failed |-> failed]
  BY DecidesEntry
<1>3. Holds(e.group, e.points, disk) /\ seq \in Nat
  BY <1>1 DEF FilesOK
<1>4. e.group.spillKey \in 0..seq
  BY SMT, <1>3 DEF Holds, FilesOK, NoKey
<1>5. Holds(dg, e.points, disk) /\ dg.spillKey \in {NoKey, e.group.spillKey}
  BY SMT, <1>3, HydratedHolds
<1>6. /\ \A g \in DOMAIN activeMap : ~ SameFile(activeMap[g].spillKey, e.group.spillKey)
      /\ \A x \in frozen \cup (pending \ {e}) : ~ SameFile(x.group.spillKey, e.group.spillKey)
  BY <1>1 DEF Apart, FrozenApart
<1>7. Apart(activeMap', frozen' \cup pending') /\ FrozenApart'
  BY <1>1 DEF Apart, FrozenApart
<1>8. DecidingOK'
  BY <1>1, <1>2, <1>4, <1>5, <1>6 DEF DecidingOK
<1> QED BY <1>1, <1>7, <1>8

\* The file of the group is released when it has been decided.
LEMMA FinishKeeps == PInv /\ DecideFinish => PInv'
<1> SUFFICES ASSUME PInv, DecideFinish PROVE PInv'
  OBVIOUS
<1> USE DEF PInv
<1>1. /\ deciding.step # "idle" /\ deciding' = [step |-> "idle"]
      /\ disk' \subseteq disk /\ \A f \in disk \ disk' : f.key = deciding.spillKey
      /\ UNCHANGED <<activeMap, accepted, seq, frozen, pending>>
  <2>1. PICK r \in releaseSpill(disk, deciding.spillKey) : disk' = r.disk
    BY DEF DecideFinish
  <2>2. disk' \subseteq disk /\ \A f \in disk \ disk' : f.key = deciding.spillKey
    BY SMT, <2>1, Released
  <2> QED BY <2>2 DEF DecideFinish, wheelVars
<1>2. FilesOK(disk', seq')
  BY <1>1 DEF FilesOK
<1>3. ASSUME NEW dg, NEW x, Holds(dg, x, disk), ~ SameFile(dg.spillKey, deciding.spillKey)
      PROVE  Holds(dg, x, disk')
  <2>1. \A f \in disk : SameFile(f.key, dg.spillKey) => f \in disk'
    BY <1>1, <1>3 DEF SameFile
  <2> QED BY <2>1, <1>3, HoldsKept
<1>4. \A g \in DOMAIN activeMap' : Holds(activeMap'[g], accepted'[g], disk')
  BY <1>1, <1>3 DEF DecidingOK
<1>5. \A e \in frozen' \cup pending' : Holds(e.group, e.points, disk')
  BY <1>1, <1>3 DEF DecidingOK
<1>6. Apart(activeMap', frozen' \cup pending') /\ FrozenApart'
  BY <1>1 DEF Apart, FrozenApart
<1>7. DecidingOK'
  BY <1>1 DEF DecidingOK
<1> QED BY <1>1, <1>2, <1>4, <1>5, <1>6, <1>7

\* A packet whose payload cannot be merged leaves the group as it is, with its
\* payload in memory.
LEMMA MergeFailsKeeps == ASSUME NEW p \in Packets, PInv, IngestMergeFails(p) PROVE PInv'
<1> USE DEF PInv
<1> DEFINE g == p.group
<1>1. /\ g \in DOMAIN activeMap /\ activeMap' = [activeMap EXCEPT ![g] = Hydrated(activeMap[g])]
      /\ UNCHANGED <<accepted, disk, seq, frozen, pending, deciding>>
  BY DEF IngestMergeFails, decideVars
<1>2. Holds(Hydrated(activeMap[g]), accepted[g], disk) /\ Hydrated(activeMap[g]).spillKey = NoKey
  BY <1>1, HydratedHolds
<1>3. /\ DOMAIN activeMap' = DOMAIN activeMap
      /\ \A h \in DOMAIN activeMap : h # g => activeMap'[h] = activeMap[h]
      /\ activeMap'[g] = Hydrated(activeMap[g])
  BY <1>1
<1> HIDE DEF g
<1>4. \A h \in DOMAIN activeMap' : Holds(activeMap'[h], accepted'[h], disk')
  BY <1>1, <1>2, <1>3
<1>5. \A h \in DOMAIN activeMap' : activeMap'[h].spillKey \in {NoKey, activeMap[h].spillKey}
  BY <1>2, <1>3
<1>6. Apart(activeMap', frozen' \cup pending') /\ FrozenApart'
  BY SMT, <1>1, <1>3, <1>5 DEF Apart, FrozenApart, SameFile
<1>7. DecidingOK'
  BY <1>1, <1>3, <1>5 DEF DecidingOK, SameFile
<1> QED BY <1>1, <1>3, <1>4, <1>6, <1>7

\* Steps that change neither the groups nor the files.
LEMMA PayloadUnchanged ==
    ASSUME PInv, UNCHANGED <<activeMap, accepted, spillVars, frozen, pending, deciding>>
    PROVE  PInv'
BY DEF PInv, Apart, FrozenApart, DecidingOK, spillVars

LEMMA NextPInv == PInv /\ [Next]_vars => PInv'
<1> SUFFICES ASSUME PInv, [Next]_vars PROVE PInv'
  OBVIOUS
<1> USE DEF wheelVars, decideVars
<1>1. ASSUME NEW c \in Configs, UpdateConfig(c[1], c[2]) PROVE PInv'
  <2>1. /\ UNCHANGED <<activeMap, accepted, disk, seq, frozen, pending>>
        /\ deciding' = IF deciding.step = "idle" THEN deciding ELSE [deciding EXCEPT !.raced = TRUE]
    BY <1>1 DEF UpdateConfig, spillVars
  <2>2. DecidingOK'
    BY <2>1 DEF PInv, DecidingOK
  <2> QED BY <2>1, <2>2 DEF PInv, Apart, FrozenApart
<1>2. ASSUME NEW p \in Packets, IngestRejected(p) PROVE PInv'
  BY <1>2, PayloadUnchanged DEF IngestRejected
<1>3. ASSUME NEW p \in Packets, IngestNew(p) PROVE PInv'
  <2>1. PICK st \in spillIfNeeded(p, disk) :
           disk' = st.disk /\ seq' = st.seq /\ activeMap' = WithGroup(p.group, st)
    BY <1>3 DEF IngestNew
  <2>2. accepted' = [accepted EXCEPT ![p.group] = p.points] /\ UNCHANGED <<frozen, pending, deciding>>
    BY <1>3 DEF IngestNew
  <2>3. /\ p.group \in Groups /\ p.points \in Seq(Nat) /\ p.pointCount = Len(p.points)
        /\ {"points", "pointCount"} \subseteq DOMAIN p
    BY PacketsAssumption
  <2> QED BY <2>1, <2>2, <2>3, Collected
<1>4. ASSUME NEW p \in Packets, IngestMerge(p) PROVE PInv'
  <2> DEFINE g == p.group
             old == activeMap[g]
             dg == Hydrated(old)
             pts == accepted[g] \o p.points
             new == Merged(dg.packet, p)
  <2>1. g \in DOMAIN activeMap /\ UNCHANGED <<frozen, pending, deciding>>
        /\ accepted' = [accepted EXCEPT ![g] = accepted[g] \o p.points]
    BY <1>4 DEF IngestMerge
  <2>2. PICK st \in spillIfNeeded(new, disk) : \E r \in releaseSpill(st.disk, old.spillKey) :
           disk' = r.disk /\ seq' = st.seq /\ activeMap' = WithGroup(g, st)
    BY <1>4 DEF IngestMerge
  <2>3. /\ p.group \in Groups /\ p.points \in Seq(Nat) /\ p.pointCount = Len(p.points)
    BY PacketsAssumption
  <2>4. Holds(dg, accepted[g], disk) /\ dg.packet.points = accepted[g]
    BY SMT, <2>1, HydratedHolds DEF PInv
  <2>5. accepted[g] \in Seq(Nat) /\ dg.packet.pointCount = Len(accepted[g])
    BY <2>4 DEF Holds
  <2>6. pts \in Seq(Nat) /\ Len(pts) = Len(accepted[g]) + Len(p.points)
    BY SMT, <2>3, <2>5
  <2>7. /\ {"points", "pointCount"} \subseteq DOMAIN new
        /\ new.points = pts /\ new.pointCount = dg.packet.pointCount + p.pointCount
    BY <2>4 DEF Merged, mergePacketPayload
  <2> HIDE DEF new, dg, old, pts
  <2>8. disk' \subseteq st.disk /\ \A f \in st.disk \ disk' : f.key = old.spillKey
    BY SMT, <2>2, Released
  <2>9. new.pointCount = Len(pts)
    BY <2>3, <2>5, <2>6, <2>7
  <2>10. accepted' = [accepted EXCEPT ![g] = pts]
    BY <2>1 DEF pts
  <2> QED BY <2>1, <2>2, <2>3, <2>6, <2>7, <2>8, <2>9, <2>10, Collected DEF old
<1>5. ASSUME NEW p \in Packets, IngestHydrateFails(p) PROVE PInv'
  BY <1>5, PayloadUnchanged DEF IngestHydrateFails
<1>6. ASSUME NEW p \in Packets, IngestMergeFails(p) PROVE PInv'
  BY <1>6, MergeFailsKeeps
<1>7. CASE AdvanceStart
  BY <1>7 DEF AdvanceStart, PInv, Apart, FrozenApart, DecidingOK, spillVars
<1>8. CASE AdvanceShard
  BY <1>8, AdvanceKeeps
<1>9. CASE \E e \in pending : DecideHydrate(e)
  BY <1>9, HydrateKeeps
<1>10. CASE DecidePipelines
  <2>1. /\ UNCHANGED <<activeMap, accepted, disk, seq, frozen, pending>> /\ deciding.step # "idle"
        /\ deciding' = [deciding EXCEPT !.step = "match", !.pipelines = PipelinesOf(deciding.entry.key)]
    BY <1>10 DEF DecidePipelines, spillVars
  <2>2. DecidingOK'
    BY <2>1 DEF PInv, DecidingOK
  <2> QED BY <2>1, <2>2 DEF PInv, Apart, FrozenApart
<1>11. CASE DecideFinish
  BY <1>11, FinishKeeps
<1>12. CASE UNCHANGED vars
  BY <1>12, PayloadUnchanged DEF vars
<1> QED BY <1>1, <1>2, <1>3, <1>4, <1>5, <1>6, <1>7, <1>8, <1>9, <1>10, <1>11, <1>12 DEF Next, Ingest

\* A group that Holds its points has them as its Payload.
LEMMA HeldPayload ==
    ASSUME FilesOK(disk, seq), NEW dg, NEW pts, Holds(dg, pts, disk)
    PROVE  Payload(dg) = pts /\ dg.packet.pointCount = Len(pts)
<1>1. CASE dg.spillKey = NoKey
  BY <1>1 DEF Holds, Payload
<1>2. CASE dg.spillKey # NoKey
  <2>1. PICK f \in disk : f.key = dg.spillKey /\ f.points = pts
    BY <1>2 DEF Holds
  <2>2. Spilled(dg.spillKey) = f
    BY <2>1, SpilledIs
  <2> QED BY <1>2, <2>1, <2>2 DEF Holds, Payload
<1> QED BY <1>1, <1>2

LEMMA PInvPayload == PInv => PayloadComplete
<1> SUFFICES ASSUME PInv, NEW h \in Held
             PROVE  Payload(h.group) = h.points /\ h.group.packet.pointCount = Len(h.points)
  BY DEF PayloadComplete
<1>1. Holds(h.group, h.points, disk)
  <2>1. CASE \E g \in DOMAIN activeMap : h = [group |-> activeMap[g], points |-> accepted[g]]
    BY SMT, <2>1 DEF PInv
  <2>2. CASE \E e \in frozen \cup pending : h = [group |-> e.group, points |-> e.points]
    BY SMT, <2>2 DEF PInv
  <2>3. CASE deciding.step # "idle" /\ h = [group |-> deciding.group, points |-> deciding.entry.points]
    BY <2>3 DEF PInv, DecidingOK
  <2> QED BY <2>1, <2>2, <2>3 DEF Held
<1> QED BY <1>1, HeldPayload DEF PInv

\* No point that Ingest accepted is lost, repeated or reordered while its group
\* waits, whatever is merged, compressed, spilled and read back, and whichever
\* of these fails: timewheel.go Ingest, spillIfNeeded, hydrateDataGroup.
THEOREM NothingLost == Spec => []PayloadComplete
BY InitPInv, NextPInv, PInvPayload, PTL DEF Spec

-----------------------------------------------------------------------------
(* What is kept *)

LEMMA KeptStep == PInv /\ KeptComplete /\ [Next]_vars => KeptComplete'
<1> SUFFICES ASSUME PInv, KeptComplete, [Next]_vars PROVE KeptComplete'
  OBVIOUS
<1>1. CASE UNCHANGED outcomes
  BY <1>1 DEF KeptComplete
<1>2. CASE DecideFinish
  <2> DEFINE d == deciding
             read(kept) == kept /\ d.spillKey # NoKey /\ d.group.packet.points = <<>>
  <2>1. PICK kept \in {Keeps(d)}, dg \in {d.group, Hydrated(d.group)} :
           /\ dg = d.group => ~ read(kept) \/ d.group.spillKey = NoKey \/ "get" \in MayFail
           /\ dg # d.group => read(kept)
           /\ outcomes' = outcomes \cup
                {[key |-> d.entry.key, accepted |-> d.entry.points, packet |-> dg.packet,
                  decision |-> IF kept THEN "kept" ELSE "dropped",
                  pipelines |-> d.pipelines, raced |-> d.raced,
                  failed |-> d.failed \/ (read(kept) /\ dg.spillKey # NoKey)]}
    BY <1>2, Zenon DEF DecideFinish
  <2>2. Holds(d.group, d.entry.points, disk) /\ d.group.spillKey \in {NoKey, d.spillKey}
    BY <1>2 DEF DecideFinish, PInv, DecidingOK
  <2>3. ASSUME kept
        PROVE  \/ dg.packet.points = d.entry.points
               \/ dg.packet.points = <<>> /\ read(kept) /\ dg.spillKey # NoKey
    <3>1. CASE dg = Hydrated(d.group)
      BY <3>1, <2>2, HydratedHolds DEF PInv
    <3>2. CASE dg = d.group
      BY <3>2, <2>2, <2>3 DEF Holds
    <3> QED BY <3>1, <3>2
  <2> HIDE DEF d, read
  <2>4. ASSUME NEW o \in outcomes', o.decision = "kept"
        PROVE  o.packet.points = o.accepted \/ (o.failed /\ o.packet.points = <<>>)
    <3>1. CASE o \in outcomes
      BY <3>1, <2>4 DEF KeptComplete
    <3>2. CASE o \notin outcomes
      <4>1. o = [key |-> d.entry.key, accepted |-> d.entry.points, packet |-> dg.packet,
                 decision |-> IF kept THEN "kept" ELSE "dropped",
                 pipelines |-> d.pipelines, raced |-> d.raced,
                 failed |-> d.failed \/ (read(kept) /\ dg.spillKey # NoKey)]
        BY <3>2, <2>1, Zenon
      <4>2. /\ o.accepted = d.entry.points /\ o.packet = dg.packet
            /\ o.decision = IF kept THEN "kept" ELSE "dropped"
        BY <4>1
      <4>3. o.failed = (d.failed \/ (read(kept) /\ dg.spillKey # NoKey))
        BY <4>1, Zenon
      <4>4. kept
        BY <2>4, <4>2
      <4> QED BY <2>3, <4>2, <4>3, <4>4, Zenon
    <3> QED BY <3>1, <3>2
  <2> QED BY <2>4 DEF KeptComplete
<1>3. UNCHANGED outcomes \/ DecideFinish
  BY DEF Next, Ingest, UpdateConfig, IngestRejected, IngestNew, IngestMerge, IngestHydrateFails,
         IngestMergeFails, AdvanceStart, AdvanceShard, DecideHydrate, DecidePipelines, decideVars, vars
<1> QED BY <1>1, <1>2, <1>3

\* "Kept packets are sent downstream and must hold the full payload": they do,
\* or hold nothing when the spiller could not read back what it wrote
\* (TailSamplingOutcomes).
THEOREM KeptPackets == Spec => []KeptComplete
<1>1. Init => KeptComplete
  BY DEF Init, KeptComplete
<1> QED BY <1>1, InitPInv, NextPInv, KeptStep, PTL DEF Spec

-----------------------------------------------------------------------------
(* Spilled files *)

\* A group has this file, or did have it when its decision began.
Owned(key) ==
    \/ \E g \in DOMAIN activeMap : activeMap[g].spillKey = key
    \/ \E e \in frozen \cup pending : e.group.spillKey = key
    \/ deciding.step # "idle" /\ deciding.spillKey = key

\* AdvanceTime has handed over what it collected when it returned.
HandedOver == sweep \in 0..ShardCount /\ (sweep = ShardCount => frozen = {})

\* A file is owned or forgotten, and not both.
OInv ==
    /\ HandedOver
    /\ forgotten \subseteq 1..seq
    /\ \A k \in forgotten : ~ Owned(k)
    /\ \A f \in disk : f.key \in forgotten \/ Owned(f.key)

\* A file that spillIfNeeded adds is the one it names, or one it forgets.
LEMMA SpillKeys ==
    ASSUME NEW packet, NEW fs, NEW st \in spillIfNeeded(packet, fs)
    PROVE  /\ \A f \in st.disk : f \in fs \/ f.key = st.spillKey \/ f.key \in st.forgotten
           /\ st.spillKey \in {NoKey, seq + 1}
           /\ \/ st.forgotten = forgotten /\ st.seq \in {seq, seq + 1}
              \/ st.forgotten = forgotten \cup {seq + 1} /\ st.spillKey = NoKey /\ st.seq = seq + 1
<1>1. CASE st.spillKey = NoKey /\ st.packet = packet /\ st.disk = fs /\ st.seq \in {seq, seq + 1}
           /\ st.forgotten = forgotten
  BY <1>1
<1>2. CASE st.spillKey = NoKey /\ st.packet = packet /\ st.seq = seq + 1
           /\ st.disk = fs \cup {[key |-> seq + 1, points |-> <<>>]}
           /\ st.forgotten = forgotten \cup {seq + 1}
  BY SMT, <1>2
<1>3. CASE st.packet = [packet EXCEPT !.points = <<>>] /\ st.spillKey = seq + 1 /\ st.seq = seq + 1
           /\ st.disk = fs \cup {[key |-> seq + 1, points |-> packet.points]}
           /\ st.forgotten = forgotten
  BY SMT, <1>3
<1> QED BY SMT, <1>1, <1>2, <1>3, SpillCases

\* Ingest: the group's new file is its own, its old one went or is left to nobody.
LEMMA CollectedOwned ==
    ASSUME PInv, OInv, NEW g \in Groups, NEW packet, NEW st \in spillIfNeeded(packet, disk), NEW left,
           disk' \subseteq st.disk,
           \A f \in disk' : g \in DOMAIN activeMap /\ f.key = activeMap[g].spillKey => f.key \in left,
           \A k \in left : g \in DOMAIN activeMap /\ k = activeMap[g].spillKey /\ k # NoKey,
           seq' = st.seq, forgotten' = st.forgotten \cup left, activeMap' = WithGroup(g, st),
           UNCHANGED <<sweep, frozen, pending, deciding>>
    PROVE  OInv'
<1>1. /\ DOMAIN activeMap' = DOMAIN activeMap \cup {g}
      /\ \A h \in DOMAIN activeMap : h # g => activeMap'[h] = activeMap[h]
      /\ activeMap'[g].spillKey = st.spillKey
  BY DEF WithGroup
<1>2. seq \in Nat
  BY DEF PInv, FilesOK
<1>3. ASSUME Owned(seq + 1) PROVE FALSE
  <2>1. /\ FilesOK(disk, seq)
        /\ \A g2 \in DOMAIN activeMap : Holds(activeMap[g2], accepted[g2], disk)
        /\ \A e \in frozen \cup pending : Holds(e.group, e.points, disk)
    BY DEF PInv
  <2>2. \A g2 \in DOMAIN activeMap : activeMap[g2].spillKey # seq + 1
    BY <2>1, HoldsOld
  <2>3. \A e \in frozen \cup pending : e.group.spillKey # seq + 1
    BY <2>1, HoldsOld
  <2>4. deciding.step # "idle" => deciding.spillKey # seq + 1
    <3>1. DecidingOK
      BY DEF PInv
    <3> QED BY SMT, <1>2, <3>1 DEF DecidingOK
  <2> QED BY <1>3, <2>2, <2>3, <2>4 DEF Owned
<1>4. /\ \A f \in disk' : f \in disk \/ f.key = st.spillKey \/ f.key \in st.forgotten
      /\ st.spillKey \in {NoKey, seq + 1}
      /\ \/ st.forgotten = forgotten /\ seq' \in {seq, seq + 1}
         \/ st.forgotten = forgotten \cup {seq + 1} /\ st.spillKey = NoKey /\ seq' = seq + 1
  BY SMT, SpillKeys
<1>5. \A k \in left : k \in 1..seq
  <2>1. ASSUME g \in DOMAIN activeMap, activeMap[g].spillKey # NoKey PROVE activeMap[g].spillKey \in 1..seq
    <3>1. Holds(activeMap[g], accepted[g], disk) /\ \A f \in disk : f.key \in 1..seq
      BY <2>1 DEF PInv, FilesOK
    <3> QED BY <2>1, <3>1 DEF Holds
  <2> QED BY <2>1
<1>6. forgotten' \subseteq 1..seq'
  <2>1. \A k \in forgotten : k \in 1..seq
    BY DEF OInv
  <2>2. seq' \in {seq, seq + 1}
    BY <1>4
  <2>3. \A k \in 1..seq : k \in 1..seq'
    BY SMT, <1>2, <2>2
  <2>4. seq' = seq + 1 => seq + 1 \in 1..seq'
    BY SMT, <1>2
  <2>5. \A k \in st.forgotten : k \in forgotten \/ (k = seq + 1 /\ seq' = seq + 1)
    BY <1>4
  <2> QED BY <1>5, <2>1, <2>3, <2>4, <2>5
<1>7. ASSUME NEW k, k # st.spillKey, Owned(k)' PROVE Owned(k)
  BY <1>1, <1>7 DEF Owned
<1>8. ASSUME NEW k \in left PROVE ~ Owned(k)'
  <2>1. g \in DOMAIN activeMap /\ k = activeMap[g].spillKey /\ k # NoKey
    OBVIOUS
  <2>2. k # st.spillKey
    BY SMT, <1>2, <1>4, <1>5 DEF NoKey
  <2>3. \A h \in DOMAIN activeMap : h # g => activeMap[h].spillKey # k
    BY <2>1 DEF PInv, Apart, SameFile
  <2>4. \A e \in frozen \cup pending : e.group.spillKey # k
    BY <2>1 DEF PInv, Apart, SameFile
  <2>5. deciding.step # "idle" => deciding.spillKey # k
    BY <2>1 DEF PInv, DecidingOK, SameFile
  <2> QED BY <1>1, <2>2, <2>3, <2>4, <2>5 DEF Owned
<1>9. ASSUME NEW k \in st.forgotten PROVE ~ Owned(k)'
  <2>1. ~ Owned(k)
    BY <1>3, <1>4 DEF OInv
  <2>2. k # st.spillKey
    BY SMT, <1>2, <1>4 DEF OInv, NoKey
  <2> QED BY <1>7, <2>1, <2>2
<1>10. ASSUME NEW f \in disk' PROVE f.key \in forgotten' \/ Owned(f.key)'
  <2>1. CASE f.key = st.spillKey
    BY <1>1, <2>1 DEF Owned
  <2>2. CASE f \in disk
    <3>1. CASE g \in DOMAIN activeMap /\ f.key = activeMap[g].spillKey
      BY <3>1
    <3>2. CASE ~ (g \in DOMAIN activeMap /\ f.key = activeMap[g].spillKey)
      <4>1. f.key \in forgotten \/ Owned(f.key)
        BY <2>2 DEF OInv
      <4> QED BY <1>1, <1>4, <3>2, <4>1 DEF Owned
    <3> QED BY <3>1, <3>2
  <2> QED BY <1>4, <2>1, <2>2
<1> QED BY <1>6, <1>8, <1>9, <1>10 DEF OInv, HandedOver

LEMMA NextOInv == PInv /\ OInv /\ [Next]_vars => OInv'
<1> SUFFICES ASSUME PInv, OInv, [Next]_vars PROVE OInv'
  OBVIOUS
<1> USE DEF wheelVars, decideVars, spillVars
<1>1. ASSUME UNCHANGED <<activeMap, sweep, frozen, pending, spillVars>>,
             deciding'.step # "idle" <=> deciding.step # "idle",
             deciding.step # "idle" => deciding'.spillKey = deciding.spillKey
      PROVE  OInv'
  BY <1>1 DEF OInv, HandedOver, Owned
<1>2. ASSUME NEW c \in Configs, UpdateConfig(c[1], c[2]) PROVE OInv'
  <2>1. /\ UNCHANGED <<activeMap, sweep, frozen, pending, spillVars>>
        /\ deciding' = IF deciding.step = "idle" THEN deciding ELSE [deciding EXCEPT !.raced = TRUE]
    BY <1>2 DEF UpdateConfig
  <2>2. /\ deciding'.step # "idle" <=> deciding.step # "idle"
        /\ deciding.step # "idle" => deciding'.spillKey = deciding.spillKey
    BY <2>1 DEF PInv, DecidingOK
  <2> QED BY <1>1, <2>1, <2>2
<1>3. ASSUME NEW p \in Packets, IngestRejected(p) \/ IngestHydrateFails(p) PROVE OInv'
  <2>1. UNCHANGED <<activeMap, sweep, frozen, pending, spillVars, deciding>>
    BY <1>3 DEF IngestRejected, IngestHydrateFails
  <2> QED BY <1>1, <2>1
<1>4. ASSUME NEW p \in Packets, IngestNew(p) PROVE OInv'
  <2>1. PICK st \in spillIfNeeded(p, disk) :
           disk' = st.disk /\ seq' = st.seq /\ forgotten' = st.forgotten /\ activeMap' = WithGroup(p.group, st)
    BY <1>4 DEF IngestNew
  <2>2. p.group \notin DOMAIN activeMap /\ UNCHANGED <<sweep, frozen, pending, deciding>>
    BY <1>4 DEF IngestNew
  <2>3. p.group \in Groups
    BY PacketsAssumption
  <2> DEFINE none == {}
  <2>4. /\ forgotten' = st.forgotten \cup none /\ disk' \subseteq st.disk /\ \A k \in none : FALSE
        /\ \A f \in disk' : ~ (p.group \in DOMAIN activeMap /\ f.key = activeMap[p.group].spillKey)
    BY <2>1, <2>2
  <2> HIDE DEF none
  <2> QED BY SMTT(30), <2>1, <2>2, <2>3, <2>4, CollectedOwned
<1>5. ASSUME NEW p \in Packets, IngestMerge(p) PROVE OInv'
  <2> DEFINE g == p.group
             new == Merged(Hydrated(activeMap[g]).packet, p)
  <2>1. g \in DOMAIN activeMap /\ g \in Groups /\ UNCHANGED <<sweep, frozen, pending, deciding>>
    BY <1>5, PacketsAssumption DEF IngestMerge
  <2>0. PICK st \in spillIfNeeded(new, disk) : \E r \in releaseSpill(st.disk, activeMap[g].spillKey) :
           /\ disk' = r.disk /\ seq' = st.seq /\ forgotten' = st.forgotten \cup r.left
           /\ activeMap' = WithGroup(g, st)
    BY <1>5 DEF IngestMerge
  <2>2. PICK r \in releaseSpill(st.disk, activeMap[g].spillKey) :
           /\ disk' = r.disk /\ seq' = st.seq /\ forgotten' = st.forgotten \cup r.left
           /\ activeMap' = WithGroup(g, st)
    BY <2>0
  <2>3. /\ disk' \subseteq st.disk
        /\ \A f \in disk' : f.key = activeMap[g].spillKey => f.key \in r.left
        /\ \A k \in r.left : k = activeMap[g].spillKey /\ k # NoKey
    BY SMT, <2>2, Released
  <2> HIDE DEF new, g
  <2> QED BY SMTT(30), <2>1, <2>2, <2>3, CollectedOwned
<1>6. ASSUME NEW p \in Packets, IngestMergeFails(p) PROVE OInv'
  <2> DEFINE g == p.group
  <2>0. PICK key : key = activeMap[g].spillKey
    OBVIOUS
  <2>1. /\ g \in DOMAIN activeMap /\ activeMap' = [activeMap EXCEPT ![g] = Hydrated(activeMap[g])]
        /\ UNCHANGED <<sweep, frozen, pending, deciding, disk, seq>>
        /\ forgotten' = forgotten \cup ({key} \ {NoKey})
    BY <1>6, <2>0 DEF IngestMergeFails
  <2>2. Holds(activeMap[g], accepted[g], disk)
    BY <2>1 DEF PInv
  <2>3. Hydrated(activeMap[g]).spillKey = NoKey
    BY <2>2, HydratedHolds DEF PInv
  <2>4. key # NoKey => key \in 1..seq
    BY <2>0, <2>2 DEF PInv, FilesOK, Holds
  <2>5. /\ DOMAIN activeMap' = DOMAIN activeMap /\ activeMap'[g].spillKey = NoKey
        /\ \A h \in DOMAIN activeMap : h # g => activeMap'[h] = activeMap[h]
    BY <2>1, <2>3
  <2>6. \A h \in DOMAIN activeMap : SameFile(activeMap[h].spillKey, key) => h = g
    BY <2>0, <2>1 DEF PInv, Apart
  <2>7. /\ \A e \in frozen \cup pending : ~ SameFile(e.group.spillKey, key)
        /\ deciding.step # "idle" => ~ SameFile(deciding.spillKey, key)
    BY <2>0, <2>1 DEF PInv, Apart, DecidingOK, SameFile
  <2> HIDE DEF g
  <2>8. key # NoKey => ~ Owned(key)'
    BY <2>1, <2>5, <2>6, <2>7 DEF Owned, SameFile
  <2>9. ASSUME NEW k, k # NoKey PROVE Owned(k)' => Owned(k)
    BY <2>1, <2>5, <2>9 DEF Owned
  <2>10. ASSUME NEW k, k # key PROVE Owned(k) => Owned(k)'
    BY <2>0, <2>1, <2>5, <2>10 DEF Owned
  <2>11. \A f \in disk : f.key # NoKey
    BY SMT DEF PInv, FilesOK, NoKey
  <2>12. \A k \in forgotten : k # NoKey /\ ~ Owned(k)
    BY SMT DEF OInv, NoKey
  <2>13. ASSUME NEW k \in forgotten' PROVE ~ Owned(k)'
    <3>1. CASE k \in forgotten
      BY <3>1, <2>9, <2>12
    <3>2. CASE k = key /\ key # NoKey
      BY <3>2, <2>8
    <3> QED BY <3>1, <3>2, <2>1
  <2>14. ASSUME NEW f \in disk' PROVE f.key \in forgotten' \/ Owned(f.key)'
    <3>1. f \in disk /\ f.key # NoKey /\ (f.key \in forgotten \/ Owned(f.key))
      BY <2>1, <2>11 DEF OInv
    <3> QED BY <2>1, <2>10, <3>1
  <2>15. forgotten' \subseteq 1..seq'
    BY <2>1, <2>4 DEF OInv
  <2> QED BY <2>1, <2>13, <2>14, <2>15 DEF OInv, HandedOver
<1>7. CASE AdvanceStart
  BY SMT, <1>7, SizesAssumption DEF AdvanceStart, OInv, HandedOver, Owned
<1>8. CASE AdvanceShard
  <2> DEFINE pos == (currentPos[sweep] + 1) % WheelSize
             expired == slots[sweep][pos] \cap DOMAIN activeMap
             moved == {[key |-> g, group |-> activeMap[g], points |-> accepted[g]] : g \in expired}
  <2>1. /\ DOMAIN activeMap' = DOMAIN activeMap \ expired
        /\ \A g \in DOMAIN activeMap' : activeMap'[g] = activeMap[g]
        /\ frozen' \cup pending' = frozen \cup pending \cup moved
        /\ UNCHANGED <<spillVars, deciding>>
    BY <1>8 DEF AdvanceShard
  <2>2. HandedOver'
    BY SMT, <1>8, SizesAssumption DEF AdvanceShard, OInv, HandedOver
  <2>3. ASSUME NEW g \in expired PROVE \E e \in moved : e.group.spillKey = activeMap[g].spillKey
    <3> DEFINE e == [key |-> g, group |-> activeMap[g], points |-> accepted[g]]
    <3>1. e \in moved /\ e.group = activeMap[g]
      OBVIOUS
    <3> HIDE DEF e, moved
    <3> QED BY <3>1
  <2>4. \A e \in moved : \E g \in DOMAIN activeMap : e.group.spillKey = activeMap[g].spillKey
    BY SMT
  <2> HIDE DEF expired, moved
  <2>5. ASSUME NEW k PROVE Owned(k)' <=> Owned(k)
    BY <2>1, <2>3, <2>4 DEF Owned
  <2> QED BY <2>1, <2>2, <2>5 DEF OInv
<1>9. CASE \E e \in pending : DecideHydrate(e)
  <2>1. PICK e \in pending : DecideHydrate(e)
    BY <1>9
  <2>2. /\ pending' = pending \ {e} /\ deciding.step = "idle"
        /\ UNCHANGED <<activeMap, sweep, frozen, spillVars>>
        /\ deciding'.step # "idle" /\ deciding'.spillKey = e.group.spillKey
    <3>1. deciding'.step = "pipelines" /\ deciding'.spillKey = e.group.spillKey
      BY SMT, <2>1, DecidesEntry
    <3> QED BY <2>1, <3>1 DEF DecideHydrate
  <2>3. ASSUME NEW k PROVE Owned(k)' <=> Owned(k)
    BY <2>2 DEF Owned
  <2> QED BY <2>2, <2>3 DEF OInv, HandedOver
<1>10. CASE DecidePipelines
  <2>1. /\ UNCHANGED <<activeMap, sweep, frozen, pending, spillVars>> /\ deciding.step = "pipelines"
        /\ deciding' = [deciding EXCEPT !.step = "match", !.pipelines = PipelinesOf(deciding.entry.key)]
    BY <1>10 DEF DecidePipelines
  <2>2. deciding'.step # "idle" /\ deciding'.spillKey = deciding.spillKey
    BY <2>1 DEF PInv, DecidingOK
  <2> QED BY <1>1, <2>1, <2>2
<1>11. CASE DecideFinish
  <2>0. PICK r \in releaseSpill(disk, deciding.spillKey) : disk' = r.disk /\ forgotten' = forgotten \cup r.left
    BY <1>11 DEF DecideFinish
  <2>1. /\ deciding.step # "idle" /\ deciding' = [step |-> "idle"]
        /\ UNCHANGED <<activeMap, sweep, frozen, pending, seq>>
    BY <1>11 DEF DecideFinish
  <2>2. ASSUME NEW k PROVE /\ Owned(k)' => Owned(k)
                           /\ k # deciding.spillKey /\ Owned(k) => Owned(k)'
    BY <2>1 DEF Owned
  <2>3. /\ disk' \subseteq disk
        /\ \A f \in disk' : f.key = deciding.spillKey => f.key \in r.left
        /\ \A k \in r.left : k = deciding.spillKey /\ k # NoKey
    BY SMT, <2>0, Released
  <2>4. ASSUME NEW k \in r.left PROVE k \in 1..seq /\ ~ Owned(k)'
    <3>1. DecidingOK /\ seq \in Nat
      BY DEF PInv, FilesOK
    <3>2. k \in 1..seq
      BY SMT, <2>1, <2>3, <3>1 DEF DecidingOK, NoKey
    <3>3. ~ Owned(k)'
      BY <2>1, <2>3, <3>1 DEF DecidingOK, Owned, SameFile
    <3> QED BY <3>2, <3>3
  <2>5. \A f \in disk' : f.key \in forgotten' \/ Owned(f.key)'
    BY <2>0, <2>2, <2>3 DEF OInv
  <2>6. forgotten' \subseteq 1..seq' /\ \A k \in forgotten' : ~ Owned(k)'
    BY <2>0, <2>1, <2>2, <2>4 DEF OInv
  <2> QED BY <2>1, <2>5, <2>6 DEF OInv, HandedOver
<1>12. CASE UNCHANGED vars
  BY <1>1, <1>12 DEF vars
<1> QED BY <1>2, <1>3, <1>4, <1>5, <1>6, <1>7, <1>8, <1>9, <1>10, <1>11, <1>12 DEF Next, Ingest

\* A spill file has exactly one owner, a group that still needs it or the one
\* that is being decided; only a Put, a Delete or a merge that fails leaves one
\* behind (timewheel.go spillIfNeeded, releaseSpill, TailSamplingOutcomes).
THEOREM FilesOwned == Spec => []SpillOwned
<1>1. Init => OInv
  BY SMT, SizesAssumption DEF Init, OInv, HandedOver
<1>2. PInv /\ OInv => SpillOwned
  <2> SUFFICES ASSUME PInv, OInv PROVE SpillOwned
    OBVIOUS
  <2> DEFINE Owners(f) == {g \in DOMAIN activeMap : activeMap[g].spillKey = f.key}
             Waiting(f) == {e \in frozen \cup pending : e.group.spillKey = f.key}
             Decides(f) == deciding.step # "idle" /\ deciding.spillKey = f.key
  <2>1. ASSUME NEW f \in disk
        PROVE  Cardinality(Owners(f)) + Cardinality(Waiting(f)) + (IF Decides(f) THEN 1 ELSE 0)
               = IF f.key \in forgotten THEN 0 ELSE 1
    <3>1. f.key # NoKey /\ (f.key \in forgotten <=> ~ Owned(f.key))
      BY SMT DEF PInv, FilesOK, OInv, NoKey
    <3>2. Cardinality({}) = 0
      BY FS_EmptySet
    <3>3. ASSUME NEW g \in DOMAIN activeMap, activeMap[g].spillKey = f.key
          PROVE  Owners(f) = {g} /\ Waiting(f) = {} /\ ~ Decides(f)
      BY <3>1, <3>3 DEF PInv, Apart, SameFile, DecidingOK
    <3>4. ASSUME NEW e \in frozen \cup pending, e.group.spillKey = f.key
          PROVE  Owners(f) = {} /\ Waiting(f) = {e} /\ ~ Decides(f)
      BY <3>1, <3>4 DEF PInv, Apart, SameFile, DecidingOK
    <3>5. ASSUME Decides(f)
          PROVE  Owners(f) = {} /\ Waiting(f) = {}
      BY <3>1, <3>5 DEF PInv, SameFile, DecidingOK
    <3>6. CASE f.key \in forgotten
      <4>1. Owners(f) = {} /\ Waiting(f) = {} /\ ~ Decides(f)
        <5>1. ~ Owned(f.key)
          BY <3>1, <3>6
        <5> QED BY <5>1 DEF Owned
      <4> HIDE DEF Owners, Waiting, Decides
      <4> QED BY SMT, <3>2, <3>6, <4>1
    <3> HIDE DEF Owners, Waiting
    <3>7. CASE f.key \notin forgotten /\ \E g \in DOMAIN activeMap : activeMap[g].spillKey = f.key
      <4>1. PICK g \in DOMAIN activeMap : activeMap[g].spillKey = f.key
        BY <3>7
      <4>2. Cardinality({g}) = 1
        BY FS_Singleton
      <4>3. Owners(f) = {g} /\ Waiting(f) = {} /\ ~ Decides(f)
        BY <3>3, <4>1
      <4> HIDE DEF Decides
      <4> QED BY SMT, <3>2, <3>7, <4>2, <4>3
    <3>8. CASE f.key \notin forgotten /\ \E e \in frozen \cup pending : e.group.spillKey = f.key
      <4>1. PICK e \in frozen \cup pending : e.group.spillKey = f.key
        BY <3>8
      <4>2. Cardinality({e}) = 1
        BY FS_Singleton
      <4>3. Owners(f) = {} /\ Waiting(f) = {e} /\ ~ Decides(f)
        BY <3>4, <4>1
      <4> HIDE DEF Decides
      <4> QED BY SMT, <3>2, <3>8, <4>2, <4>3
    <3>9. CASE f.key \notin forgotten /\ Decides(f)
      BY SMT, <3>2, <3>5, <3>9
    <3> QED BY <3>1, <3>7, <3>8, <3>9, <3>6 DEF Owned
  <2> QED BY <2>1 DEF SpillOwned
<1> QED BY <1>1, <1>2, InitPInv, NextPInv, NextOInv, PTL DEF Spec

-----------------------------------------------------------------------------
(* The refinement of GroupBuffer *)

\* No point is in both.
Disjoint(s, t) == \A i \in DOMAIN s, j \in DOMAIN t : s[i] # t[j]

\* The groups that have expired and are not decided yet.
Entries == frozen \cup pending \cup (IF deciding.step = "idle" THEN {} ELSE {deciding.entry})

\* Points that may still come, that wait in the map or that have expired are
\* different points.
UnsentApart ==
    \A p, q \in unsent : /\ p.points # <<>>
                         /\ p # q /\ p.group = q.group => Disjoint(p.points, q.points)
ActiveApart ==
    \A g \in DOMAIN activeMap :
        /\ accepted[g] # <<>>
        /\ \A p \in unsent : p.group = g => Disjoint(p.points, accepted[g])
EntriesApart ==
    /\ \A e \in Entries :
        /\ e.points # <<>>
        /\ \A p \in unsent : p.group = e.key => Disjoint(p.points, e.points)
        /\ e.key \in DOMAIN activeMap => Disjoint(accepted[e.key], e.points)
    /\ \A e1, e2 \in Entries : e1 # e2 /\ e1.key = e2.key => Disjoint(e1.points, e2.points)

\* An expired group is in one place.
OnePlace ==
    /\ frozen \cap pending = {}
    /\ deciding.step # "idle" => deciding.entry \notin frozen \cup pending

RInv == UnsentApart /\ ActiveApart /\ EntriesApart /\ OnePlace

\* The points of two payloads that are merged.
LEMMA Concatenation ==
    ASSUME NEW s \in Seq(Nat), NEW t \in Seq(Nat)
    PROVE  /\ t # <<>> => s \o t # <<>>
           /\ \A j \in DOMAIN (s \o t) : \/ \E k \in DOMAIN s : (s \o t)[j] = s[k]
                                         \/ \E k \in DOMAIN t : (s \o t)[j] = t[k]
<1>1. Len(s \o t) = Len(s) + Len(t) /\ Len(s) \in Nat /\ Len(t) \in Nat /\ s \o t \in Seq(Nat)
  BY SMT
<1>2. t # <<>> => s \o t # <<>>
  <2>1. t # <<>> => Len(t) # 0
    BY SMT
  <2>2. s \o t = <<>> => Len(s \o t) = 0
    BY SMT
  <2> QED BY SMT, <1>1, <2>1, <2>2
<1>3. ASSUME NEW j \in DOMAIN (s \o t)
      PROVE  \/ \E k \in DOMAIN s : (s \o t)[j] = s[k]
             \/ \E k \in DOMAIN t : (s \o t)[j] = t[k]
  <2>1. j \in 1..Len(s) + Len(t)
    BY SMT, <1>1
  <2>2. CASE j <= Len(s)
    <3>1. j \in DOMAIN s /\ (s \o t)[j] = s[j]
      BY SMT, <2>1, <2>2
    <3> QED BY <3>1
  <2>3. CASE j > Len(s)
    <3>1. j - Len(s) \in DOMAIN t /\ (s \o t)[j] = t[j - Len(s)]
      BY SMT, <1>1, <2>1, <2>3
    <3> QED BY <3>1
  <2> QED BY SMT, <1>1, <2>1, <2>2, <2>3
<1> QED BY <1>2, <1>3

LEMMA InitRInv == Init => RInv
<1> SUFFICES ASSUME Init PROVE RInv
  OBVIOUS
<1>1. unsent \in Workloads /\ DOMAIN activeMap = {} /\ Entries = {}
  BY DEF Init, Entries
<1>2. UnsentApart
  BY <1>1, WorkloadsAssumption DEF UnsentApart, Disjoint
<1> QED BY <1>1, <1>2 DEF Init, RInv, ActiveApart, EntriesApart, OnePlace

\* What Ingest takes is different from all that is there.
LEMMA IngestRInv ==
    ASSUME PInv, RInv, NEW p \in unsent, p \in Packets, NEW pts \in Seq(Nat),
           p.group \in DOMAIN activeMap => pts = accepted[p.group] \o p.points,
           p.group \notin DOMAIN activeMap => pts = p.points,
           unsent' = unsent \ {p}, DOMAIN activeMap' = DOMAIN activeMap \cup {p.group},
           accepted' = [accepted EXCEPT ![p.group] = pts],
           UNCHANGED <<frozen, pending, deciding>>
    PROVE  RInv'
<1> DEFINE g == p.group
<1>1. /\ DOMAIN accepted = Groups /\ g \in Groups /\ p.points \in Seq(Nat) /\ p.points # <<>>
      /\ DOMAIN activeMap \subseteq Groups
  BY PacketsAssumption DEF PInv, RInv, UnsentApart
<1>2. /\ accepted'[g] = pts
      /\ \A h \in Groups : h # g => accepted'[h] = accepted[h]
  BY <1>1
<1>3. Entries' = Entries
  BY DEF Entries
<1>4. ASSUME NEW t, Disjoint(t, p.points), g \in DOMAIN activeMap => Disjoint(t, accepted[g])
      PROVE  Disjoint(t, pts)
  <2>1. CASE g \notin DOMAIN activeMap
    BY <1>4, <2>1
  <2>2. CASE g \in DOMAIN activeMap
    <3>1. accepted[g] \in Seq(Nat)
      BY <2>2 DEF PInv, Holds
    <3>2. ASSUME NEW j \in DOMAIN pts
          PROVE  \/ \E k \in DOMAIN accepted[g] : pts[j] = accepted[g][k]
                 \/ \E k \in DOMAIN p.points : pts[j] = p.points[k]
      <4>1. pts = accepted[g] \o p.points
        BY <2>2
      <4>2. \A i \in DOMAIN (accepted[g] \o p.points) :
               \/ \E k \in DOMAIN accepted[g] : (accepted[g] \o p.points)[i] = accepted[g][k]
               \/ \E k \in DOMAIN p.points : (accepted[g] \o p.points)[i] = p.points[k]
        BY <1>1, <3>1, Concatenation
      <4> QED BY <4>1, <4>2
    <3> QED BY <1>4, <2>2, <3>2 DEF Disjoint
  <2> QED BY <2>1, <2>2
<1>5. pts # <<>>
  <2>1. CASE g \in DOMAIN activeMap
    <3>1. accepted[g] \in Seq(Nat)
      BY <2>1 DEF PInv, Holds
    <3> QED BY <1>1, <2>1, <3>1, Concatenation
  <2> QED BY <1>1, <2>1
<1>6. UnsentApart'
  BY DEF RInv, UnsentApart
<1>7. ASSUME NEW s, NEW t, Disjoint(s, t) PROVE Disjoint(t, s)
  BY <1>7 DEF Disjoint
<1>8. ASSUME NEW h \in DOMAIN activeMap'
      PROVE  /\ accepted'[h] # <<>>
             /\ \A q \in unsent' : q.group = h => Disjoint(q.points, accepted'[h])
  <2>1. CASE h = g
    <3>1. ASSUME NEW q \in unsent', q.group = g PROVE Disjoint(q.points, pts)
      <4>1. q \in unsent /\ q # p
        OBVIOUS
      <4>2. Disjoint(q.points, p.points)
        BY <3>1, <4>1 DEF RInv, UnsentApart
      <4>3. g \in DOMAIN activeMap => Disjoint(q.points, accepted[g])
        BY <3>1, <4>1 DEF RInv, ActiveApart
      <4> QED BY <1>4, <4>2, <4>3
    <3> QED BY <1>2, <1>5, <2>1, <3>1
  <2>2. CASE h # g
    <3>1. h \in DOMAIN activeMap /\ accepted'[h] = accepted[h]
      BY <1>1, <1>2, <2>2
    <3> QED BY <3>1 DEF RInv, ActiveApart
  <2> QED BY <2>1, <2>2
<1>9. ASSUME NEW e \in Entries', e.key \in DOMAIN activeMap'
      PROVE  Disjoint(accepted'[e.key], e.points)
  <2>1. CASE e.key = g
    <3>1. Disjoint(e.points, p.points)
      BY <1>3, <1>7, <2>1 DEF RInv, EntriesApart
    <3>2. g \in DOMAIN activeMap => Disjoint(e.points, accepted[g])
      BY <1>3, <1>7, <2>1 DEF RInv, EntriesApart
    <3>3. Disjoint(e.points, pts)
      BY <1>4, <3>1, <3>2
    <3> QED BY <1>2, <1>7, <2>1, <3>3
  <2>2. CASE e.key # g
    <3>1. e.key \in DOMAIN activeMap /\ accepted'[e.key] = accepted[e.key]
      BY <1>1, <1>2, <1>9, <2>2
    <3> QED BY <1>3, <3>1 DEF RInv, EntriesApart
  <2> QED BY <2>1, <2>2
<1> HIDE DEF g
<1>10. EntriesApart'
  <2>1. \A e \in Entries' : /\ e.points # <<>>
                            /\ \A q \in unsent' : q.group = e.key => Disjoint(q.points, e.points)
    BY <1>3 DEF RInv, EntriesApart
  <2>2. \A e1, e2 \in Entries' : e1 # e2 /\ e1.key = e2.key => Disjoint(e1.points, e2.points)
    BY <1>3 DEF RInv, EntriesApart
  <2> QED BY <1>9, <2>1, <2>2 DEF EntriesApart
<1>11. OnePlace'
  BY DEF RInv, OnePlace
<1>12. ActiveApart'
  BY <1>8 DEF ActiveApart
<1> QED BY <1>6, <1>10, <1>11, <1>12 DEF RInv

\* Steps that move no points, or drop a packet.
LEMMA RInvKept ==
    ASSUME RInv, unsent' \subseteq unsent, DOMAIN activeMap' = DOMAIN activeMap, UNCHANGED accepted,
           Entries' = Entries, OnePlace'
    PROVE  RInv'
<1>1. UnsentApart' /\ ActiveApart'
  BY DEF RInv, UnsentApart, ActiveApart
<1>2. EntriesApart'
  BY DEF RInv, EntriesApart
<1> QED BY <1>1, <1>2 DEF RInv

LEMMA AdvanceRInv == PInv /\ RInv /\ AdvanceShard => RInv'
<1> SUFFICES ASSUME PInv, RInv, AdvanceShard PROVE RInv'
  OBVIOUS
<1> DEFINE pos == (currentPos[sweep] + 1) % WheelSize
           expired == slots[sweep][pos] \cap DOMAIN activeMap
           moved == {[key |-> g, group |-> activeMap[g], points |-> accepted[g]] : g \in expired}
<1>1. /\ DOMAIN activeMap' = DOMAIN activeMap \ expired
      /\ frozen' \cup pending' = frozen \cup pending \cup moved
      /\ UNCHANGED <<deciding, unsent>>
      /\ \/ frozen' = {}
         \/ frozen' = frozen \cup moved /\ pending' = pending
  BY DEF AdvanceShard
<1>2. \A g \in DOMAIN activeMap' : accepted'[g] = accepted[g]
  BY <1>1 DEF AdvanceShard, PInv
<1>3. Entries' = Entries \cup moved
  BY <1>1 DEF Entries
<1>4. \A e \in moved : e.key \in expired /\ e.key \in DOMAIN activeMap /\ e.points = accepted[e.key]
                       /\ e = [key |-> e.key, group |-> activeMap[e.key], points |-> accepted[e.key]]
  BY SMT
<1>5. \A g \in expired : accepted[g] \in Seq(Nat) /\ accepted[g] # <<>>
  BY DEF PInv, Holds, RInv, ActiveApart
<1> HIDE DEF moved, expired
<1>6. UnsentApart' /\ ActiveApart'
  BY <1>1, <1>2 DEF RInv, UnsentApart, ActiveApart
<1>7. ASSUME NEW s, NEW t, Disjoint(s, t) PROVE Disjoint(t, s)
  BY <1>7 DEF Disjoint
<1>8. ASSUME NEW e \in Entries'
      PROVE  /\ e.points # <<>>
             /\ \A p \in unsent' : p.group = e.key => Disjoint(p.points, e.points)
             /\ e.key \in DOMAIN activeMap' => Disjoint(accepted'[e.key], e.points)
  <2>1. CASE e \in Entries
    BY <1>1, <1>2, <2>1 DEF RInv, EntriesApart
  <2>2. CASE e \in moved
    BY <1>1, <1>4, <1>5, <2>2 DEF RInv, ActiveApart
  <2> QED BY <1>3, <2>1, <2>2
<1>9. ASSUME NEW e1 \in Entries', NEW e2 \in Entries', e1 # e2, e1.key = e2.key
      PROVE  Disjoint(e1.points, e2.points)
  <2>1. CASE e1 \in Entries /\ e2 \in Entries
    BY <1>9, <2>1 DEF RInv, EntriesApart
  <2>2. CASE e1 \in moved /\ e2 \in moved
    BY <1>4, <1>9, <2>2
  <2>3. CASE e1 \in moved /\ e2 \in Entries
    BY <1>4, <1>9, <2>3 DEF RInv, EntriesApart
  <2>4. CASE e1 \in Entries /\ e2 \in moved
    <3>1. Disjoint(e2.points, e1.points)
      BY <1>4, <1>9, <2>4 DEF RInv, EntriesApart
    <3> QED BY <1>7, <3>1
  <2> QED BY <1>3, <2>1, <2>2, <2>3, <2>4
<1>10. ASSUME NEW e \in moved PROVE e \notin Entries
  <2>1. e.points \in Seq(Nat) /\ e.points # <<>> /\ e.key \in DOMAIN activeMap /\ e.points = accepted[e.key]
    BY <1>4, <1>5
  <2>2. ~ Disjoint(e.points, e.points)
    <3>1. 1 \in DOMAIN e.points
      BY SMT, <2>1
    <3> QED BY <3>1 DEF Disjoint
  <2> QED BY <2>1, <2>2 DEF RInv, EntriesApart
<1>11. OnePlace'
  BY <1>1, <1>10 DEF RInv, OnePlace, Entries
<1> QED BY <1>6, <1>8, <1>9, <1>11 DEF RInv, EntriesApart

LEMMA NextRInv == PInv /\ RInv /\ HandedOver /\ [Next]_vars => RInv'
<1> SUFFICES ASSUME PInv, RInv, HandedOver, [Next]_vars PROVE RInv'
  OBVIOUS
<1> USE DEF wheelVars, decideVars, spillVars
<1>1. ASSUME NEW c \in Configs, UpdateConfig(c[1], c[2]) PROVE RInv'
  <2>1. /\ UNCHANGED <<unsent, activeMap, accepted, frozen, pending>>
        /\ deciding' = IF deciding.step = "idle" THEN deciding ELSE [deciding EXCEPT !.raced = TRUE]
    BY <1>1 DEF UpdateConfig
  <2>2. /\ deciding'.step # "idle" <=> deciding.step # "idle"
        /\ deciding.step # "idle" => deciding'.entry = deciding.entry
    BY <2>1 DEF PInv, DecidingOK
  <2>3. Entries' = Entries /\ OnePlace'
    BY <2>1, <2>2 DEF Entries, RInv, OnePlace
  <2> QED BY <2>1, <2>3, RInvKept
<1>2. ASSUME NEW p \in Packets, IngestRejected(p) \/ IngestHydrateFails(p) \/ IngestMergeFails(p) PROVE RInv'
  <2>1. /\ unsent' \subseteq unsent /\ DOMAIN activeMap' = DOMAIN activeMap
        /\ UNCHANGED <<accepted, frozen, pending, deciding>>
    BY <1>2 DEF IngestRejected, IngestHydrateFails, IngestMergeFails
  <2>2. Entries' = Entries /\ OnePlace'
    BY <2>1 DEF Entries, RInv, OnePlace
  <2> QED BY <2>1, <2>2, RInvKept
<1>3. ASSUME NEW p \in Packets, IngestNew(p) PROVE RInv'
  <2>1. /\ p \in unsent /\ p.group \notin DOMAIN activeMap /\ unsent' = unsent \ {p}
        /\ accepted' = [accepted EXCEPT ![p.group] = p.points] /\ UNCHANGED <<frozen, pending, deciding>>
        /\ DOMAIN activeMap' = DOMAIN activeMap \cup {p.group}
    BY <1>3 DEF IngestNew, WithGroup
  <2>2. p.points \in Seq(Nat)
    BY PacketsAssumption
  <2> QED BY <2>1, <2>2, IngestRInv
<1>4. ASSUME NEW p \in Packets, IngestMerge(p) PROVE RInv'
  <2> DEFINE pts == accepted[p.group] \o p.points
  <2>1. /\ p \in unsent /\ p.group \in DOMAIN activeMap /\ unsent' = unsent \ {p}
        /\ accepted' = [accepted EXCEPT ![p.group] = pts] /\ UNCHANGED <<frozen, pending, deciding>>
        /\ DOMAIN activeMap' = DOMAIN activeMap \cup {p.group}
    BY <1>4 DEF IngestMerge, WithGroup
  <2>2. p.points \in Seq(Nat) /\ accepted[p.group] \in Seq(Nat)
    BY <2>1, PacketsAssumption DEF PInv, Holds
  <2>3. pts \in Seq(Nat)
    BY SMT, <2>2
  <2> HIDE DEF pts
  <2> QED BY <2>1, <2>3, IngestRInv DEF pts
<1>5. CASE AdvanceStart
  <2>1. UNCHANGED <<unsent, activeMap, accepted, frozen, pending, deciding>>
    BY <1>5 DEF AdvanceStart, HandedOver
  <2>2. Entries' = Entries /\ OnePlace'
    BY <2>1 DEF Entries, RInv, OnePlace
  <2> QED BY <2>1, <2>2, RInvKept
<1>6. CASE AdvanceShard
  BY <1>6, AdvanceRInv
<1>7. CASE \E e \in pending : DecideHydrate(e)
  <2>1. PICK e \in pending : DecideHydrate(e)
    BY <1>7
  <2>2. /\ pending' = pending \ {e} /\ deciding.step = "idle"
        /\ UNCHANGED <<unsent, activeMap, accepted, frozen>>
    BY <2>1 DEF DecideHydrate
  <2>3. deciding'.step # "idle" /\ deciding'.entry = e
    BY SMT, <2>1, DecidesEntry
  <2>4. Entries' = Entries /\ OnePlace'
    BY <2>2, <2>3 DEF Entries, RInv, OnePlace
  <2> QED BY <2>2, <2>4, RInvKept
<1>8. CASE DecidePipelines
  <2>1. /\ UNCHANGED <<unsent, activeMap, accepted, frozen, pending>> /\ deciding.step = "pipelines"
        /\ deciding' = [deciding EXCEPT !.step = "match", !.pipelines = PipelinesOf(deciding.entry.key)]
    BY <1>8 DEF DecidePipelines
  <2>2. deciding'.step # "idle" /\ deciding'.entry = deciding.entry
    BY <2>1 DEF PInv, DecidingOK
  <2>3. Entries' = Entries /\ OnePlace'
    BY <2>1, <2>2 DEF Entries, RInv, OnePlace
  <2> QED BY <2>1, <2>3, RInvKept
<1>9. CASE DecideFinish
  <2>1. deciding' = [step |-> "idle"] /\ UNCHANGED <<unsent, activeMap, accepted, frozen, pending>>
    BY <1>9 DEF DecideFinish
  <2>2. Entries' \subseteq Entries
    BY <2>1 DEF Entries
  <2>3. UnsentApart' /\ ActiveApart' /\ OnePlace'
    BY <2>1 DEF RInv, UnsentApart, ActiveApart, OnePlace
  <2>4. EntriesApart'
    BY <2>1, <2>2 DEF RInv, EntriesApart
  <2> QED BY <2>3, <2>4 DEF RInv
<1>10. CASE UNCHANGED vars
  <2>1. UNCHANGED <<unsent, activeMap, accepted, frozen, pending, deciding>>
    BY <1>10 DEF vars
  <2>2. Entries' = Entries /\ OnePlace'
    BY <2>1 DEF Entries, RInv, OnePlace
  <2> QED BY <2>1, <2>2, RInvKept
<1> QED BY <1>1, <1>2, <1>3, <1>4, <1>5, <1>6, <1>7, <1>8, <1>9, <1>10 DEF Next, Ingest

\* The mapped state.
Coll == [g \in Groups |-> IF g \in DOMAIN activeMap THEN Payload(activeMap[g]) ELSE <<>>]
Dec == {[key |-> o.key, points |-> o.accepted,
         sent |-> IF o.decision = "kept" THEN o.packet.points ELSE <<>>] : o \in outcomes}

Tagged(e) == [key |-> e.key, points |-> e.points]

\* The payloads are the points accepted.
Mapping ==
    /\ Coll = [g \in Groups |-> IF g \in DOMAIN activeMap THEN accepted[g] ELSE <<>>]
    /\ Closing = {Tagged(e) : e \in Entries}

LEMMA Mapped == PInv => Mapping
<1> SUFFICES ASSUME PInv PROVE Mapping
  OBVIOUS
<1>1. \A g \in DOMAIN activeMap : Payload(activeMap[g]) = accepted[g]
  BY HeldPayload DEF PInv
<1>2. \A e \in frozen \cup pending : Payload(e.group) = e.points
  BY HeldPayload DEF PInv
<1>3. deciding.step # "idle" => Payload(deciding.group) = deciding.entry.points
  BY HeldPayload DEF PInv, DecidingOK
<1>4. Coll = [g \in Groups |-> IF g \in DOMAIN activeMap THEN accepted[g] ELSE <<>>]
  BY <1>1 DEF Coll
<1>5. Closing = {Tagged(e) : e \in Entries}
  BY <1>2, <1>3 DEF Closing, Tagged, Entries
<1> QED BY <1>4, <1>5 DEF Mapping

\* The steps of GroupBuffer on the mapped state.
LEMMA CollectStep ==
    ASSUME NEW p \in Packets, Coll' = [Coll EXCEPT ![p.group] = Coll[p.group] \o p.points], UNCHANGED <<Closing, Dec>>
    PROVE  Buffer!GBNext
<1>1. p.group \in Groups /\ p.points \in {q.points : q \in Packets}
  BY PacketsAssumption
<1>2. Buffer!Collect(p.group, p.points)
  BY DEF Buffer!Collect, Coll, Dec
<1> QED BY <1>1, <1>2 DEF Buffer!GBNext

LEMMA CloseStep ==
    ASSUME NEW S \in SUBSET Groups, \A g \in S : Coll[g] # <<>>,
           Coll' = [g \in Groups |-> IF g \in S THEN <<>> ELSE Coll[g]],
           Closing' = Closing \cup {[key |-> g, points |-> Coll[g]] : g \in S}, UNCHANGED Dec
    PROVE  Buffer!GBNext
<1>1. S \in SUBSET {g \in Groups : Coll[g] # <<>>}
  OBVIOUS
<1>2. Buffer!CloseGroups(S)
  BY DEF Buffer!CloseGroups, Coll, Dec
<1> QED BY <1>1, <1>2 DEF Buffer!GBNext, Coll

LEMMA DecideStep ==
    ASSUME NEW e \in Closing, NEW sent \in {<<>>, e.points}, Closing' = Closing \ {e},
           Dec' = Dec \cup {[key |-> e.key, points |-> e.points, sent |-> sent]}, UNCHANGED Coll
    PROVE  Buffer!GBNext
<1>1. Buffer!Decide(e, sent)
  BY DEF Buffer!Decide, Coll, Dec
<1> QED BY <1>1 DEF Buffer!GBNext

LEMMA StutterStep ==
    ASSUME UNCHANGED <<Coll, Closing, Dec>>
    PROVE  UNCHANGED Buffer!gbVars
BY DEF Buffer!gbVars, Coll, Dec

LEMMA BufferStep ==
    ASSUME PInv, RInv, HandedOver, Mapping, Mapping', [Next]_vars
    PROVE  [Buffer!GBNext]_(Buffer!gbVars)
<1> USE DEF wheelVars, decideVars, spillVars
<1>0. ASSUME DOMAIN activeMap' = DOMAIN activeMap, UNCHANGED <<accepted, outcomes>>, Entries' = Entries
      PROVE  [Buffer!GBNext]_(Buffer!gbVars)
  <2>1. UNCHANGED <<Coll, Closing, Dec>>
    BY <1>0 DEF Mapping, Dec, Tagged
  <2> QED BY <2>1, StutterStep
<1>1. ASSUME NEW c \in Configs, UpdateConfig(c[1], c[2]) PROVE [Buffer!GBNext]_(Buffer!gbVars)
  <2>1. /\ UNCHANGED <<activeMap, accepted, outcomes, frozen, pending>>
        /\ deciding' = IF deciding.step = "idle" THEN deciding ELSE [deciding EXCEPT !.raced = TRUE]
    BY <1>1 DEF UpdateConfig
  <2>2. /\ deciding'.step # "idle" <=> deciding.step # "idle"
        /\ deciding.step # "idle" => deciding'.entry = deciding.entry
    BY <2>1 DEF PInv, DecidingOK
  <2>3. Entries' = Entries
    BY <2>1, <2>2 DEF Entries
  <2> QED BY <1>0, <2>1, <2>3
<1>2. ASSUME NEW p \in Packets, IngestRejected(p) \/ IngestHydrateFails(p) \/ IngestMergeFails(p)
      PROVE  [Buffer!GBNext]_(Buffer!gbVars)
  <2>1. DOMAIN activeMap' = DOMAIN activeMap /\ UNCHANGED <<accepted, outcomes, frozen, pending, deciding>>
    BY <1>2 DEF IngestRejected, IngestHydrateFails, IngestMergeFails
  <2>2. Entries' = Entries
    BY <2>1 DEF Entries
  <2> QED BY <1>0, <2>1, <2>2
<1>3. ASSUME NEW p \in Packets, NEW pts,
             p.group \in DOMAIN activeMap => pts = accepted[p.group] \o p.points,
             p.group \notin DOMAIN activeMap => pts = p.points,
             DOMAIN activeMap' = DOMAIN activeMap \cup {p.group},
             accepted' = [accepted EXCEPT ![p.group] = pts],
             UNCHANGED <<outcomes, frozen, pending, deciding>>
      PROVE  Buffer!GBNext
  <2> DEFINE g == p.group
  <2>1. g \in Groups /\ p.points \in Seq(Nat) /\ DOMAIN accepted = Groups /\ DOMAIN activeMap \subseteq Groups
    BY PacketsAssumption DEF PInv
  <2>2. UNCHANGED <<Closing, Dec>>
    BY <1>3 DEF Mapping, Entries, Dec, Tagged
  <2>3. Coll[g] = IF g \in DOMAIN activeMap THEN accepted[g] ELSE <<>>
    BY <2>1 DEF Mapping
  <2>4. pts = Coll[g] \o p.points
    <3>1. <<>> \o p.points = p.points
      BY SMT, <2>1
    <3> HIDE DEF g
    <3>2. CASE g \in DOMAIN activeMap
      BY <1>3, <2>3, <3>2 DEF g
    <3>3. CASE g \notin DOMAIN activeMap
      BY <1>3, <2>3, <3>1, <3>3 DEF g
    <3> QED BY <3>2, <3>3
  <2>5. Coll' = [Coll EXCEPT ![g] = pts]
    BY <1>3, <2>1 DEF Mapping
  <2> QED BY <2>2, <2>4, <2>5, CollectStep
<1>4. ASSUME NEW p \in Packets, IngestNew(p) PROVE Buffer!GBNext
  <2>1. /\ p.group \notin DOMAIN activeMap /\ UNCHANGED <<outcomes, frozen, pending, deciding>>
        /\ accepted' = [accepted EXCEPT ![p.group] = p.points]
        /\ DOMAIN activeMap' = DOMAIN activeMap \cup {p.group}
    BY <1>4 DEF IngestNew, WithGroup
  <2> QED BY <1>3, <2>1
<1>5. ASSUME NEW p \in Packets, IngestMerge(p) PROVE Buffer!GBNext
  <2>1. /\ p.group \in DOMAIN activeMap /\ UNCHANGED <<outcomes, frozen, pending, deciding>>
        /\ accepted' = [accepted EXCEPT ![p.group] = accepted[p.group] \o p.points]
        /\ DOMAIN activeMap' = DOMAIN activeMap \cup {p.group}
    BY <1>5 DEF IngestMerge, WithGroup
  <2> QED BY <1>3, <2>1
<1>6. CASE AdvanceStart
  <2>1. UNCHANGED <<activeMap, accepted, outcomes, frozen, pending, deciding>>
    BY <1>6 DEF AdvanceStart, HandedOver
  <2>2. Entries' = Entries
    BY <2>1 DEF Entries
  <2> QED BY <1>0, <2>1, <2>2
<1>7. CASE AdvanceShard
  <2> DEFINE pos == (currentPos[sweep] + 1) % WheelSize
             S == slots[sweep][pos] \cap DOMAIN activeMap
             moved == {[key |-> g, group |-> activeMap[g], points |-> accepted[g]] : g \in S}
  <2>1. /\ DOMAIN activeMap' = DOMAIN activeMap \ S
        /\ accepted' = [g \in Groups |-> IF g \in S THEN <<>> ELSE accepted[g]]
        /\ frozen' \cup pending' = frozen \cup pending \cup moved
        /\ UNCHANGED <<outcomes, deciding>>
    BY <1>7 DEF AdvanceShard
  <2>2. S \subseteq DOMAIN activeMap /\ DOMAIN activeMap \subseteq Groups
    BY DEF PInv
  <2>3. Entries' = Entries \cup moved
    BY <2>1 DEF Entries
  <2>4. {Tagged(e) : e \in moved} = {[key |-> g, points |-> accepted[g]] : g \in S}
    <3> DEFINE Moved(g) == [key |-> g, group |-> activeMap[g], points |-> accepted[g]]
    <3>1. \A g \in S : Tagged(Moved(g)) = [key |-> g, points |-> accepted[g]]
      BY DEF Tagged
    <3>2. \A e : e \in moved <=> \E g \in S : e = Moved(g)
      OBVIOUS
    <3> HIDE DEF Moved, moved, S
    <3> QED BY SMT, <3>1, <3>2
  <2> HIDE DEF S, moved
  <2>5. \A g \in S : Coll[g] = accepted[g] /\ Coll[g] # <<>>
    BY <2>2 DEF Mapping, RInv, ActiveApart
  <2>6. Coll' = [g \in Groups |-> IF g \in S THEN <<>> ELSE Coll[g]]
    BY <2>1, <2>2 DEF Mapping
  <2>7. {[key |-> g, points |-> accepted[g]] : g \in S} = {[key |-> g, points |-> Coll[g]] : g \in S}
    BY <2>5
  <2>8. Closing' = Closing \cup {[key |-> g, points |-> Coll[g]] : g \in S}
    <3>1. {Tagged(e) : e \in Entries'} = {Tagged(e) : e \in Entries} \cup {Tagged(e) : e \in moved}
      BY <2>3
    <3> QED BY <2>4, <2>7, <3>1 DEF Mapping, Tagged
  <2>9. UNCHANGED Dec
    BY <2>1 DEF Dec
  <2>10. S \in SUBSET Groups
    BY <2>2
  <2> QED BY <2>5, <2>6, <2>8, <2>9, <2>10, CloseStep
<1>8. CASE \E e \in pending : DecideHydrate(e)
  <2>1. PICK e \in pending : DecideHydrate(e)
    BY <1>8
  <2>2. pending' = pending \ {e} /\ deciding.step = "idle" /\ UNCHANGED <<activeMap, accepted, outcomes, frozen>>
    BY <2>1 DEF DecideHydrate
  <2>3. deciding'.step # "idle" /\ deciding'.entry = e
    BY SMT, <2>1, DecidesEntry
  <2>4. Entries' = Entries
    BY <2>2, <2>3 DEF Entries
  <2> QED BY <1>0, <2>2, <2>4
<1>9. CASE DecidePipelines
  <2>1. /\ UNCHANGED <<activeMap, accepted, outcomes, frozen, pending>> /\ deciding.step = "pipelines"
        /\ deciding' = [deciding EXCEPT !.step = "match", !.pipelines = PipelinesOf(deciding.entry.key)]
    BY <1>9 DEF DecidePipelines
  <2>2. deciding'.step # "idle" /\ deciding'.entry = deciding.entry
    BY <2>1 DEF PInv, DecidingOK
  <2>3. Entries' = Entries
    BY <2>1, <2>2 DEF Entries
  <2> QED BY <1>0, <2>1, <2>3
<1>10. CASE DecideFinish
  <2> DEFINE d == deciding
             E == Tagged(d.entry)
  <2>1. d.step # "idle" /\ deciding' = [step |-> "idle"] /\ UNCHANGED <<activeMap, accepted, frozen, pending>>
    BY <1>10 DEF DecideFinish
  <2>2. PICK kept \in {Keeps(d)}, dg \in {d.group, Hydrated(d.group)}, x \in BOOLEAN :
           outcomes' = outcomes \cup
                {[key |-> d.entry.key, accepted |-> d.entry.points, packet |-> dg.packet,
                  decision |-> IF kept THEN "kept" ELSE "dropped",
                  pipelines |-> d.pipelines, raced |-> d.raced, failed |-> x]}
    BY <1>10, Zenon DEF DecideFinish
  <2>3. PICK sent : sent = IF kept THEN dg.packet.points ELSE <<>>
    OBVIOUS
  <2>4. Holds(d.group, d.entry.points, disk)
    BY <2>1 DEF PInv, DecidingOK
  <2>5. dg.packet.points \in {<<>>, d.entry.points}
    <3>1. CASE dg = Hydrated(d.group)
      BY <2>4, <3>1, HydratedHolds DEF PInv
    <3>2. CASE dg = d.group
      BY <2>4, <3>2 DEF Holds
    <3> QED BY <3>1, <3>2
  <2>6. E.key = d.entry.key /\ E.points = d.entry.points /\ sent \in {<<>>, E.points}
    BY <2>3, <2>5 DEF Tagged
  <2>7. UNCHANGED Coll
    BY <2>1 DEF Mapping
  <2>8. Entries = frozen \cup pending \cup {d.entry} /\ Entries' = frozen \cup pending
    BY <2>1 DEF Entries
  <2>9. ASSUME NEW e \in frozen \cup pending PROVE Tagged(e) # E
    <3>1. e # d.entry /\ e \in Entries /\ d.entry \in Entries
      BY <2>1, <2>8 DEF RInv, OnePlace
    <3>2. e.key = d.entry.key => Disjoint(e.points, d.entry.points)
      BY <3>1 DEF RInv, EntriesApart
    <3>3. d.entry.points \in Seq(Nat) /\ d.entry.points # <<>>
      BY <2>4, <3>1 DEF Holds, RInv, EntriesApart
    <3>4. ~ Disjoint(d.entry.points, d.entry.points)
      <4>1. 1 \in DOMAIN d.entry.points
        BY SMT, <3>3
      <4> QED BY <4>1 DEF Disjoint
    <3> QED BY <3>2, <3>4 DEF Tagged
  <2>10. E \in Closing /\ Closing' = Closing \ {E}
    <3>1. Closing = {Tagged(e) : e \in frozen \cup pending} \cup {E}
      BY <2>8 DEF Mapping
    <3>2. Closing' = {Tagged(e) : e \in frozen \cup pending}
      BY <2>8 DEF Mapping, Tagged
    <3>3. E \notin {Tagged(e) : e \in frozen \cup pending}
      BY <2>9
    <3> QED BY <3>1, <3>2, <3>3
  <2>11. Dec' = Dec \cup {[key |-> E.key, points |-> E.points, sent |-> sent]}
    <3> DEFINE new == [key |-> d.entry.key, accepted |-> d.entry.points, packet |-> dg.packet,
                       decision |-> IF kept THEN "kept" ELSE "dropped",
                       pipelines |-> d.pipelines, raced |-> d.raced, failed |-> x]
               Image(o) == [key |-> o.key, points |-> o.accepted,
                            sent |-> IF o.decision = "kept" THEN o.packet.points ELSE <<>>]
    <3>1. Image(new) = [key |-> E.key, points |-> E.points, sent |-> sent]
      BY <2>3, <2>6
    <3> HIDE DEF new, Image
    <3>2. {Image(o) : o \in outcomes'} = {Image(o) : o \in outcomes} \cup {Image(new)}
      BY <2>2 DEF new
    <3> QED BY <3>1, <3>2 DEF Dec, Image
  <2> HIDE DEF E
  <2> QED BY <2>6, <2>7, <2>10, <2>11, DecideStep
<1>11. CASE UNCHANGED vars
  <2>1. UNCHANGED <<activeMap, accepted, outcomes, frozen, pending, deciding>>
    BY <1>11 DEF vars
  <2>2. Entries' = Entries
    BY <2>1 DEF Entries
  <2> QED BY <1>0, <2>1, <2>2
<1> QED BY <1>1, <1>2, <1>4, <1>5, <1>6, <1>7, <1>8, <1>9, <1>10, <1>11 DEF Next, Ingest

\* GlobalSampler implements GroupBuffer: a group's points are collected in the
\* order in which they are accepted, expire together, and are decided once; all
\* of them are sent on, or none (timewheel.go).  It holds whatever spiller
\* operation fails and whenever the configuration changes.
THEOREM ImplementsBuffer == Spec => Buffers
<1>1. Init => Buffer!GBInit
  <2> SUFFICES ASSUME Init PROVE Buffer!GBInit
    OBVIOUS
  <2>1. DOMAIN activeMap = {} /\ frozen = {} /\ pending = {} /\ deciding.step = "idle" /\ outcomes = {}
    BY DEF Init
  <2> QED BY <2>1 DEF Buffer!GBInit, Closing
<1>2. OInv => HandedOver
  BY DEF OInv
<1>3. Init => OInv
  BY SMT, SizesAssumption DEF Init, OInv, HandedOver
<1> QED BY <1>1, <1>2, <1>3, InitPInv, NextPInv, NextOInv, InitRInv, NextRInv, Mapped, BufferStep, PTL
        DEF Spec, Buffers, Buffer!GBSpec

=============================================================================
