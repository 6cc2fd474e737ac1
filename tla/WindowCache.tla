----------------------------- MODULE WindowCache ----------------------------
(***************************************************************************)
(* The cache of aggregation windows, src/aggregate/windows.go: goroutines  *)
(* that add batches, and one that takes the expired windows and aggregates *)
(* them.                                                                   *)
(*                                                                         *)
(* A step holds c.lock or ws.lock: a goroutine that has found its Windows  *)
(* may be overtaken by the one that closes them.  The clock may be set     *)
(* back.  The calculators that a batch gives, and what an algorithm does   *)
(* with two of them, are parameters: MetricWindows takes them from         *)
(* Aggregation.  `src' of a calculator is a history: the labels of the     *)
(* calculators it stands for, which begin with the batch.                  *)
(***************************************************************************)
EXTENDS Integers, Sequences, Functions

CONSTANTS
    Cases,          \* [ac: a configuration, ids: the batches that are sent under it]
    Batches,
    Token,          \* per batch: the token of its sender
    NewCals(_, _),  \* the calculators of a batch under a configuration
    BuiltTags(_),   \* the tags of a calculator after its build
    StateAdded(_, _),       \* what a calculator keeps after the Add of another
    Result(_),      \* the points that its Aggr returns
    Goroutines,     \* that add batches
    Expired,        \* the tolerance, in seconds
    MaxNow,         \* bound: the clock
    MaxBack,        \* bound: how often the clock is set back
    MaxWindows      \* bound: Windows that are made

\* A new calculator has a label of its own, which names its batch.
ASSUME NewCalsAssumption ==
    \A c \in Cases : \A id \in Batches : \A cal \in NewCals(c.ac, id) :
        /\ {"hash", "nextWallTime", "aggrTags", "state", "src"} \subseteq DOMAIN cal
        /\ \E s \in cal.src : cal.src = {s} /\ s[1] = id
        /\ \A other \in NewCals(c.ac, id) : other.src = cal.src => other = cal

VARIABLES
    ac,             \* the configuration
    now, back,
    sent,           \* the batches that were sent, or will not be
    g,              \* the goroutines: [pc, token, cals: left to add, nowTime, cal, ws]
    ws,             \* the Windows: [exp, closed, IDs: token -> window]
    buckets,        \* WindowsBuckets: exp -> ws
    win,            \* the windows: [Token, cache: hash -> calculator]
    idle,           \* those in windowPool
    due,            \* the windows that GetExpWidows returned
    added, expN,        \* the calculators that AddBatch counted as added and as expired
    out             \* the PointsData, one [Token, cal, pts] per calculator

vars == <<ac, now, back, sent, g, ws, buckets, win, idle, due, added, expN, out>>
cacheVars == <<ws, buckets, win, idle>>

Idle == [pc |-> "idle", token |-> "", cals |-> {}, nowTime |-> 0, cal |-> <<>>, ws |-> 0]
Empty == [k \in {} |-> 0]
\* The map f with v under k.
With(f, k, v) == [x \in DOMAIN f \cup {k} |-> IF x = k THEN v ELSE f[x]]

Init ==
    /\ \E c \in Cases : ac = c.ac /\ sent = Batches \ c.ids
    /\ now = 1 /\ back = 0
    /\ g = [p \in Goroutines |-> Idle]
    /\ ws = <<>> /\ buckets = Empty /\ win = <<>> /\ idle = {} /\ due = {}
    /\ added = {} /\ expN = {} /\ out = {}

\* AddBatch reads the clock once.  AddBatchs is one after another.
Start(p, id, cals) ==
    g' = [g EXCEPT ![p] = IF cals = {} THEN Idle
                          ELSE [Idle EXCEPT !.pc = "add", !.token = Token[id], !.cals = cals, !.nowTime = now]]
AddBatch(p, id) ==
    /\ g[p].pc = "idle" /\ id \notin sent
    /\ sent' = sent \cup {id}
    /\ \E cals \in {NewCals(ac, id)} : Start(p, id, cals)
    /\ UNCHANGED <<ac, now, back, cacheVars, due, added, expN, out>>

Exp(cal) == cal.nextWallTime + Expired

\* p goes on with the calculators that are left.
GoOn(p, cals) == g' = [g EXCEPT ![p] = IF cals = {} THEN Idle
                                       ELSE [@ EXCEPT !.pc = "add", !.cals = cals, !.cal = <<>>, !.ws = 0]]

\* The next calculator: it is too late, or ...
Late(p, cal) ==
    /\ g[p].pc = "add" /\ cal \in g[p].cals /\ g[p].nowTime >= Exp(cal)
    /\ expN' = expN \cup {cal}
    /\ GoOn(p, g[p].cals \ {cal})
    /\ UNCHANGED <<ac, now, back, sent, cacheVars, due, added, out>>

\* ... under c.lock, it finds or makes its Windows.
Find(p, cal) ==
    LET exp == Exp(cal)
        old == exp \in DOMAIN buckets
        id  == IF old THEN buckets[exp] ELSE Len(ws) + 1
    IN  /\ g[p].pc = "add" /\ cal \in g[p].cals /\ g[p].nowTime < exp
        /\ old \/ Len(ws) < MaxWindows
        /\ ws' = IF old THEN ws ELSE Append(ws, [exp |-> exp, closed |-> FALSE, IDs |-> Empty])
        /\ buckets' = IF old THEN buckets ELSE With(buckets, exp, id)
        /\ g' = [g EXCEPT ![p].pc = "found", ![p].cals = @ \ {cal}, ![p].cal = <<cal>>, ![p].ws = id]
        /\ UNCHANGED <<ac, now, back, sent, win, idle, due, added, expN, out>>

\* Window.AddCal, the sources of both calculators put together.
Merge(w, cal) ==
    LET has == cal.hash \in DOMAIN w.cache
        old == w.cache[cal.hash]
        new == IF has THEN [old EXCEPT !.state = StateAdded(old, cal), !.src = @ \cup cal.src]
               ELSE [cal EXCEPT !.aggrTags = BuiltTags(cal)]
    IN  [w EXCEPT !.cache = With(@, cal.hash, new)]

\* A window of the pool that is Reset.
Reset(w) == [w EXCEPT !.Token = "", !.cache = Empty]

\* addCal, under ws.lock: a token's first calculator takes a window of the
\* pool, or a new one.
AddCal(p) ==
    LET cal == g[p].cal[1]
        id  == g[p].ws
        t   == g[p].token
    IN  /\ g[p].pc = "found" /\ ~ ws[id].closed
        /\ \E w \in IF t \in DOMAIN ws[id].IDs THEN {ws[id].IDs[t]}
                    ELSE IF idle # {} THEN idle ELSE {Len(win) + 1} :
             LET all == IF w > Len(win) THEN Append(win, [Token |-> t, cache |-> Empty])
                        ELSE IF w \in idle THEN [win EXCEPT ![w] = [Reset(@) EXCEPT !.Token = t]]
                        ELSE win
             IN  /\ win' = [all EXCEPT ![w] = Merge(@, cal)]
                 /\ idle' = idle \ {w}
                 /\ ws' = [ws EXCEPT ![id].IDs = With(@, t, w)]
        /\ added' = added \cup {cal}
        /\ GoOn(p, g[p].cals)
        /\ UNCHANGED <<ac, now, back, sent, buckets, due, expN, out>>

\* Closed meanwhile: expired, or once more from the start.
Closed(p) ==
    LET cal == g[p].cal[1]
    IN  /\ g[p].pc = "found" /\ ws[g[p].ws].closed
        /\ IF now >= Exp(cal) THEN expN' = expN \cup {cal} /\ GoOn(p, g[p].cals)
           ELSE GoOn(p, g[p].cals \cup {cal}) /\ UNCHANGED expN
        /\ UNCHANGED <<ac, now, back, sent, cacheVars, due, added, out>>

\* Mutants: calculators are still taken, or the windows stay listed.
CloseLeavingOpen(w) == [w EXCEPT !.IDs = Empty]
CloseKeepingIDs(w) == [w EXCEPT !.closed = TRUE]

\* Windows.Close: later calculators are refused.
Close(w) == [w EXCEPT !.closed = TRUE, !.IDs = Empty]

\* Under c.lock, Close under the lock of each.
GetExpWidows ==
    LET expired == {t \in DOMAIN buckets : t <= now}
        ids     == {buckets[t] : t \in expired}
    IN  /\ due = {} /\ expired # {}
        /\ due' = UNION {Range(ws[id].IDs) : id \in ids}
        /\ ws' = [id \in DOMAIN ws |-> IF id \in ids THEN Close(ws[id]) ELSE ws[id]]
        /\ buckets' = Restrict(buckets, DOMAIN buckets \ expired)
        /\ UNCHANGED <<ac, now, back, sent, g, win, idle, added, expN, out>>

\* One window of WindowsToData: aggregate, Reset, and back to the pool.
WindowsToData(w) ==
    /\ w \in due
    /\ out' = out \cup {[Token |-> win[w].Token, cal |-> c, pts |-> Result(c)] : c \in Range(win[w].cache)}
    /\ win' = [win EXCEPT ![w] = Reset(@)]
    /\ idle' = idle \cup {w}
    /\ due' = due \ {w}
    /\ UNCHANGED <<ac, now, back, sent, g, ws, buckets, added, expN>>

Tick ==
    /\ now < MaxNow
    /\ now' = now + 1
    /\ UNCHANGED <<ac, back, sent, g, cacheVars, due, added, expN, out>>

SetBack ==
    /\ now > 1 /\ back < MaxBack
    /\ now' = now - 1 /\ back' = back + 1
    /\ UNCHANGED <<ac, sent, g, cacheVars, due, added, expN, out>>

Next ==
    \/ \E p \in Goroutines :
         \/ \E id \in Batches : AddBatch(p, id)
         \/ \E cal \in g[p].cals : Late(p, cal) \/ Find(p, cal)
         \/ AddCal(p)
         \/ Closed(p)
    \/ GetExpWidows
    \/ \E w \in due : WindowsToData(w)
    \/ Tick
    \/ SetBack

Spec == Init /\ [][Next]_vars

-----------------------------------------------------------------------------
(* Properties *)

\* The calculators that will be aggregated: of the windows that GetExpWidows
\* finds, and of those it has taken.
Reachable == due \cup UNION {Range(ws[id].IDs) : id \in Range(buckets)}
Cached == UNION {Range(win[w].cache) : w \in Reachable}
Emitted == {o.cal : o \in out}
Held == Cached \cup Emitted

\* A calculator that AddBatch counted as added is in one window that will be
\* aggregated or in one result, none that it counted as expired is, and none is counted twice.
CountedOnce ==
    LET Stands(c, d) == c.hash = d.hash /\ d.src \subseteq c.src
    IN  /\ \A d \in added : \E c \in Held : {b \in Held : Stands(b, d) /\ Exp(b) = Exp(d)} = {c}
        /\ \A d \in expN : \A c \in Held : ~ (Stands(c, d) /\ Exp(c) = Exp(d))
        /\ added \cap expN = {}

\* A window that is in the pool or in the hands of the collector is in no
\* open Windows, and no two of them share one.
WindowOwned ==
    \A id \in 1..Len(ws) : \A t \in DOMAIN ws[id].IDs :
        LET w == ws[id].IDs[t]
        IN  /\ w \notin idle \cup due /\ win[w].Token = t
            /\ \A id2 \in 1..Len(ws) : \A t2 \in DOMAIN ws[id2].IDs :
                 ws[id2].IDs[t2] = w => id2 = id /\ t2 = t

=============================================================================
