-------------------------- MODULE WindowCacheProofs -------------------------
(***************************************************************************)
(* Proofs for the window cache, for any number of goroutines, any batches, *)
(* configurations and calculators, and any course of the clock: a window   *)
(* has one owner, and a calculator is counted once.                        *)
(***************************************************************************)
EXTENDS WindowCache, TLAPS

\* A leaf is first-order reasoning unless it names another prover.
USE Zenon

\* s is a sequence, of whatever.
IsSeq(s) == Len(s) \in Nat /\ s = [i \in 1..Len(s) |-> s[i]]

\* The calculators that p still has to add.
Pending(p) == g[p].cals \cup (IF g[p].pc = "found" THEN {g[p].cal[1]} ELSE {})

\* The goroutines and the heap of windows have the fields they are made with.
Shape ==
    /\ IsSeq(ws) /\ \A i \in DOMAIN ws : DOMAIN ws[i] = {"exp", "closed", "IDs"}
    /\ IsSeq(win) /\ \A w \in DOMAIN win : DOMAIN win[w] = {"Token", "cache"}
    /\ DOMAIN g = Goroutines
    /\ \A p \in Goroutines : DOMAIN g[p] = {"pc", "token", "cals", "nowTime", "cal", "ws"}

\* The Windows in the buckets are open, each in the one of its time.
Bucketed ==
    \A e \in DOMAIN buckets : buckets[e] \in DOMAIN ws /\ ws[buckets[e]].exp = e /\ ws[buckets[e]].closed = FALSE

\* Other Windows are closed, and list nothing.
Open ==
    \A i \in DOMAIN ws :
        IF ws[i].closed = FALSE THEN ws[i].exp \in DOMAIN buckets /\ buckets[ws[i].exp] = i
        ELSE ws[i].closed = TRUE /\ DOMAIN ws[i].IDs = {}

\* A goroutine has found the Windows of its calculator's time.
Found ==
    \A p \in Goroutines : g[p].pc = "found" => g[p].ws \in DOMAIN ws /\ ws[g[p].ws].exp = Exp(g[p].cal[1])

\* A window that is listed exists, has its token, and is neither in the pool
\* nor with the collector.
Listed ==
    \A i \in DOMAIN ws : \A t \in DOMAIN ws[i].IDs :
        /\ ws[i].IDs[t] \in DOMAIN win
        /\ ws[i].IDs[t] \notin idle /\ ws[i].IDs[t] \notin due
        /\ win[ws[i].IDs[t]].Token = t

ListedOnce ==
    \A i, j \in DOMAIN ws : \A t \in DOMAIN ws[i].IDs, u \in DOMAIN ws[j].IDs :
        ws[i].IDs[t] = ws[j].IDs[u] => i = j /\ t = u

\* The pool and the collector share no window.
Unlisted == idle \subseteq DOMAIN win /\ due \subseteq DOMAIN win /\ idle \cap due = {}

\* The invariant of the windows alone.
WindowInv == Shape /\ Bucketed /\ Open /\ Found /\ Listed /\ ListedOnce /\ Unlisted

\* c was made of a batch that was sent.
Known(c) == \E id \in sent : c \in NewCals(ac, id)

\* Every calculator is pending at one goroutine, added, or expired.
Calculators ==
    /\ (\E c \in Cases : ac = c.ac) /\ sent \subseteq Batches
    /\ \A p \in Goroutines : \A c \in Pending(p) : Known(c) /\ c \notin added \cup expN
    /\ \A c \in added \cup expN : Known(c)
    /\ added \cap expN = {}
    /\ \A p, q \in Goroutines : p # q => Pending(p) \cap Pending(q) = {}
    /\ \A p \in Goroutines : g[p].pc = "found" => g[p].cal[1] \notin g[p].cals

\* The places of the calculators in the cache, and the calculator at one.
Entries == UNION {{<<w, h>> : h \in DOMAIN win[w].cache} : w \in Reachable}
Cal(e) == win[e[1]].cache[e[2]]

\* A calculator in the cache is under its hash, in Windows of its time.
Filed ==
    /\ \A e \in Entries : {"hash", "nextWallTime", "state", "src"} \subseteq DOMAIN Cal(e) /\ Cal(e).hash = e[2]
    /\ \A i \in DOMAIN ws : \A t \in DOMAIN ws[i].IDs : \A e \in Entries :
         e[1] = ws[i].IDs[t] => Exp(Cal(e)) = ws[i].exp

\* Calculators that stand for the same are one.
Apart ==
    /\ \A e, f \in Entries : Cal(e).src \cap Cal(f).src # {} => e = f
    /\ \A e \in Entries : \A o \in Emitted : Cal(e).src \cap o.src = {}
    /\ \A o, q \in Emitted : o.src \cap q.src # {} => o = q

\* What is added is held, and what is held was added.
Accounted ==
    /\ \A d \in added : \E c \in Held : d.src \subseteq c.src /\ c.hash = d.hash /\ Exp(c) = Exp(d)
    /\ \A c \in Held : \A s \in c.src : \E d \in added : d.src = {s}

CountInv == WindowInv /\ Calculators /\ Filed /\ Apart /\ Accounted

-----------------------------------------------------------------------------
(* Maps and sequences *)

\* With changes a map at one key.
LEMMA WithIs ==
    ASSUME NEW k, NEW v, NEW f
    PROVE  /\ DOMAIN With(f, k, v) = DOMAIN f \cup {k}
           /\ With(f, k, v)[k] = v
           /\ \A x \in DOMAIN f : x # k => With(f, k, v)[x] = f[x]
BY DEF With

\* Append adds one place behind the others.
LEMMA SeqAppend ==
    ASSUME NEW s, NEW e, IsSeq(s)
    PROVE  /\ IsSeq(Append(s, e)) /\ DOMAIN s = 1..Len(s)
           /\ DOMAIN Append(s, e) = DOMAIN s \cup {Len(s) + 1} /\ Append(s, e)[Len(s) + 1] = e
           /\ Len(s) + 1 \notin DOMAIN s
           /\ \A i \in DOMAIN s : Append(s, e)[i] = s[i]
<1> DEFINE S == {s[i] : i \in 1..Len(s)} \cup {e}
<1>1. s \in Seq(S)
  BY SMT DEF IsSeq
<1>2. e \in S
  OBVIOUS
<1> HIDE DEF S
<1> DEFINE t == Append(s, e)
<1>3. /\ t \in Seq(S) /\ Len(s) \in Nat /\ Len(t) = Len(s) + 1
      /\ t[Len(s) + 1] = e /\ \A i \in 1..Len(s) : t[i] = s[i]
  BY <1>1, <1>2, SMT
<1> HIDE DEF t
<1>4. IsSeq(t) /\ DOMAIN t = 1..Len(t) /\ DOMAIN s = 1..Len(s)
  BY <1>1, <1>3, SMT DEF IsSeq
<1>5. 1..Len(t) = 1..Len(s) \cup {Len(s) + 1} /\ Len(s) + 1 \notin 1..Len(s)
  BY <1>3, SMT
<1>6. QED
  BY <1>3, <1>4, <1>5 DEF t

\* A map over the places of a sequence is one of the same length.
LEMMA SeqChange ==
    ASSUME NEW s, NEW t, IsSeq(s), t = [i \in DOMAIN s |-> t[i]]
    PROVE  IsSeq(t) /\ DOMAIN t = DOMAIN s /\ Len(t) = Len(s)
BY SMT DEF IsSeq

\* The places of a sequence, and the next one.
LEMMA Beyond ==
    ASSUME NEW n \in Nat
    PROVE  (\A w \in 1..n : ~ (w > n)) /\ n + 1 > n
BY SMT

-----------------------------------------------------------------------------
(* What the steps do *)

\* A goroutine that goes on holds no Windows, and has the calculators left.
LEMMA GoOnIs ==
    ASSUME Shape, NEW p \in Goroutines, NEW cals, GoOn(p, cals)
    PROVE  /\ DOMAIN g' = Goroutines
           /\ \A q \in Goroutines : DOMAIN g'[q] = {"pc", "token", "cals", "nowTime", "cal", "ws"}
           /\ \A q \in Goroutines : q # p => g'[q] = g[q]
           /\ g'[p].pc # "found" /\ g'[p].cals = cals
<1>1. DOMAIN g = Goroutines /\ \A q \in Goroutines : DOMAIN g[q] = {"pc", "token", "cals", "nowTime", "cal", "ws"}
  BY DEF Shape
<1>2. CASE cals = {}
  <2>1. g' = [g EXCEPT ![p] = Idle]
    BY <1>2 DEF GoOn
  <2>2. QED
    BY <1>1, <1>2, <2>1 DEF Idle
<1>3. CASE cals # {}
  <2>1. g' = [g EXCEPT ![p] = [g[p] EXCEPT !.pc = "add", !.cals = cals, !.cal = <<>>, !.ws = 0]]
    BY <1>3 DEF GoOn
  <2>2. QED
    BY <1>1, <2>1
<1>4. QED
  BY <1>2, <1>3

\* A goroutine that starts holds no Windows, and has all the calculators.
LEMMA StartIs ==
    ASSUME Shape, NEW p \in Goroutines, NEW id, NEW cals, Start(p, id, cals)
    PROVE  /\ DOMAIN g' = Goroutines
           /\ \A q \in Goroutines : DOMAIN g'[q] = {"pc", "token", "cals", "nowTime", "cal", "ws"}
           /\ \A q \in Goroutines : q # p => g'[q] = g[q]
           /\ g'[p].pc # "found" /\ g'[p].cals = cals
<1>1. DOMAIN g = Goroutines /\ \A q \in Goroutines : DOMAIN g[q] = {"pc", "token", "cals", "nowTime", "cal", "ws"}
  BY DEF Shape
<1>2. CASE cals = {}
  <2>1. g' = [g EXCEPT ![p] = Idle]
    BY <1>2 DEF Start
  <2>2. QED
    BY <1>1, <1>2, <2>1 DEF Idle
<1>3. CASE cals # {}
  <2>1. g' = [g EXCEPT ![p] = [Idle EXCEPT !.pc = "add", !.token = Token[id], !.cals = cals, !.nowTime = now]]
    BY <1>3 DEF Start
  <2>2. QED
    BY <1>1, <2>1 DEF Idle
<1>4. QED
  BY <1>2, <1>3

\* p has found the Windows id for cal.
FoundFor(p, cal, id) ==
    g' = [g EXCEPT ![p].pc = "found", ![p].cals = @ \ {cal}, ![p].cal = <<cal>>, ![p].ws = id]

\* A goroutine that has found its Windows holds the calculator it found them for.
LEMMA FoundIs ==
    ASSUME Shape, NEW p \in Goroutines, NEW cal, NEW id, FoundFor(p, cal, id)
    PROVE  /\ DOMAIN g' = Goroutines
           /\ \A q \in Goroutines : DOMAIN g'[q] = {"pc", "token", "cals", "nowTime", "cal", "ws"}
           /\ \A q \in Goroutines : q # p => g'[q] = g[q]
           /\ g'[p].pc = "found" /\ g'[p].cals = g[p].cals \ {cal} /\ g'[p].cal[1] = cal /\ g'[p].ws = id
<1>1. DOMAIN g = Goroutines /\ \A q \in Goroutines : DOMAIN g[q] = {"pc", "token", "cals", "nowTime", "cal", "ws"}
  BY DEF Shape
<1>2. g'[p] = [g[p] EXCEPT !.pc = "found", !.cals = g[p].cals \ {cal}, !.cal = <<cal>>, !.ws = id]
  BY <1>1 DEF FoundFor
<1>3. g'[p].cal = <<cal>>
  BY <1>1, <1>2
<1>4. <<cal>>[1] = cal
  BY SMT
<1>5. /\ DOMAIN g'[p] = DOMAIN g[p] /\ g'[p].pc = "found"
      /\ g'[p].cals = g[p].cals \ {cal} /\ g'[p].ws = id
  BY <1>1, <1>2
<1>6. DOMAIN g' = Goroutines /\ \A q \in Goroutines : q # p => g'[q] = g[q]
  BY <1>1 DEF FoundFor
<1>7. QED
  BY <1>1, <1>3, <1>4, <1>5, <1>6

\* What Merge leaves in the cache.
Grown(old, cal) ==
    With(old, cal.hash,
         IF cal.hash \in DOMAIN old
         THEN [old[cal.hash] EXCEPT !.state = StateAdded(old[cal.hash], cal), !.src = @ \cup cal.src]
         ELSE [cal EXCEPT !.aggrTags = BuiltTags(cal)])

LEMMA MergeIs ==
    ASSUME NEW w, DOMAIN w = {"Token", "cache"}, NEW cal
    PROVE  /\ DOMAIN Merge(w, cal) = {"Token", "cache"}
           /\ Merge(w, cal).Token = w.Token
           /\ Merge(w, cal).cache = Grown(w.cache, cal)
BY DEF Merge, Grown

LEMMA ResetIs ==
    ASSUME NEW w, DOMAIN w = {"Token", "cache"}
    PROVE  /\ DOMAIN Reset(w) = {"Token", "cache"}
           /\ Reset(w).cache = Empty /\ DOMAIN Empty = {}
BY DEF Reset, Empty

\* The window of a token after AddCal: the one that was listed, or one that was
\* in the pool or did not exist.
AddedTo(i, t, cal, w) ==
    /\ t \in DOMAIN ws[i].IDs => w = ws[i].IDs[t] /\ win'[w].cache = Grown(win[w].cache, cal)
    /\ t \notin DOMAIN ws[i].IDs => w \notin DOMAIN win \ idle /\ win'[w].cache = Grown(Empty, cal)
    /\ IsSeq(win') /\ DOMAIN win' = DOMAIN win \cup {w}
    /\ \A x \in DOMAIN win : x # w => win'[x] = win[x]
    /\ DOMAIN win'[w] = {"Token", "cache"} /\ win'[w].Token = t
    /\ idle' = idle \ {w}
    /\ ws' = [ws EXCEPT ![i].IDs = With(@, t, w)]

LEMMA AddCalIs ==
    ASSUME WindowInv, NEW p \in Goroutines, AddCal(p)
    PROVE  \E w : AddedTo(g[p].ws, g[p].token, g[p].cal[1], w)
<1>0. PICK i, t, cal : i = g[p].ws /\ t = g[p].token /\ cal = g[p].cal[1]
  OBVIOUS
<1> DEFINE new == [Token |-> t, cache |-> Empty]
           all(w) == IF w > Len(win) THEN Append(win, new)
                     ELSE IF w \in idle THEN [win EXCEPT ![w] = [Reset(@) EXCEPT !.Token = t]]
                     ELSE win
           Chosen == IF t \in DOMAIN ws[i].IDs THEN {ws[i].IDs[t]}
                     ELSE IF idle # {} THEN idle ELSE {Len(win) + 1}
           Step(w) == /\ win' = [all(w) EXCEPT ![w] = Merge(@, cal)]
                      /\ idle' = idle \ {w}
                      /\ ws' = [ws EXCEPT ![i].IDs = With(@, t, w)]
<1>1. \E w \in Chosen : Step(w)
  BY <1>0 DEF AddCal
<1>2. \A w \in Chosen :  /\ t \in DOMAIN ws[i].IDs => w = ws[i].IDs[t]
                         /\ t \notin DOMAIN ws[i].IDs => w \in idle \/ w = Len(win) + 1
  OBVIOUS
<1> HIDE DEF new, all, Chosen, Step
<1>3. PICK w : /\ Step(w)
               /\ t \in DOMAIN ws[i].IDs => w = ws[i].IDs[t]
               /\ t \notin DOMAIN ws[i].IDs => w \in idle \/ w = Len(win) + 1
  BY <1>1, <1>2
<1>4. /\ IsSeq(win) /\ \A x \in DOMAIN win : DOMAIN win[x] = {"Token", "cache"}
      /\ DOMAIN win = 1..Len(win) /\ Len(win) \in Nat
  BY SeqAppend DEF WindowInv, Shape, IsSeq
<1>5. i \in DOMAIN ws
  BY <1>0 DEF WindowInv, Found, AddCal
<1>6. win' = [all(w) EXCEPT ![w] = Merge(@, cal)] /\ idle' = idle \ {w} /\ ws' = [ws EXCEPT ![i].IDs = With(@, t, w)]
  BY <1>3 DEF Step
<1>7. CASE t \in DOMAIN ws[i].IDs
  <2>0. w = ws[i].IDs[t]
    BY <1>7, <1>3
  <2>1. w \in DOMAIN win /\ w \notin idle /\ win[w].Token = t
    BY <1>5, <1>7, <2>0 DEF WindowInv, Listed
  <2>2. ~ (w > Len(win))
    BY <1>4, <2>1, Beyond
  <2>3. all(w) = win
    BY <2>1, <2>2 DEF all
  <2>4. win' = [win EXCEPT ![w] = Merge(win[w], cal)]
    BY <1>6, <2>3
  <2>5. win' = [x \in DOMAIN win |-> win'[x]] /\ \A x \in DOMAIN win : x # w => win'[x] = win[x]
    BY <2>4
  <2>6. win'[w] = Merge(win[w], cal)
    BY <2>1, <2>4
  <2>7. IsSeq(win') /\ DOMAIN win' = DOMAIN win
    BY <1>4, <2>5, SeqChange
  <2>8. /\ DOMAIN Merge(win[w], cal) = {"Token", "cache"} /\ Merge(win[w], cal).Token = win[w].Token
         /\ Merge(win[w], cal).cache = Grown(win[w].cache, cal)
    BY <1>4, <2>1, MergeIs
  <2>9. DOMAIN win'[w] = {"Token", "cache"} /\ win'[w].Token = t /\ win'[w].cache = Grown(win[w].cache, cal)
    BY <2>1, <2>6, <2>8
  <2>10. DOMAIN win' = DOMAIN win \cup {w}
    BY <2>1, <2>7
  <2>11. AddedTo(i, t, cal, w)
    BY <1>6, <1>7, <2>0, <2>5, <2>7, <2>9, <2>10 DEF AddedTo
  <2>12. QED
    BY <1>0, <2>11
<1>8. CASE t \notin DOMAIN ws[i].IDs /\ w \in idle
  <2>1. w \in DOMAIN win
    BY <1>8 DEF WindowInv, Unlisted
  <2>2. ~ (w > Len(win))
    BY <1>4, <2>1, Beyond
  <2> DEFINE made == [Reset(win[w]) EXCEPT !.Token = t]
  <2>3. all(w) = [win EXCEPT ![w] = made]
    BY <1>8, <2>2 DEF all
  <2>4. DOMAIN made = {"Token", "cache"} /\ made.Token = t /\ made.cache = Empty
    BY <1>4, <2>1, ResetIs
  <2> HIDE DEF made
  <2>5. win' = [win EXCEPT ![w] = Merge(made, cal)]
    BY <1>6, <2>1, <2>3
  <2>6. win' = [x \in DOMAIN win |-> win'[x]] /\ \A x \in DOMAIN win : x # w => win'[x] = win[x]
    BY <2>5
  <2>7. win'[w] = Merge(made, cal)
    BY <2>1, <2>5
  <2>8. IsSeq(win') /\ DOMAIN win' = DOMAIN win
    BY <1>4, <2>6, SeqChange
  <2>9. /\ DOMAIN Merge(made, cal) = {"Token", "cache"} /\ Merge(made, cal).Token = made.Token
         /\ Merge(made, cal).cache = Grown(made.cache, cal)
    BY <2>4, MergeIs
  <2>10. DOMAIN win'[w] = {"Token", "cache"} /\ win'[w].Token = t /\ win'[w].cache = Grown(Empty, cal)
    BY <2>4, <2>7, <2>9
  <2>11. DOMAIN win' = DOMAIN win \cup {w} /\ w \notin DOMAIN win \ idle
    BY <1>8, <2>1, <2>8
  <2>12. AddedTo(i, t, cal, w)
    BY <1>6, <1>8, <2>6, <2>8, <2>10, <2>11 DEF AddedTo
  <2>13. QED
    BY <1>0, <2>12
<1>9. CASE t \notin DOMAIN ws[i].IDs /\ w \notin idle
  <2>1. w = Len(win) + 1
    BY <1>9, <1>3
  <2>2. w > Len(win)
    BY <1>4, <2>1, Beyond
  <2>3. all(w) = Append(win, new)
    BY <2>2 DEF all
  <2>4. DOMAIN new = {"Token", "cache"} /\ new.Token = t /\ new.cache = Empty
    BY DEF new
  <2>5. IsSeq(Append(win, new)) /\ DOMAIN Append(win, new) = DOMAIN win \cup {w} /\ Append(win, new)[w] = new
         /\ w \notin DOMAIN win /\ \A x \in DOMAIN win : Append(win, new)[x] = win[x]
    BY <1>4, <2>1, SeqAppend
  <2>6. /\ IsSeq(all(w)) /\ DOMAIN all(w) = DOMAIN win \cup {w} /\ all(w)[w] = new /\ w \notin DOMAIN win
        /\ \A x \in DOMAIN win : all(w)[x] = win[x]
    BY <2>3, <2>5
  <2>7. win' = [all(w) EXCEPT ![w] = Merge(new, cal)]
    BY <1>6, <2>6
  <2>8. win' = [x \in DOMAIN all(w) |-> win'[x]] /\ \A x \in DOMAIN win : x # w => win'[x] = win[x]
    BY <2>6, <2>7
  <2>9. win'[w] = Merge(new, cal)
    BY <2>6, <2>7
  <2>10. IsSeq(win') /\ DOMAIN win' = DOMAIN all(w)
    BY <2>6, <2>8, SeqChange
  <2>11. /\ DOMAIN Merge(new, cal) = {"Token", "cache"} /\ Merge(new, cal).Token = new.Token
         /\ Merge(new, cal).cache = Grown(new.cache, cal)
    BY <2>4, MergeIs
  <2>12. DOMAIN win'[w] = {"Token", "cache"} /\ win'[w].Token = t /\ win'[w].cache = Grown(Empty, cal)
    BY <2>4, <2>9, <2>11
  <2>13. DOMAIN win' = DOMAIN win \cup {w} /\ w \notin DOMAIN win \ idle
    BY <2>6, <2>10
  <2>14. AddedTo(i, t, cal, w)
    BY <1>6, <1>9, <2>8, <2>10, <2>12, <2>13 DEF AddedTo
  <2>15. QED
    BY <1>0, <2>14
<1>10. QED
  BY <1>7, <1>8, <1>9

-----------------------------------------------------------------------------
(* A window has one owner *)

\* A step of a goroutine that touches no window.
LEMMA WindowsKept ==
    ASSUME WindowInv, UNCHANGED <<ws, buckets, win, idle, due>>, DOMAIN g' = Goroutines,
           \A q \in Goroutines : DOMAIN g'[q] = {"pc", "token", "cals", "nowTime", "cal", "ws"},
           \A q \in Goroutines : g'[q].pc # "found" \/ g'[q] = g[q]
    PROVE  WindowInv'
<1>1. Shape' /\ Bucketed' /\ Open'
  BY DEF WindowInv, Shape, Bucketed, Open
<1>2. Found'
  BY DEF WindowInv, Found, Exp
<1>3. Listed' /\ ListedOnce' /\ Unlisted'
  BY SMT DEF WindowInv, Listed, ListedOnce, Unlisted
<1>4. QED
  BY <1>1, <1>2, <1>3 DEF WindowInv

\* New Windows are in the bucket of their time, and list nothing.
LEMMA FindKeeps ==
    ASSUME WindowInv, NEW p \in Goroutines, NEW cal, Find(p, cal)
    PROVE  WindowInv'
<1>0. PICK exp, id : /\ exp = Exp(cal)
                     /\ id = IF exp \in DOMAIN buckets THEN buckets[exp] ELSE Len(ws) + 1
  OBVIOUS
<1>1. /\ ws' = IF exp \in DOMAIN buckets THEN ws ELSE Append(ws, [exp |-> exp, closed |-> FALSE, IDs |-> Empty])
      /\ buckets' = IF exp \in DOMAIN buckets THEN buckets ELSE With(buckets, exp, id)
      /\ FoundFor(p, cal, id)
      /\ win' = win /\ idle' = idle /\ due' = due
  BY <1>0 DEF Find, FoundFor
<1>2. /\ DOMAIN g' = Goroutines
      /\ \A q \in Goroutines : DOMAIN g'[q] = {"pc", "token", "cals", "nowTime", "cal", "ws"}
      /\ \A q \in Goroutines : q # p => g'[q] = g[q]
      /\ g'[p].cal[1] = cal /\ g'[p].ws = id
  <2>1. Shape
    BY DEF WindowInv
  <2>2. QED
    BY <1>1, <2>1, FoundIs
<1>3. CASE exp \in DOMAIN buckets
  <2>1. ws' = ws /\ buckets' = buckets /\ id = buckets[exp]
    BY <1>0, <1>1, <1>3
  <2>2. Shape' /\ Bucketed' /\ Open'
    BY <1>1, <1>2, <2>1, SMT DEF WindowInv, Shape, Bucketed, Open
  <2>3. id \in DOMAIN ws /\ ws[id].exp = exp
    BY <1>3, <2>1 DEF WindowInv, Bucketed
  <2>4. Found'
    BY <1>0, <1>2, <2>1, <2>3 DEF WindowInv, Found, Exp
  <2>5. Listed' /\ ListedOnce' /\ Unlisted'
    BY <1>1, <2>1, SMT DEF WindowInv, Listed, ListedOnce, Unlisted
  <2>6. QED
    BY <2>2, <2>4, <2>5 DEF WindowInv
<1>4. CASE exp \notin DOMAIN buckets
  <2> DEFINE new == [exp |-> exp, closed |-> FALSE, IDs |-> Empty]
  <2>1. DOMAIN new = {"exp", "closed", "IDs"} /\ new.exp = exp /\ new.closed = FALSE /\ DOMAIN new.IDs = {}
    BY DEF Empty
  <2>2. ws' = Append(ws, new) /\ buckets' = With(buckets, exp, id) /\ id = Len(ws) + 1
    BY <1>0, <1>1, <1>4
  <2> HIDE DEF new
  <2>3. /\ IsSeq(ws') /\ DOMAIN ws' = DOMAIN ws \cup {id} /\ ws'[id] = new /\ id \notin DOMAIN ws
        /\ \A i \in DOMAIN ws : ws'[i] = ws[i]
    <3>1. IsSeq(ws)
      BY DEF WindowInv, Shape
    <3>2. QED
      BY <2>2, <3>1, SeqAppend, SMT
  <2>4. /\ DOMAIN buckets' = DOMAIN buckets \cup {exp} /\ buckets'[exp] = id
        /\ \A e \in DOMAIN buckets : e # exp => buckets'[e] = buckets[e]
    <3>1. /\ DOMAIN With(buckets, exp, id) = DOMAIN buckets \cup {exp} /\ With(buckets, exp, id)[exp] = id
          /\ \A e \in DOMAIN buckets : e # exp => With(buckets, exp, id)[e] = buckets[e]
      BY DEF With
    <3>2. QED
      BY <2>2, <3>1
  <2>5. Shape'
    BY <1>1, <1>2, <2>1, <2>3, SMT DEF WindowInv, Shape
  <2>6. Bucketed'
    <3> SUFFICES ASSUME NEW e \in DOMAIN buckets'
                 PROVE  buckets'[e] \in DOMAIN ws' /\ ws'[buckets'[e]].exp = e /\ ws'[buckets'[e]].closed = FALSE
      BY DEF Bucketed
    <3>1. CASE e = exp
      BY <2>1, <2>3, <2>4, <3>1
    <3>2. CASE e # exp
      <4>1. e \in DOMAIN buckets /\ buckets'[e] = buckets[e]
        BY <2>4, <3>2
      <4>2. buckets[e] \in DOMAIN ws /\ ws[buckets[e]].exp = e /\ ws[buckets[e]].closed = FALSE
        BY <4>1 DEF WindowInv, Bucketed
      <4>3. QED
        BY <2>3, <4>1, <4>2
    <3>3. QED
      BY <3>1, <3>2
  <2>7. Open'
    <3>1. ASSUME NEW i \in DOMAIN ws', ws'[i].closed = FALSE
          PROVE  ws'[i].exp \in DOMAIN buckets' /\ buckets'[ws'[i].exp] = i
      <4>1. CASE i = id
        BY <2>1, <2>3, <2>4, <4>1
      <4>2. CASE i # id
        <5>1. i \in DOMAIN ws /\ ws'[i] = ws[i]
          BY <2>3, <4>2
        <5>2. ws[i].exp \in DOMAIN buckets /\ buckets[ws[i].exp] = i
          BY <3>1, <5>1 DEF WindowInv, Open
        <5>3. QED
          BY <1>4, <2>4, <5>1, <5>2
      <4>3. QED
        BY <4>1, <4>2
    <3>2. ASSUME NEW i \in DOMAIN ws', ws'[i].closed # FALSE
          PROVE  ws'[i].closed = TRUE /\ DOMAIN ws'[i].IDs = {}
      <4>1. i \in DOMAIN ws /\ ws'[i] = ws[i]
        BY <2>1, <2>3, <3>2
      <4>2. QED
        BY <3>2, <4>1 DEF WindowInv, Open
    <3>3. QED
      BY <3>1, <3>2 DEF Open
  <2>8. Found'
    BY <1>0, <1>2, <2>1, <2>3, SMT DEF WindowInv, Found, Exp
  <2>9. Listed'
    BY <1>1, <2>1, <2>3, SMT DEF WindowInv, Listed
  <2>10. ListedOnce'
    BY <2>1, <2>3, SMT DEF WindowInv, ListedOnce
  <2>11. Unlisted'
    BY <1>1 DEF WindowInv, Unlisted
  <2>12. QED
    BY <2>5, <2>6, <2>7, <2>8, <2>9, <2>10, <2>11 DEF WindowInv
<1>5. QED
  BY <1>3, <1>4

\* The lists after AddCal: w is under t in the Windows i, and nowhere else.
ListedAt(i, t, w) ==
    /\ i \in DOMAIN ws /\ ws[i].closed = FALSE
    /\ IsSeq(ws') /\ DOMAIN ws' = DOMAIN ws /\ \A j \in DOMAIN ws : j # i => ws'[j] = ws[j]
    /\ DOMAIN ws'[i] = {"exp", "closed", "IDs"} /\ ws'[i].exp = ws[i].exp /\ ws'[i].closed = FALSE
    /\ DOMAIN ws'[i].IDs = DOMAIN ws[i].IDs \cup {t} /\ ws'[i].IDs[t] = w
    /\ \A u \in DOMAIN ws[i].IDs : u # t => ws'[i].IDs[u] = ws[i].IDs[u]
    /\ \A j \in DOMAIN ws : \A u \in DOMAIN ws[j].IDs : j # i \/ u # t => ws[j].IDs[u] # w
    /\ w \notin due

LEMMA AddCalLists ==
    ASSUME WindowInv, NEW p \in Goroutines, AddCal(p), NEW w, AddedTo(g[p].ws, g[p].token, g[p].cal[1], w)
    PROVE  ListedAt(g[p].ws, g[p].token, w)
<1>0. PICK i, t : i = g[p].ws /\ t = g[p].token
  OBVIOUS
<1>1. i \in DOMAIN ws /\ ws[i].closed = FALSE
  <2>1. i \in DOMAIN ws /\ ~ ws[i].closed
    BY <1>0 DEF AddCal, WindowInv, Found
  <2>2. QED
    BY <2>1 DEF WindowInv, Open
<1>2. ws' = [ws EXCEPT ![i].IDs = With(@, t, w)]
  BY <1>0 DEF AddedTo
<1>3. IsSeq(ws) /\ DOMAIN ws[i] = {"exp", "closed", "IDs"}
  BY <1>1 DEF WindowInv, Shape
<1>4. DOMAIN ws' = DOMAIN ws /\ ws' = [j \in DOMAIN ws |-> ws'[j]] /\ \A j \in DOMAIN ws : j # i => ws'[j] = ws[j]
  BY <1>2
<1>5. IsSeq(ws')
  BY <1>3, <1>4, SeqChange
<1>6. ws'[i] = [ws[i] EXCEPT !.IDs = With(ws[i].IDs, t, w)]
  BY <1>1, <1>2
<1>7. /\ DOMAIN ws'[i] = {"exp", "closed", "IDs"} /\ ws'[i].exp = ws[i].exp /\ ws'[i].closed = ws[i].closed
      /\ ws'[i].IDs = With(ws[i].IDs, t, w)
  BY <1>3, <1>6
<1>8. /\ DOMAIN ws'[i].IDs = DOMAIN ws[i].IDs \cup {t} /\ ws'[i].IDs[t] = w
      /\ \A u \in DOMAIN ws[i].IDs : u # t => ws'[i].IDs[u] = ws[i].IDs[u]
  BY <1>7 DEF With
<1>9. CASE t \in DOMAIN ws[i].IDs
  <2>1. w = ws[i].IDs[t]
    BY <1>0, <1>9 DEF AddedTo
  <2>2. \A j \in DOMAIN ws : \A u \in DOMAIN ws[j].IDs : j # i \/ u # t => ws[j].IDs[u] # w
    BY <1>1, <1>9, <2>1 DEF WindowInv, ListedOnce
  <2>3. w \notin due
    BY <1>1, <1>9, <2>1 DEF WindowInv, Listed
  <2>4. QED
    BY <1>0, <1>1, <1>4, <1>5, <1>7, <1>8, <2>2, <2>3 DEF ListedAt
<1>10. CASE t \notin DOMAIN ws[i].IDs
  <2>1. w \notin DOMAIN win \ idle
    BY <1>0, <1>10 DEF AddedTo
  <2>2. \A j \in DOMAIN ws : \A u \in DOMAIN ws[j].IDs : ws[j].IDs[u] # w
    BY <2>1, SMT DEF WindowInv, Listed
  <2>3. w \notin due
    BY <2>1 DEF WindowInv, Unlisted
  <2>4. QED
    BY <1>0, <1>1, <1>4, <1>5, <1>7, <1>8, <2>2, <2>3 DEF ListedAt
<1>11. QED
  BY <1>9, <1>10

\* The window that a calculator is added to is listed, and was not elsewhere.
LEMMA AddCalKeeps ==
    ASSUME WindowInv, NEW p \in Goroutines, AddCal(p)
    PROVE  WindowInv'
<1>0. PICK i, t, cal : i = g[p].ws /\ t = g[p].token /\ cal = g[p].cal[1]
  OBVIOUS
<1>1. PICK w : AddedTo(i, t, cal, w)
  BY <1>0, AddCalIs
<1>2. ListedAt(i, t, w)
  BY <1>0, <1>1, AddCalLists
<1>3. /\ DOMAIN g' = Goroutines
      /\ \A q \in Goroutines : DOMAIN g'[q] = {"pc", "token", "cals", "nowTime", "cal", "ws"}
      /\ \A q \in Goroutines : q # p => g'[q] = g[q]
      /\ g'[p].pc # "found"
  BY GoOnIs DEF WindowInv, AddCal
<1>4. /\ IsSeq(win') /\ DOMAIN win' = DOMAIN win \cup {w} /\ \A x \in DOMAIN win : x # w => win'[x] = win[x]
      /\ DOMAIN win'[w] = {"Token", "cache"} /\ win'[w].Token = t /\ idle' = idle \ {w}
  BY <1>1 DEF AddedTo
<1>5. buckets' = buckets /\ due' = due
  BY DEF AddCal
<1>6. Shape'
  BY <1>2, <1>3, <1>4, SMT DEF WindowInv, Shape, ListedAt
<1>7. Bucketed'
  BY <1>2, <1>5, SMT DEF WindowInv, Bucketed, ListedAt
<1>8. Open'
  <2>1. DOMAIN ws' = DOMAIN ws /\ \A j \in DOMAIN ws : j # i => ws'[j] = ws[j]
    BY <1>2 DEF ListedAt
  <2>2. ws'[i].closed = FALSE /\ ws[i].closed = FALSE /\ ws'[i].exp = ws[i].exp
    BY <1>2 DEF ListedAt
  <2>3. QED
    BY <1>5, <2>1, <2>2, SMT DEF WindowInv, Open
<1>9. Found'
  BY <1>2, <1>3, SMT DEF WindowInv, Found, ListedAt, Exp
<1>10. ASSUME NEW j \in DOMAIN ws', NEW u \in DOMAIN ws'[j].IDs, j # i \/ u # t
       PROVE  /\ j \in DOMAIN ws /\ u \in DOMAIN ws[j].IDs /\ ws'[j].IDs[u] = ws[j].IDs[u]
              /\ ws[j].IDs[u] # w
  BY <1>2, <1>10, SMT DEF ListedAt
<1>11. ws'[i].IDs[t] = w
  BY <1>2 DEF ListedAt
<1>12. Listed'
  <2> SUFFICES ASSUME NEW j \in DOMAIN ws', NEW u \in DOMAIN ws'[j].IDs
               PROVE  /\ ws'[j].IDs[u] \in DOMAIN win'
                      /\ ws'[j].IDs[u] \notin idle' /\ ws'[j].IDs[u] \notin due'
                      /\ win'[ws'[j].IDs[u]].Token = u
    BY DEF Listed
  <2>1. CASE j = i /\ u = t
    BY <1>2, <1>4, <1>5, <1>11, <2>1 DEF ListedAt
  <2>2. CASE j # i \/ u # t
    <3>1. PICK x : x = ws[j].IDs[u]
      OBVIOUS
    <3>2. ws'[j].IDs[u] = x /\ x # w
      BY <1>10, <2>2, <3>1
    <3>3. x \in DOMAIN win /\ x \notin idle /\ x \notin due /\ win[x].Token = u
      BY <1>10, <2>2, <3>1 DEF WindowInv, Listed
    <3>4. QED
      BY <1>4, <1>5, <3>2, <3>3
  <2>3. QED
    BY <2>1, <2>2
<1>13. ListedOnce'
  <2> SUFFICES ASSUME NEW j \in DOMAIN ws', NEW k \in DOMAIN ws', NEW u \in DOMAIN ws'[j].IDs,
                      NEW v \in DOMAIN ws'[k].IDs, ws'[j].IDs[u] = ws'[k].IDs[v]
               PROVE  j = k /\ u = v
    BY DEF ListedOnce
  <2>1. CASE (j # i \/ u # t) /\ (k # i \/ v # t)
    BY <1>10, <2>1, SMT DEF WindowInv, ListedOnce
  <2>2. CASE (j # i \/ u # t) /\ k = i /\ v = t
    BY <1>10, <1>11, <2>2, SMT
  <2>3. CASE j = i /\ u = t /\ (k # i \/ v # t)
    BY <1>10, <1>11, <2>3
  <2>4. CASE j = i /\ u = t /\ k = i /\ v = t
    BY <2>4
  <2>5. QED
    BY <2>1, <2>2, <2>3, <2>4
<1>14. Unlisted'
  BY <1>4, <1>5 DEF WindowInv, Unlisted
<1>15. QED
  BY <1>6, <1>7, <1>8, <1>9, <1>12, <1>13, <1>14 DEF WindowInv

\* The Windows ids have been taken out of the buckets and closed.
Taken(ids) ==
    /\ ids \subseteq DOMAIN ws
    /\ IsSeq(ws') /\ DOMAIN ws' = DOMAIN ws
    /\ \A i \in DOMAIN ws : i \notin ids => ws'[i] = ws[i]
    /\ \A i \in ids : /\ DOMAIN ws'[i] = {"exp", "closed", "IDs"} /\ ws'[i].exp = ws[i].exp
                      /\ ws'[i].closed = TRUE /\ DOMAIN ws'[i].IDs = {}
    /\ DOMAIN buckets' = {e \in DOMAIN buckets : buckets[e] \notin ids}
    /\ \A e \in DOMAIN buckets' : buckets'[e] = buckets[e]
    /\ \A x : x \in due' <=> \E i \in ids : \E u \in DOMAIN ws[i].IDs : x = ws[i].IDs[u]

LEMMA CloseIs ==
    ASSUME NEW w, DOMAIN w = {"exp", "closed", "IDs"}
    PROVE  /\ DOMAIN Close(w) = {"exp", "closed", "IDs"} /\ Close(w).exp = w.exp
           /\ Close(w).closed = TRUE /\ DOMAIN Close(w).IDs = {}
BY DEF Close, Empty

LEMMA GetExpWidowsIs ==
    ASSUME WindowInv, GetExpWidows
    PROVE  \E ids : Taken(ids)
<1>1. PICK old, ids : /\ old = {t \in DOMAIN buckets : t <= now} /\ ids = {buckets[t] : t \in old}
  OBVIOUS
<1>2. /\ due' = UNION {Range(ws[id].IDs) : id \in ids}
      /\ ws' = [id \in DOMAIN ws |-> IF id \in ids THEN Close(ws[id]) ELSE ws[id]]
      /\ buckets' = Restrict(buckets, DOMAIN buckets \ old)
  BY <1>1 DEF GetExpWidows
<1>3. old \subseteq DOMAIN buckets /\ ids = {buckets[t] : t \in old}
  BY <1>1
<1>4. ids \subseteq DOMAIN ws
  BY <1>3 DEF WindowInv, Bucketed
<1>5. IsSeq(ws') /\ DOMAIN ws' = DOMAIN ws
  <2>1. IsSeq(ws)
    BY DEF WindowInv, Shape
  <2>2. ws' = [i \in DOMAIN ws |-> ws'[i]]
    BY <1>2
  <2>3. QED
    BY <2>1, <2>2, SeqChange
<1>6. \A i \in DOMAIN ws : i \notin ids => ws'[i] = ws[i]
  BY <1>2
<1>7. ASSUME NEW i \in ids
      PROVE  /\ DOMAIN ws'[i] = {"exp", "closed", "IDs"} /\ ws'[i].exp = ws[i].exp
             /\ ws'[i].closed = TRUE /\ DOMAIN ws'[i].IDs = {}
  <2>1. ws'[i] = Close(ws[i])
    BY <1>2, <1>4
  <2>2. DOMAIN ws[i] = {"exp", "closed", "IDs"}
    BY <1>4 DEF WindowInv, Shape
  <2>3. /\ DOMAIN Close(ws[i]) = {"exp", "closed", "IDs"} /\ Close(ws[i]).exp = ws[i].exp
        /\ Close(ws[i]).closed = TRUE /\ DOMAIN Close(ws[i]).IDs = {}
    BY <2>2, CloseIs
  <2>4. QED
    BY <2>1, <2>3
<1>8. DOMAIN buckets' = DOMAIN buckets \ old /\ \A e \in DOMAIN buckets' : buckets'[e] = buckets[e]
  BY <1>2 DEF Restrict
<1>9. ASSUME NEW e \in DOMAIN buckets
      PROVE  e \in old <=> buckets[e] \in ids
  <2>1. ASSUME buckets[e] \in ids
        PROVE  e \in old
    <3>1. PICK f \in old : buckets[e] = buckets[f]
      BY <1>3, <2>1
    <3>2. e = f
      BY <1>3, <3>1 DEF WindowInv, Bucketed
    <3>3. QED
      BY <3>2
  <2>2. QED
    BY <1>3, <2>1
<1>10. DOMAIN buckets' = {e \in DOMAIN buckets : buckets[e] \notin ids}
  BY <1>8, <1>9
<1>11. ASSUME NEW x
       PROVE  x \in due' <=> \E i \in ids : \E u \in DOMAIN ws[i].IDs : x = ws[i].IDs[u]
  BY <1>2, SMT DEF Range
<1>12. Taken(ids)
  BY <1>4, <1>5, <1>6, <1>7, <1>8, <1>10, <1>11 DEF Taken
<1>13. QED
  BY <1>12

\* The windows that are taken are listed no more.
LEMMA GetExpWidowsKeeps ==
    ASSUME WindowInv, GetExpWidows
    PROVE  WindowInv'
<1>1. PICK ids : Taken(ids)
  BY GetExpWidowsIs
<1>2. g' = g /\ win' = win /\ idle' = idle
  BY DEF GetExpWidows
<1>3. Shape'
  <2>1. \A i \in DOMAIN ws' : DOMAIN ws'[i] = {"exp", "closed", "IDs"}
    BY <1>1, SMT DEF WindowInv, Shape, Taken
  <2>2. QED
    BY <1>1, <1>2, <2>1 DEF WindowInv, Shape, Taken
<1>4. Bucketed'
  <2> SUFFICES ASSUME NEW e \in DOMAIN buckets'
               PROVE  buckets'[e] \in DOMAIN ws' /\ ws'[buckets'[e]].exp = e /\ ws'[buckets'[e]].closed = FALSE
    BY DEF Bucketed
  <2>1. e \in DOMAIN buckets /\ buckets'[e] = buckets[e] /\ buckets[e] \notin ids
    BY <1>1 DEF Taken
  <2>2. buckets[e] \in DOMAIN ws /\ ws[buckets[e]].exp = e /\ ws[buckets[e]].closed = FALSE
    BY <2>1 DEF WindowInv, Bucketed
  <2>3. ws'[buckets[e]] = ws[buckets[e]] /\ DOMAIN ws' = DOMAIN ws
    BY <1>1, <2>1, <2>2 DEF Taken
  <2>4. QED
    BY <2>1, <2>2, <2>3
<1>5. Open'
  <2>1. ASSUME NEW i \in DOMAIN ws', ws'[i].closed = FALSE
        PROVE  ws'[i].exp \in DOMAIN buckets' /\ buckets'[ws'[i].exp] = i
    <3>1. i \in DOMAIN ws /\ i \notin ids /\ ws'[i] = ws[i]
      BY <1>1, <2>1 DEF Taken
    <3>2. ws[i].exp \in DOMAIN buckets /\ buckets[ws[i].exp] = i
      BY <2>1, <3>1 DEF WindowInv, Open
    <3>3. QED
      BY <1>1, <3>1, <3>2, SMT DEF Taken
  <2>2. ASSUME NEW i \in DOMAIN ws', ws'[i].closed # FALSE
        PROVE  ws'[i].closed = TRUE /\ DOMAIN ws'[i].IDs = {}
    <3>1. CASE i \in ids
      BY <1>1, <3>1 DEF Taken
    <3>2. CASE i \notin ids
      <4>1. i \in DOMAIN ws /\ ws'[i] = ws[i]
        BY <1>1, <3>2 DEF Taken
      <4>2. QED
        BY <2>2, <4>1 DEF WindowInv, Open
    <3>3. QED
      BY <3>1, <3>2
  <2>3. QED
    BY <2>1, <2>2 DEF Open
<1>6. Found'
  <2>1. \A i \in DOMAIN ws : i \in DOMAIN ws' /\ ws'[i].exp = ws[i].exp
    BY <1>1 DEF Taken
  <2>2. QED
    BY <1>2, <2>1 DEF WindowInv, Found, Exp
<1>7. ASSUME NEW i \in DOMAIN ws', NEW t \in DOMAIN ws'[i].IDs
      PROVE  i \in DOMAIN ws /\ i \notin ids /\ ws'[i] = ws[i]
  BY <1>1 DEF Taken
<1>8. Listed'
  <2> SUFFICES ASSUME NEW i \in DOMAIN ws', NEW t \in DOMAIN ws'[i].IDs
               PROVE  /\ ws'[i].IDs[t] \in DOMAIN win'
                      /\ ws'[i].IDs[t] \notin idle' /\ ws'[i].IDs[t] \notin due'
                      /\ win'[ws'[i].IDs[t]].Token = t
    BY DEF Listed
  <2>1. i \in DOMAIN ws /\ i \notin ids /\ ws'[i] = ws[i]
    BY <1>7
  <2>2. ws[i].IDs[t] \notin due'
    <3>1. ASSUME NEW j \in ids, NEW u \in DOMAIN ws[j].IDs
          PROVE  ws[i].IDs[t] # ws[j].IDs[u]
      BY <1>1, <2>1, SMT DEF WindowInv, ListedOnce, Taken
    <3>2. QED
      BY <1>1, <3>1, SMT DEF Taken
  <2>3. ws[i].IDs[t] \in DOMAIN win /\ ws[i].IDs[t] \notin idle /\ win[ws[i].IDs[t]].Token = t
    BY <2>1 DEF WindowInv, Listed
  <2>4. QED
    BY <1>2, <2>1, <2>2, <2>3
<1>9. ListedOnce'
  <2> SUFFICES ASSUME NEW i \in DOMAIN ws', NEW j \in DOMAIN ws', NEW t \in DOMAIN ws'[i].IDs,
                      NEW u \in DOMAIN ws'[j].IDs, ws'[i].IDs[t] = ws'[j].IDs[u]
               PROVE  i = j /\ t = u
    BY DEF ListedOnce
  <2>1. i \in DOMAIN ws /\ ws'[i] = ws[i] /\ j \in DOMAIN ws /\ ws'[j] = ws[j]
    BY <1>7
  <2>2. QED
    BY <2>1, SMT DEF WindowInv, ListedOnce
<1>10. Unlisted'
  <2>1. ASSUME NEW x \in due'
        PROVE  x \in DOMAIN win /\ x \notin idle
    <3>1. PICK i, u : i \in ids /\ u \in DOMAIN ws[i].IDs /\ x = ws[i].IDs[u]
      BY <1>1, SMT DEF Taken
    <3>2. QED
      BY <1>1, <3>1 DEF WindowInv, Listed, Taken
  <2>2. QED
    BY <1>2, <2>1 DEF WindowInv, Unlisted
<1>11. QED
  BY <1>3, <1>4, <1>5, <1>6, <1>8, <1>9, <1>10 DEF WindowInv

\* A window that is Reset is not listed.
LEMMA WindowsToDataKeeps ==
    ASSUME WindowInv, NEW w, WindowsToData(w)
    PROVE  WindowInv'
<1>1. /\ w \in due /\ win' = [win EXCEPT ![w] = Reset(@)] /\ idle' = idle \cup {w} /\ due' = due \ {w}
      /\ g' = g /\ ws' = ws /\ buckets' = buckets
  BY DEF WindowsToData
<1>2. w \in DOMAIN win
  BY <1>1 DEF WindowInv, Unlisted
<1>3. IsSeq(win) /\ \A x \in DOMAIN win : DOMAIN win[x] = {"Token", "cache"}
  BY DEF WindowInv, Shape
<1>4. win' = [x \in DOMAIN win |-> win'[x]] /\ \A x \in DOMAIN win : x # w => win'[x] = win[x]
  BY <1>1
<1>5. IsSeq(win') /\ DOMAIN win' = DOMAIN win
  BY <1>3, <1>4, SeqChange
<1>6. DOMAIN win'[w] = {"Token", "cache"}
  <2>1. DOMAIN Reset(win[w]) = {"Token", "cache"}
    BY <1>2, <1>3, ResetIs
  <2>2. QED
    BY <1>1, <1>2, <2>1
<1>7. Shape'
  <2>1. \A x \in DOMAIN win' : DOMAIN win'[x] = {"Token", "cache"}
    BY <1>3, <1>4, <1>5, <1>6
  <2>2. QED
    BY <1>1, <1>5, <2>1 DEF WindowInv, Shape
<1>8. Bucketed' /\ Open'
  BY <1>1 DEF WindowInv, Bucketed, Open
<1>9. Found'
  BY <1>1 DEF WindowInv, Found, Exp
<1>10. ListedOnce'
  BY <1>1, SMT DEF WindowInv, ListedOnce
<1>11. Listed'
  BY <1>1, <1>4, <1>5, SMT DEF WindowInv, Listed
<1>12. Unlisted'
  BY <1>1, <1>2, <1>5 DEF WindowInv, Unlisted
<1>13. QED
  BY <1>7, <1>8, <1>9, <1>10, <1>11, <1>12 DEF WindowInv

LEMMA WindowInvInit == Init => WindowInv
<1> SUFFICES ASSUME Init PROVE WindowInv
  OBVIOUS
<1>1. ws = <<>> /\ win = <<>> /\ buckets = Empty /\ idle = {} /\ due = {} /\ g = [p \in Goroutines |-> Idle]
  BY DEF Init
<1>2. IsSeq(<<>>) /\ DOMAIN <<>> = {}
  BY SMT DEF IsSeq
<1>3. IsSeq(ws) /\ DOMAIN ws = {} /\ IsSeq(win) /\ DOMAIN win = {} /\ DOMAIN buckets = {}
  BY <1>1, <1>2 DEF Empty
<1>4. /\ DOMAIN g = Goroutines
      /\ \A p \in Goroutines : g[p].pc = "idle" /\ DOMAIN g[p] = {"pc", "token", "cals", "nowTime", "cal", "ws"}
  BY <1>1 DEF Idle
<1>5. Shape
  BY <1>3, <1>4 DEF Shape
<1>6. Bucketed /\ Open /\ Listed /\ ListedOnce
  BY <1>3 DEF Bucketed, Open, Listed, ListedOnce
<1>7. Found
  BY <1>4 DEF Found
<1>8. Unlisted
  BY <1>1 DEF Unlisted
<1>9. QED
  BY <1>5, <1>6, <1>7, <1>8 DEF WindowInv

\* Every step keeps the invariant of the windows.
LEMMA WindowInvStep == WindowInv /\ [Next]_vars => WindowInv'
<1> SUFFICES ASSUME WindowInv, [Next]_vars PROVE WindowInv'
  OBVIOUS
<1>1. ASSUME NEW p \in Goroutines, NEW id \in Batches, AddBatch(p, id)
      PROVE  WindowInv'
  <2>1. Start(p, id, NewCals(ac, id)) /\ UNCHANGED <<ws, buckets, win, idle, due>>
    BY <1>1 DEF AddBatch, cacheVars
  <2>2. Shape
    BY DEF WindowInv
  <2>3. /\ DOMAIN g' = Goroutines
        /\ \A q \in Goroutines : DOMAIN g'[q] = {"pc", "token", "cals", "nowTime", "cal", "ws"}
        /\ \A q \in Goroutines : g'[q].pc # "found" \/ g'[q] = g[q]
    BY <2>1, <2>2, StartIs
  <2>4. QED
    BY <2>1, <2>3, WindowsKept
<1>2. ASSUME NEW p \in Goroutines, NEW cals, GoOn(p, cals), UNCHANGED <<ws, buckets, win, idle, due>>
      PROVE  WindowInv'
  <2>1. Shape
    BY DEF WindowInv
  <2>2. /\ DOMAIN g' = Goroutines
        /\ \A q \in Goroutines : DOMAIN g'[q] = {"pc", "token", "cals", "nowTime", "cal", "ws"}
        /\ \A q \in Goroutines : g'[q].pc # "found" \/ g'[q] = g[q]
    BY <1>2, <2>1, GoOnIs
  <2>3. QED
    BY <1>2, <2>2, WindowsKept
<1>3. ASSUME NEW p \in Goroutines, NEW cal \in g[p].cals, Late(p, cal)
      PROVE  WindowInv'
  <2>1. GoOn(p, g[p].cals \ {cal}) /\ UNCHANGED <<ws, buckets, win, idle, due>>
    BY <1>3 DEF Late, cacheVars
  <2>2. QED
    BY <1>2, <2>1
<1>4. ASSUME NEW p \in Goroutines, Closed(p)
      PROVE  WindowInv'
  <2>1. (\E cals : GoOn(p, cals)) /\ UNCHANGED <<ws, buckets, win, idle, due>>
    BY <1>4 DEF Closed, cacheVars
  <2>2. QED
    BY <1>2, <2>1
<1>5. ASSUME UNCHANGED <<g, ws, buckets, win, idle, due>>
      PROVE  WindowInv'
  <2>1. /\ DOMAIN g' = Goroutines
        /\ \A q \in Goroutines : DOMAIN g'[q] = {"pc", "token", "cals", "nowTime", "cal", "ws"}
        /\ \A q \in Goroutines : g'[q] = g[q]
    BY <1>5 DEF WindowInv, Shape
  <2>2. UNCHANGED <<ws, buckets, win, idle, due>>
    BY <1>5
  <2>3. QED
    BY <2>1, <2>2, WindowsKept
<1>6. CASE Tick \/ SetBack \/ UNCHANGED vars
  BY <1>5, <1>6 DEF Tick, SetBack, vars, cacheVars
<1>7. QED
  BY <1>1, <1>3, <1>4, <1>6, FindKeeps, AddCalKeeps, GetExpWidowsKeeps, WindowsToDataKeeps DEF Next

\* A window in the pool or with the collector is in no Windows, and no two
\* Windows or tokens share one: what AddCal, GetExpWidows and WindowsToData
\* hand on under different locks has one owner.
THEOREM WindowsHaveOneOwner == Spec => []WindowOwned
<1>1. WindowInv => WindowOwned
  <2> SUFFICES ASSUME WindowInv PROVE WindowOwned
    OBVIOUS
  <2>1. DOMAIN ws = 1..Len(ws)
    BY DEF WindowInv, Shape, IsSeq
  <2>2. QED
    BY <2>1, SMT DEF WindowInv, Listed, ListedOnce, WindowOwned
<1>2. QED
  BY <1>1, WindowInvInit, WindowInvStep, PTL DEF Spec

-----------------------------------------------------------------------------
(* A calculator is counted once *)

\* A window will be aggregated if it is taken or in the list of some Windows.
LEMMA ReachableIs ==
    WindowInv => \A x : x \in Reachable <=> \/ x \in due
                                            \/ \E i \in DOMAIN ws : \E t \in DOMAIN ws[i].IDs : x = ws[i].IDs[t]
<1> SUFFICES ASSUME WindowInv, NEW x
             PROVE  x \in Reachable <=> \/ x \in due
                                        \/ \E i \in DOMAIN ws : \E t \in DOMAIN ws[i].IDs : x = ws[i].IDs[t]
  OBVIOUS
<1>1. x \in Reachable <=> \/ x \in due
                          \/ \E e \in DOMAIN buckets : \E t \in DOMAIN ws[buckets[e]].IDs : x = ws[buckets[e]].IDs[t]
  BY SMT DEF Reachable, Range
<1>2. \A e \in DOMAIN buckets : buckets[e] \in DOMAIN ws
  BY DEF WindowInv, Bucketed
<1>3. \A i \in DOMAIN ws : \A t \in DOMAIN ws[i].IDs : \E e \in DOMAIN buckets : buckets[e] = i
  BY DEF WindowInv, Open
<1>4. QED
  BY <1>1, <1>2, <1>3, SMT

LEMMA EntriesAre ==
    \A e : e \in Entries <=> \E w \in Reachable : \E h \in DOMAIN win[w].cache : e = <<w, h>>
BY SMT DEF Entries

\* What is held is in the cache or was emitted.
LEMMA HeldIs ==
    \A c : c \in Held <=> c \in Emitted \/ \E e \in Entries : c = Cal(e)
<1> SUFFICES ASSUME NEW c PROVE c \in Held <=> c \in Emitted \/ \E e \in Entries : c = Cal(e)
  OBVIOUS
<1>1. c \in Cached <=> \E w \in Reachable : \E h \in DOMAIN win[w].cache : c = win[w].cache[h]
  BY SMT DEF Cached, Range
<1>2. \A w, h : Cal(<<w, h>>) = win[w].cache[h]
  BY SMT DEF Cal
<1>3. ASSUME c \in Cached
      PROVE  \E e \in Entries : c = Cal(e)
  <2>1. PICK w, h : w \in Reachable /\ h \in DOMAIN win[w].cache /\ c = win[w].cache[h]
    BY <1>1, <1>3
  <2>2. <<w, h>> \in Entries
    BY <2>1, EntriesAre
  <2>3. QED
    BY <1>2, <2>1, <2>2
<1>4. ASSUME NEW e \in Entries, c = Cal(e)
      PROVE  c \in Cached
  <2>1. PICK w, h : w \in Reachable /\ h \in DOMAIN win[w].cache /\ e = <<w, h>>
    BY EntriesAre
  <2>2. Cal(e) = win[w].cache[h]
    BY <1>2, <2>1
  <2>3. QED
    BY <1>1, <1>4, <2>1, <2>2
<1>5. QED
  BY <1>3, <1>4 DEF Held

\* Two calculators with the same label are the same.
LEMMA KnownEqual ==
    ASSUME Calculators, NEW c, NEW d, Known(c), Known(d), c.src = d.src
    PROVE  c = d
<1>1. PICK k \in Cases : ac = k.ac
  BY DEF Calculators
<1>2. PICK i, j : i \in Batches /\ j \in Batches /\ c \in NewCals(k.ac, i) /\ d \in NewCals(k.ac, j)
  BY <1>1 DEF Calculators, Known
<1>3. PICK s, u : c.src = {s} /\ s[1] = i /\ d.src = {u} /\ u[1] = j
  BY <1>1, <1>2, NewCalsAssumption, SMT
<1>4. s = u
  BY <1>3
<1>5. i = j
  BY <1>3, <1>4
<1>6. QED
  BY <1>1, <1>2, <1>5, NewCalsAssumption

\* What a new calculator has.
LEMMA KnownIs ==
    ASSUME Calculators, NEW c, Known(c)
    PROVE  /\ {"hash", "nextWallTime", "aggrTags", "state", "src"} \subseteq DOMAIN c
           /\ \E s : c.src = {s}
<1>1. PICK k \in Cases : ac = k.ac
  BY DEF Calculators
<1>2. PICK i : i \in Batches /\ c \in NewCals(k.ac, i)
  BY <1>1 DEF Calculators, Known
<1>3. {"hash", "nextWallTime", "aggrTags", "state", "src"} \subseteq DOMAIN c
  BY <1>1, <1>2, NewCalsAssumption
<1>4. \E s \in c.src : c.src = {s}
  BY <1>1, <1>2, NewCalsAssumption, SMT
<1>5. QED
  BY <1>3, <1>4

\* A goroutine counts some of its calculators, and keeps others.
LEMMA CalculatorsMoved ==
    ASSUME Calculators, NEW p \in Goroutines,
           \A q \in Goroutines : q # p => g'[q] = g[q],
           ac' = ac, sent' = sent,
           Pending(p)' \subseteq Pending(p),
           NEW A, NEW E, A \subseteq Pending(p), E \subseteq Pending(p), A \cap E = {},
           added' = added \cup A, expN' = expN \cup E,
           Pending(p)' \cap (A \cup E) = {},
           g'[p].pc = "found" => g'[p].cal[1] \notin g'[p].cals
    PROVE  Calculators'
<1>1. \A q \in Goroutines : q # p => Pending(q)' = Pending(q)
  BY DEF Pending
<1>2. \A c : Known(c)' <=> Known(c)
  BY DEF Known
<1>3. (\E c \in Cases : ac' = c.ac) /\ sent' \subseteq Batches
  BY DEF Calculators
<1>4. \A q \in Goroutines : \A c \in Pending(q) : Known(c) /\ c \notin added \cup expN
  BY DEF Calculators
<1>5. \A q, r \in Goroutines : q # r => Pending(q) \cap Pending(r) = {}
  BY DEF Calculators
<1>6. ASSUME NEW q \in Goroutines, NEW c \in Pending(q)'
      PROVE  Known(c)' /\ c \notin added' \cup expN'
  BY <1>1, <1>2, <1>4, <1>5, SMT
<1>7. ASSUME NEW c \in added' \cup expN'
      PROVE  Known(c)'
  BY <1>2, <1>4 DEF Calculators
<1>8. added' \cap expN' = {}
  BY <1>4 DEF Calculators
<1>9. \A q, r \in Goroutines : q # r => Pending(q)' \cap Pending(r)' = {}
  BY <1>1, <1>5, SMT
<1>10. \A q \in Goroutines : g'[q].pc = "found" => g'[q].cal[1] \notin g'[q].cals
  BY DEF Calculators
<1>11. QED
  BY <1>3, <1>6, <1>7, <1>8, <1>9, <1>10 DEF Calculators

\* How the sets above are read.
Reading ==
    /\ WindowInv => \A x : x \in Reachable <=> \/ x \in due
                                               \/ \E i \in DOMAIN ws : \E t \in DOMAIN ws[i].IDs : x = ws[i].IDs[t]
    /\ \A w, h : <<w, h>> \in Entries <=> w \in Reachable /\ h \in DOMAIN win[w].cache
    /\ \A w, h : Cal(<<w, h>>) = win[w].cache[h]
    /\ \A e \in Entries : e = <<e[1], e[2]>>
    /\ \A c : c \in Held <=> c \in Emitted \/ \E e \in Entries : c = Cal(e)

LEMMA ReadingHolds == Reading
<1>1. \A w, h : <<w, h>> \in Entries <=> w \in Reachable /\ h \in DOMAIN win[w].cache
  BY EntriesAre, SMT
<1>2. \A w, h : Cal(<<w, h>>) = win[w].cache[h]
  BY SMT DEF Cal
<1>3. \A e \in Entries : e = <<e[1], e[2]>>
  BY EntriesAre, SMT
<1>4. QED
  BY <1>1, <1>2, <1>3, ReachableIs, HeldIs DEF Reading

LEMMA ReadingNext == Reading'
BY ReadingHolds, PTL

\* A step after which the cache holds what it held.
LEMMA StorageKept ==
    ASSUME Filed, Apart, Accounted, win' = win, Reachable' = Reachable, out' = out, added' = added,
           \A i \in DOMAIN ws' : \A t \in DOMAIN ws'[i].IDs :
               /\ i \in DOMAIN ws /\ t \in DOMAIN ws[i].IDs
               /\ ws[i].IDs[t] = ws'[i].IDs[t] /\ ws[i].exp = ws'[i].exp
    PROVE  Filed' /\ Apart' /\ Accounted'
<1>1. Entries' = Entries
  BY SMT DEF Entries
<1>2. \A e : Cal(e)' = Cal(e)
  BY DEF Cal
<1>3. Emitted' = Emitted
  BY DEF Emitted
<1>4. Held' = Held
  <2>1. Cached' = Cached
    BY SMT DEF Cached
  <2>2. QED
    BY <1>3, <2>1 DEF Held
<1>5. Filed'
  <2>1. \A e \in Entries' : {"hash", "nextWallTime", "state", "src"} \subseteq DOMAIN Cal(e)' /\ Cal(e)'.hash = e[2]
    BY <1>1, <1>2 DEF Filed
  <2>2. ASSUME NEW i \in DOMAIN ws', NEW t \in DOMAIN ws'[i].IDs, NEW e \in Entries', e[1] = ws'[i].IDs[t]
        PROVE  Exp(Cal(e)') = ws'[i].exp
    <3>1. i \in DOMAIN ws /\ t \in DOMAIN ws[i].IDs /\ e \in Entries /\ e[1] = ws[i].IDs[t] /\ ws[i].exp = ws'[i].exp
      BY <1>1, <2>2
    <3>2. Exp(Cal(e)) = ws[i].exp
      BY <3>1 DEF Filed
    <3>3. QED
      BY <1>2, <3>1, <3>2
  <2>3. QED
    BY <2>1, <2>2 DEF Filed, Exp
<1>6. Apart'
  BY <1>1, <1>2, <1>3 DEF Apart
<1>7. Accounted'
  BY <1>4 DEF Accounted, Exp
<1>8. QED
  BY <1>5, <1>6, <1>7

\* What a calculator has, and a cache of them.
IsCal(c) == {"hash", "nextWallTime", "aggrTags", "state", "src"} \subseteq DOMAIN c
ByHash(C) == \A k \in DOMAIN C : {"hash", "nextWallTime", "state", "src"} \subseteq DOMAIN C[k] /\ C[k].hash = k

\* What the cache holds under the hash of a calculator that was added.
GrownTo(C, cal, h, G) ==
    /\ DOMAIN G = DOMAIN C \cup {h} /\ \A k \in DOMAIN C : k # h => G[k] = C[k]
    /\ {"hash", "nextWallTime", "state", "src"} \subseteq DOMAIN G[h] /\ G[h].hash = h
    /\ h \in DOMAIN C => G[h].src = C[h].src \cup cal.src /\ G[h].nextWallTime = C[h].nextWallTime
    /\ h \notin DOMAIN C => G[h].src = cal.src /\ G[h].nextWallTime = cal.nextWallTime

LEMMA GrownIs ==
    ASSUME NEW C, NEW cal, IsCal(cal), ByHash(C)
    PROVE  GrownTo(C, cal, cal.hash, Grown(C, cal))
<1>0. PICK h, G : h = cal.hash /\ G = Grown(C, cal)
  OBVIOUS
<1>1. CASE h \in DOMAIN C
  <2> DEFINE n == [C[h] EXCEPT !.state = StateAdded(C[h], cal), !.src = C[h].src \cup cal.src]
  <2>1. {"hash", "nextWallTime", "state", "src"} \subseteq DOMAIN C[h] /\ C[h].hash = h
    BY <1>1 DEF ByHash
  <2>2. /\ {"hash", "nextWallTime", "state", "src"} \subseteq DOMAIN n
        /\ n.hash = h /\ n.src = C[h].src \cup cal.src /\ n.nextWallTime = C[h].nextWallTime
    BY <2>1
  <2>3. G = With(C, h, n)
    BY <1>0, <1>1 DEF Grown
  <2> HIDE DEF n
  <2>4. DOMAIN With(C, h, n) = DOMAIN C \cup {h} /\ With(C, h, n)[h] = n
        /\ \A k \in DOMAIN C : k # h => With(C, h, n)[k] = C[k]
    BY DEF With
  <2>5. QED
    BY <1>0, <1>1, <2>2, <2>3, <2>4 DEF GrownTo
<1>2. CASE h \notin DOMAIN C
  <2> DEFINE n == [cal EXCEPT !.aggrTags = BuiltTags(cal)]
  <2>1. /\ {"hash", "nextWallTime", "state", "src"} \subseteq DOMAIN n
        /\ n.hash = h /\ n.src = cal.src /\ n.nextWallTime = cal.nextWallTime
    BY <1>0 DEF IsCal
  <2>2. G = With(C, h, n)
    BY <1>0, <1>2 DEF Grown
  <2> HIDE DEF n
  <2>3. DOMAIN With(C, h, n) = DOMAIN C \cup {h} /\ With(C, h, n)[h] = n
        /\ \A k \in DOMAIN C : k # h => With(C, h, n)[k] = C[k]
    BY DEF With
  <2>4. QED
    BY <1>0, <1>2, <2>1, <2>2, <2>3 DEF GrownTo
<1>3. QED
  BY <1>1, <1>2

\* The calculator cal, of label s, is now at e, with what was there.
StoredAt(e, cal, s) ==
    /\ e[2] = cal.hash
    /\ Entries' = Entries \cup {e}
    /\ \A f \in Entries : f # e => Cal(f)' = Cal(f)
    /\ {"hash", "nextWallTime", "state", "src"} \subseteq DOMAIN Cal(e)'
    /\ Cal(e)'.hash = cal.hash /\ Exp(Cal(e)') = Exp(cal)
    /\ e \in Entries => Cal(e)'.src = Cal(e).src \cup {s} /\ Exp(Cal(e)) = Exp(cal)
    /\ e \notin Entries => Cal(e)'.src = {s}

\* AddCal makes one window reachable, if it was not, and changes no other.
LEMMA AddCalReaches ==
    ASSUME WindowInv, WindowInv', due' = due, NEW i, NEW t, NEW w, ListedAt(i, t, w),
           t \in DOMAIN ws[i].IDs => w = ws[i].IDs[t]
    PROVE  Reachable' = Reachable \cup {w}
<1>1. \A x : x \in Reachable <=> \/ x \in due
                                 \/ \E j \in DOMAIN ws : \E u \in DOMAIN ws[j].IDs : x = ws[j].IDs[u]
  BY ReachableIs
<1>2. \A x : x \in Reachable' <=> \/ x \in due'
                                  \/ \E j \in DOMAIN ws' : \E u \in DOMAIN ws'[j].IDs : x = ws'[j].IDs[u]
  BY ReadingNext DEF Reading
<1>3. w \in Reachable'
  BY <1>2 DEF ListedAt
<1>4. ASSUME NEW j \in DOMAIN ws, NEW u \in DOMAIN ws[j].IDs, ws[j].IDs[u] # w
      PROVE  j \in DOMAIN ws' /\ u \in DOMAIN ws'[j].IDs /\ ws'[j].IDs[u] = ws[j].IDs[u]
  <2>1. CASE j # i
    BY <2>1 DEF ListedAt
  <2>2. CASE j = i /\ u # t
    BY <2>2 DEF ListedAt
  <2>3. CASE j = i /\ u = t
    BY <1>4, <2>3
  <2>4. QED
    BY <2>1, <2>2, <2>3
<1>5. ASSUME NEW j \in DOMAIN ws', NEW u \in DOMAIN ws'[j].IDs, ws'[j].IDs[u] # w
      PROVE  j \in DOMAIN ws /\ u \in DOMAIN ws[j].IDs /\ ws'[j].IDs[u] = ws[j].IDs[u]
  <2>1. CASE j # i
    BY <2>1 DEF ListedAt
  <2>2. CASE j = i
    <3>1. u # t
      BY <1>5, <2>2 DEF ListedAt
    <3>2. QED
      BY <2>2, <3>1 DEF ListedAt
  <2>3. QED
    BY <2>1, <2>2
<1>6. ASSUME NEW x, x # w
      PROVE  x \in Reachable' <=> x \in Reachable
  BY <1>1, <1>2, <1>4, <1>5, <1>6, SMT
<1>7. QED
  BY <1>3, <1>6

LEMMA AddCalStores ==
    ASSUME CountInv, WindowInv', NEW p \in Goroutines, AddCal(p)
    PROVE  \E w, s : g[p].cal[1].src = {s} /\ ListedAt(g[p].ws, g[p].token, w) /\ StoredAt(<<w, g[p].cal[1].hash>>, g[p].cal[1], s)
<1>0. PICK i, t, cal : i = g[p].ws /\ t = g[p].token /\ cal = g[p].cal[1]
  OBVIOUS
<1> WindowInv /\ Calculators /\ Filed
  BY DEF CountInv
<1>1. PICK w : AddedTo(i, t, cal, w)
  BY <1>0, AddCalIs
<1>2. ListedAt(i, t, w)
  BY <1>0, <1>1, AddCalLists
<1>3. Known(cal)
  BY <1>0 DEF Calculators, Pending, AddCal
<1>4. IsCal(cal)
  BY <1>3, KnownIs DEF IsCal
<1>5. PICK s : cal.src = {s}
  BY <1>3, KnownIs
<1>6. t \in DOMAIN ws[i].IDs => w = ws[i].IDs[t]
  BY <1>1 DEF AddedTo
<1>7. Reachable' = Reachable \cup {w}
  <2>1. due' = due
    BY DEF AddCal
  <2>2. QED
    BY <1>2, <1>6, <2>1, AddCalReaches
<1>8. /\ \A x, h : <<x, h>> \in Entries <=> x \in Reachable /\ h \in DOMAIN win[x].cache
      /\ \A x, h : Cal(<<x, h>>) = win[x].cache[h]
      /\ \A e \in Entries : e = <<e[1], e[2]>>
  BY ReadingHolds DEF Reading
<1>9. /\ \A x, h : <<x, h>> \in Entries' <=> x \in Reachable' /\ h \in DOMAIN win'[x].cache
      /\ \A x, h : Cal(<<x, h>>)' = win'[x].cache[h]
      /\ \A e \in Entries' : e = <<e[1], e[2]>>
  BY ReadingNext DEF Reading
<1>10. \A x : x \in Reachable => x \in DOMAIN win /\ x \notin idle
  BY ReachableIs, SMT DEF WindowInv, Listed, Unlisted
<1>11. PICK C : /\ win'[w].cache = Grown(C, cal)
                /\ \A k : <<w, k>> \in Entries <=> k \in DOMAIN C
                /\ \A k \in DOMAIN C : Cal(<<w, k>>) = C[k]
                /\ \A k \in DOMAIN C : t \in DOMAIN ws[i].IDs
  <2>1. CASE t \in DOMAIN ws[i].IDs
    <3>1. w \in Reachable
      BY <1>2, <1>6, <2>1, ReachableIs DEF ListedAt
    <3>2. win'[w].cache = Grown(win[w].cache, cal)
      BY <1>1, <2>1 DEF AddedTo
    <3>3. QED
      BY <1>8, <2>1, <3>1, <3>2, SMT
  <2>2. CASE t \notin DOMAIN ws[i].IDs
    <3>1. w \notin Reachable
      BY <1>1, <1>10, <2>2 DEF AddedTo
    <3>2. win'[w].cache = Grown(Empty, cal) /\ DOMAIN Empty = {}
      BY <1>1, <2>2 DEF AddedTo, Empty
    <3>3. QED
      BY <1>8, <3>1, <3>2
  <2>3. QED
    BY <2>1, <2>2
<1>12. ByHash(C)
  <2> SUFFICES ASSUME NEW k \in DOMAIN C
               PROVE  {"hash", "nextWallTime", "state", "src"} \subseteq DOMAIN C[k] /\ C[k].hash = k
    BY DEF ByHash
  <2>1. <<w, k>> \in Entries /\ Cal(<<w, k>>) = C[k]
    BY <1>11
  <2>2. <<w, k>>[2] = k
    BY SMT
  <2>3. {"hash", "nextWallTime", "state", "src"} \subseteq DOMAIN Cal(<<w, k>>) /\ Cal(<<w, k>>).hash = <<w, k>>[2]
    BY <2>1 DEF Filed
  <2>4. QED
    BY <2>1, <2>2, <2>3
<1>13. PICK h, G : h = cal.hash /\ G = win'[w].cache
  OBVIOUS
<1>14. /\ DOMAIN G = DOMAIN C \cup {h} /\ \A k \in DOMAIN C : k # h => G[k] = C[k]
       /\ {"hash", "nextWallTime", "state", "src"} \subseteq DOMAIN G[h] /\ G[h].hash = h
       /\ h \in DOMAIN C => G[h].src = C[h].src \cup cal.src /\ G[h].nextWallTime = C[h].nextWallTime
       /\ h \notin DOMAIN C => G[h].src = cal.src /\ G[h].nextWallTime = cal.nextWallTime
  <2>1. GrownTo(C, cal, cal.hash, Grown(C, cal))
    BY <1>4, <1>12, GrownIs
  <2>2. GrownTo(C, cal, h, G)
    BY <1>11, <1>13, <2>1
  <2>3. QED
    BY <2>2 DEF GrownTo
<1>15. PICK e : e = <<w, h>>
  OBVIOUS
<1>16. e[2] = h /\ e[1] = w
  BY <1>15, SMT
<1>17. Cal(e)' = G[h] /\ (e \in Entries <=> h \in DOMAIN C) /\ (h \in DOMAIN C => Cal(e) = C[h])
  BY <1>9, <1>11, <1>13, <1>15
<1>18. \A x \in Reachable : x # w => win'[x] = win[x]
  BY <1>1, <1>10 DEF AddedTo
<1>19. ASSUME NEW f \in Entries'
       PROVE  f \in Entries \/ f = e
  <2>1. PICK x, k : f = <<x, k>> /\ x \in Reachable' /\ k \in DOMAIN win'[x].cache
    BY <1>9, SMT
  <2>2. CASE x = w
    <3>1. k \in DOMAIN C \/ k = h
      BY <1>13, <1>14, <2>1, <2>2
    <3>2. QED
      BY <1>11, <1>15, <2>1, <2>2, <3>1
  <2>3. CASE x # w
    BY <1>7, <1>8, <1>18, <2>1, <2>3
  <2>4. QED
    BY <2>2, <2>3
<1>20. ASSUME NEW f \in Entries
       PROVE  f \in Entries' /\ (f # e => Cal(f)' = Cal(f))
  <2>1. PICK x, k : f = <<x, k>> /\ x \in Reachable /\ k \in DOMAIN win[x].cache
    BY <1>8, SMT
  <2>2. CASE x = w
    <3>1. k \in DOMAIN C /\ k \in DOMAIN win'[w].cache
      BY <1>11, <1>13, <1>14, <2>1, <2>2
    <3>2. f \in Entries'
      BY <1>7, <1>9, <2>1, <2>2, <3>1
    <3>3. ASSUME f # e PROVE Cal(f)' = Cal(f)
      <4>1. k # h
        BY <1>15, <2>1, <2>2, <3>3
      <4>2. Cal(f)' = G[k] /\ Cal(f) = C[k]
        BY <1>9, <1>11, <1>13, <2>1, <2>2, <3>1
      <4>3. QED
        BY <1>14, <3>1, <4>1, <4>2
    <3>4. QED
      BY <3>2, <3>3
  <2>3. CASE x # w
    <3>1. win'[x] = win[x] /\ x \in Reachable'
      BY <1>7, <1>18, <2>1, <2>3
    <3>2. QED
      BY <1>8, <1>9, <2>1, <3>1, SMT
  <2>4. QED
    BY <2>2, <2>3
<1>21. e \in Entries'
  BY <1>7, <1>9, <1>13, <1>14, <1>15
<1>22. Entries' = Entries \cup {e}
  BY <1>19, <1>20, <1>21
<1>23. ws[i].exp = Exp(cal)
  BY <1>0 DEF WindowInv, Found, AddCal
<1>24. h \in DOMAIN C => Exp(C[h]) = Exp(cal)
  <2> SUFFICES ASSUME h \in DOMAIN C PROVE Exp(C[h]) = Exp(cal)
    OBVIOUS
  <2>1. i \in DOMAIN ws /\ t \in DOMAIN ws[i].IDs /\ e[1] = ws[i].IDs[t] /\ e \in Entries /\ Cal(e) = C[h]
    BY <1>2, <1>6, <1>11, <1>16, <1>17 DEF ListedAt
  <2>2. Exp(Cal(e)) = ws[i].exp
    BY <2>1 DEF Filed
  <2>3. QED
    BY <1>23, <2>1, <2>2
<1>25. Exp(G[h]) = Exp(cal)
  BY <1>14, <1>24 DEF Exp
<1>26. StoredAt(e, cal, s)
  BY <1>5, <1>13, <1>14, <1>16, <1>17, <1>20, <1>22, <1>24, <1>25 DEF StoredAt
<1>27. QED
  BY <1>0, <1>2, <1>5, <1>13, <1>15, <1>26

\* The calculator that is added was held nowhere.
LEMMA AddCalCounts ==
    ASSUME CountInv, WindowInv', NEW p \in Goroutines, AddCal(p)
    PROVE  Filed' /\ Apart' /\ Accounted'
<1>0. PICK i, t, cal : i = g[p].ws /\ t = g[p].token /\ cal = g[p].cal[1]
  OBVIOUS
<1> WindowInv /\ Calculators /\ Filed /\ Apart /\ Accounted
  BY DEF CountInv
<1>1. PICK w, s : cal.src = {s} /\ ListedAt(i, t, w) /\ StoredAt(<<w, cal.hash>>, cal, s)
  BY <1>0, AddCalStores
<1>2. PICK e : e = <<w, cal.hash>>
  OBVIOUS
<1>3. StoredAt(e, cal, s)
  BY <1>1, <1>2
<1>4. e[1] = w
  BY <1>2, SMT
<1>5. Emitted' = Emitted /\ added' = added \cup {cal}
  BY <1>0 DEF AddCal, Emitted
<1>6. Known(cal) /\ cal \notin added
  BY <1>0 DEF Calculators, Pending, AddCal
<1>7. /\ \A c : c \in Held <=> c \in Emitted \/ \E f \in Entries : c = Cal(f)
      /\ \A c : c \in Held' <=> c \in Emitted' \/ \E f \in Entries' : c = Cal(f)'
  BY ReadingHolds, ReadingNext DEF Reading
<1>8. \A c \in Held : s \notin c.src
  <2> SUFFICES ASSUME NEW c \in Held, s \in c.src PROVE FALSE
    OBVIOUS
  <2>1. PICK d \in added : d.src = {s}
    BY DEF Accounted
  <2>2. Known(d)
    BY DEF Calculators
  <2>3. d = cal
    BY <1>1, <1>6, <2>1, <2>2, KnownEqual
  <2>4. QED
    BY <1>6, <2>3
<1>9. /\ \A f \in Entries : s \notin Cal(f).src
      /\ \A o \in Emitted : s \notin o.src
  BY <1>7, <1>8
<1>10. Entries' = Entries \cup {e} /\ \A f \in Entries : f # e => Cal(f)' = Cal(f)
  BY <1>3 DEF StoredAt
<1>11. /\ e \in Entries => Cal(e)'.src = Cal(e).src \cup {s}
       /\ e \notin Entries => Cal(e)'.src = {s}
  BY <1>3 DEF StoredAt
<1>12. Filed'
  <2>1. ASSUME NEW f \in Entries'
        PROVE  {"hash", "nextWallTime", "state", "src"} \subseteq DOMAIN Cal(f)' /\ Cal(f)'.hash = f[2]
    <3>1. CASE f = e
      BY <1>3, <3>1 DEF StoredAt
    <3>2. CASE f # e
      BY <1>10, <3>2 DEF Filed
    <3>3. QED
      BY <3>1, <3>2
  <2>2. ASSUME NEW j \in DOMAIN ws', NEW u \in DOMAIN ws'[j].IDs, NEW f \in Entries', f[1] = ws'[j].IDs[u]
        PROVE  Exp(Cal(f)') = ws'[j].exp
    <3>1. ws[i].exp = Exp(cal) /\ ws'[i].exp = Exp(cal)
      BY <1>0, <1>1 DEF WindowInv, Found, AddCal, ListedAt
    <3>2. \A l \in DOMAIN ws : l \in DOMAIN ws' /\ ws'[l].exp = ws[l].exp
      BY <1>1 DEF ListedAt
    <3>3. CASE j = i /\ u = t
      <4>1. f[1] = w
        BY <1>1, <2>2, <3>3 DEF ListedAt
      <4>2. CASE f = e
        BY <1>3, <3>1, <3>3, <4>2 DEF StoredAt
      <4>3. CASE f # e
        <5>1. f \in Entries /\ Cal(f)' = Cal(f)
          BY <1>10, <4>3
        <5>2. i \in DOMAIN ws /\ t \in DOMAIN ws[i].IDs /\ f[1] = ws[i].IDs[t]
          <6>1. f = <<f[1], f[2]>> /\ \A x, h : <<x, h>> \in Entries => x \in Reachable
            BY <5>1, ReadingHolds DEF Reading
          <6>2. w \in Reachable
            BY <4>1, <5>1, <6>1
          <6>3. PICK k, v : k \in DOMAIN ws /\ v \in DOMAIN ws[k].IDs /\ w = ws[k].IDs[v]
            BY <1>1, <6>2, ReachableIs, SMT DEF ListedAt
          <6>4. k = i /\ v = t
            BY <1>1, <6>3 DEF ListedAt
          <6>5. QED
            BY <4>1, <6>3, <6>4
        <5>3. Exp(Cal(f)) = ws[i].exp
          BY <5>1, <5>2 DEF Filed
        <5>4. QED
          BY <3>1, <3>3, <5>1, <5>3
      <4>4. QED
        BY <4>2, <4>3
    <3>4. CASE j # i \/ u # t
      <4>1. j \in DOMAIN ws /\ u \in DOMAIN ws[j].IDs /\ ws'[j].IDs[u] = ws[j].IDs[u] /\ ws[j].IDs[u] # w
        BY <1>1, <3>4, SMT DEF ListedAt
      <4>2. f # e
        BY <1>4, <2>2, <4>1
      <4>3. f \in Entries /\ Cal(f)' = Cal(f)
        BY <1>10, <4>2
      <4>4. Exp(Cal(f)) = ws[j].exp
        BY <2>2, <4>1, <4>3 DEF Filed
      <4>5. QED
        BY <3>2, <4>1, <4>3, <4>4
    <3>5. QED
      BY <3>3, <3>4
  <2>3. QED
    BY <2>1, <2>2 DEF Filed, Exp
<1>13. Apart'
  <2>1. ASSUME NEW f \in Entries, f # e, NEW l \in Cal(e)'.src, l \in Cal(f).src
        PROVE  FALSE
    <3>1. l # s
      BY <1>9, <2>1
    <3>2. e \in Entries /\ l \in Cal(e).src
      BY <1>11, <2>1, <3>1, SMT
    <3>3. QED
      BY <2>1, <3>2 DEF Apart
  <2>2. ASSUME NEW a \in Entries', NEW b \in Entries', Cal(a)'.src \cap Cal(b)'.src # {}
        PROVE  a = b
    <3>1. PICK l : l \in Cal(a)'.src /\ l \in Cal(b)'.src
      BY <2>2
    <3>2. CASE a # e /\ b # e
      <4>1. a \in Entries /\ b \in Entries /\ Cal(a)' = Cal(a) /\ Cal(b)' = Cal(b)
        BY <1>10, <3>2
      <4>2. QED
        BY <2>2, <4>1 DEF Apart
    <3>3. CASE a = e /\ b # e
      <4>1. b \in Entries /\ Cal(b)' = Cal(b)
        BY <1>10, <3>3
      <4>2. QED
        BY <2>1, <3>1, <3>3, <4>1
    <3>4. CASE a # e /\ b = e
      <4>1. a \in Entries /\ Cal(a)' = Cal(a)
        BY <1>10, <3>4
      <4>2. QED
        BY <2>1, <3>1, <3>4, <4>1
    <3>5. QED
      BY <3>2, <3>3, <3>4
  <2>3. ASSUME NEW a \in Entries', NEW o \in Emitted', NEW l \in Cal(a)'.src, l \in o.src
        PROVE  FALSE
    <3>1. o \in Emitted /\ l # s
      BY <1>5, <1>9, <2>3
    <3>2. CASE a # e
      BY <1>10, <2>3, <3>1, <3>2 DEF Apart
    <3>3. CASE a = e
      <4>1. e \in Entries /\ l \in Cal(e).src
        BY <1>11, <2>3, <3>1, <3>3
      <4>2. QED
        BY <2>3, <3>1, <4>1 DEF Apart
    <3>4. QED
      BY <3>2, <3>3
  <2>4. \A o, q \in Emitted' : o.src \cap q.src # {} => o = q
    BY <1>5 DEF Apart
  <2>5. \A a \in Entries' : \A o \in Emitted' : Cal(a)'.src \cap o.src = {}
    BY <2>3
  <2>6. QED
    BY <2>2, <2>4, <2>5 DEF Apart
<1>14. Accounted'
  <2>1. Cal(e)' \in Held' /\ Cal(e)'.hash = cal.hash /\ Exp(Cal(e)') = Exp(cal) /\ s \in Cal(e)'.src
    BY <1>3, <1>7, <1>10, <1>11 DEF StoredAt
  <2>2. ASSUME NEW d \in added'
        PROVE  \E c \in Held' : d.src \subseteq c.src /\ c.hash = d.hash /\ Exp(c) = Exp(d)
    <3>1. CASE d = cal
      BY <1>1, <2>1, <3>1
    <3>2. CASE d # cal
      <4>1. PICK c \in Held : d.src \subseteq c.src /\ c.hash = d.hash /\ Exp(c) = Exp(d)
        BY <1>5, <3>2 DEF Accounted
      <4>2. CASE c \in Emitted
        BY <1>5, <1>7, <4>1, <4>2
      <4>3. CASE \E f \in Entries : c = Cal(f)
        <5>1. PICK f \in Entries : c = Cal(f)
          BY <4>3
        <5>2. CASE f # e
          <6>1. Cal(f)' = c /\ f \in Entries'
            BY <1>10, <5>1, <5>2
          <6>2. c \in Held'
            BY <1>7, <6>1
          <6>3. QED
            BY <4>1, <6>2
        <5>3. CASE f = e
          <6>1. c.src \subseteq Cal(e)'.src /\ Exp(c) = Exp(cal) /\ c.hash = cal.hash
            BY <1>3, <5>1, <5>3 DEF StoredAt, Filed
          <6>2. QED
            BY <2>1, <4>1, <6>1
        <5>4. QED
          BY <5>2, <5>3
      <4>4. QED
        BY <1>7, <4>2, <4>3
    <3>3. QED
      BY <3>1, <3>2
  <2>3. ASSUME NEW c \in Held', NEW l \in c.src
        PROVE  \E d \in added' : d.src = {l}
    <3>1. CASE l = s
      BY <1>1, <1>5, <3>1
    <3>2. CASE l # s
      <4>1. \E b \in Held : l \in b.src
        <5>1. CASE c \in Emitted'
          BY <1>5, <1>7, <5>1
        <5>2. CASE \E f \in Entries' : c = Cal(f)'
          <6>1. PICK f \in Entries' : c = Cal(f)'
            BY <5>2
          <6>2. f \in Entries /\ l \in Cal(f).src
            BY <1>10, <1>11, <2>3, <3>2, <6>1, SMT
          <6>3. QED
            BY <1>7, <6>2
        <5>3. QED
          BY <1>7, <5>1, <5>2
      <4>2. QED
        BY <1>5, <4>1 DEF Accounted
    <3>3. QED
      BY <3>1, <3>2
  <2>4. QED
    BY <2>2, <2>3 DEF Accounted, Exp
<1>15. QED
  BY <1>12, <1>13, <1>14

\* The calculators of a window that is aggregated leave the cache as results.
LEMMA WindowsToDataCounts ==
    ASSUME CountInv, WindowInv', NEW w, WindowsToData(w)
    PROVE  Filed' /\ Apart' /\ Accounted'
<1> WindowInv /\ Filed /\ Apart /\ Accounted
  BY DEF CountInv
<1>1. /\ w \in due /\ win' = [win EXCEPT ![w] = Reset(@)] /\ due' = due \ {w}
      /\ ws' = ws /\ added' = added
      /\ out' = out \cup {[Token |-> win[w].Token, cal |-> c, pts |-> Result(c)] : c \in Range(win[w].cache)}
  BY DEF WindowsToData
<1>2. Reachable' = Reachable \ {w} /\ w \in Reachable
  <2>1. \A x : x \in Reachable <=> \/ x \in due
                                   \/ \E i \in DOMAIN ws : \E t \in DOMAIN ws[i].IDs : x = ws[i].IDs[t]
    BY ReachableIs
  <2>2. \A x : x \in Reachable' <=> \/ x \in due'
                                    \/ \E i \in DOMAIN ws : \E t \in DOMAIN ws[i].IDs : x = ws[i].IDs[t]
    BY <1>1, ReadingNext, SMT DEF Reading
  <2>3. ~ \E i \in DOMAIN ws : \E t \in DOMAIN ws[i].IDs : w = ws[i].IDs[t]
    BY <1>1, SMT DEF WindowInv, Listed
  <2>4. QED
    BY <1>1, <2>1, <2>2, <2>3
<1>3. /\ \A x, h : <<x, h>> \in Entries <=> x \in Reachable /\ h \in DOMAIN win[x].cache
      /\ \A x, h : Cal(<<x, h>>) = win[x].cache[h]
      /\ \A e \in Entries : e = <<e[1], e[2]>>
      /\ \A c : c \in Held <=> c \in Emitted \/ \E e \in Entries : c = Cal(e)
  BY ReadingHolds DEF Reading
<1>4. /\ \A x, h : <<x, h>> \in Entries' <=> x \in Reachable' /\ h \in DOMAIN win'[x].cache
      /\ \A x, h : Cal(<<x, h>>)' = win'[x].cache[h]
      /\ \A e \in Entries' : e = <<e[1], e[2]>>
      /\ \A c : c \in Held' <=> c \in Emitted' \/ \E e \in Entries' : c = Cal(e)'
  BY ReadingNext DEF Reading
<1>5. \A x \in Reachable : x \in DOMAIN win /\ (x # w => win'[x] = win[x])
  <2>1. \A x \in Reachable : x \in DOMAIN win
    BY ReachableIs, SMT DEF WindowInv, Listed, Unlisted
  <2>2. QED
    BY <1>1, <2>1
<1>6. ASSUME NEW e \in Entries'
      PROVE  e \in Entries /\ e[1] # w /\ Cal(e)' = Cal(e)
  <2>1. PICK x, h : x = e[1] /\ h = e[2] /\ e = <<x, h>>
    BY <1>4, SMT
  <2>2. x \in Reachable /\ x # w /\ h \in DOMAIN win'[x].cache /\ win'[x] = win[x]
    BY <1>2, <1>4, <1>5, <2>1
  <2>3. QED
    BY <1>3, <1>4, <2>1, <2>2, SMT
<1>7. ASSUME NEW e \in Entries, e[1] # w
      PROVE  e \in Entries'
  <2>1. PICK x, h : x = e[1] /\ h = e[2] /\ e = <<x, h>>
    BY <1>3, SMT
  <2>2. x \in Reachable /\ x # w /\ h \in DOMAIN win[x].cache
    BY <1>3, <1>7, <2>1
  <2>3. QED
    BY <1>2, <1>4, <1>5, <2>1, <2>2, SMT
<1>8. \A c : c \in Emitted' <=> c \in Emitted \/ \E e \in Entries : e[1] = w /\ c = Cal(e)
  <2> SUFFICES ASSUME NEW c
               PROVE  c \in Emitted' <=> c \in Emitted \/ \E e \in Entries : e[1] = w /\ c = Cal(e)
    OBVIOUS
  <2>1. c \in Emitted' <=> c \in Emitted \/ \E h \in DOMAIN win[w].cache : c = win[w].cache[h]
    <3> DEFINE rec(b) == [Token |-> win[w].Token, cal |-> b, pts |-> Result(b)]
    <3>1. \A b : rec(b).cal = b
      OBVIOUS
    <3>2. \A o : o \in out' <=> o \in out \/ \E b \in Range(win[w].cache) : o = rec(b)
      BY <1>1
    <3> HIDE DEF rec
    <3>3. /\ c \in Emitted <=> \E o \in out : c = o.cal
          /\ c \in Emitted' <=> \E o \in out' : c = o.cal
      BY DEF Emitted
    <3>4. c \in Emitted' <=> c \in Emitted \/ c \in Range(win[w].cache)
      BY <3>1, <3>2, <3>3, SMT
    <3>5. QED
      BY <3>4 DEF Range
  <2>2. ASSUME NEW h \in DOMAIN win[w].cache, c = win[w].cache[h]
        PROVE  \E e \in Entries : e[1] = w /\ c = Cal(e)
    <3>1. <<w, h>> \in Entries /\ Cal(<<w, h>>) = c
      BY <1>2, <1>3, <2>2
    <3>2. <<w, h>>[1] = w
      BY SMT
    <3>3. QED
      BY <3>1, <3>2
  <2>3. ASSUME NEW e \in Entries, e[1] = w, c = Cal(e)
        PROVE  \E h \in DOMAIN win[w].cache : c = win[w].cache[h]
    <3>1. PICK h : e = <<w, h>>
      BY <1>3, <2>3
    <3>2. QED
      BY <1>3, <2>3, <3>1, SMT
  <2>4. QED
    BY <2>1, <2>2, <2>3
<1>9. \A c : c \in Held' <=> c \in Held
  BY <1>3, <1>4, <1>6, <1>7, <1>8, SMT
<1>10. Filed'
  <2>1. \A e \in Entries' : {"hash", "nextWallTime", "state", "src"} \subseteq DOMAIN Cal(e)' /\ Cal(e)'.hash = e[2]
    BY <1>6 DEF Filed
  <2>2. ASSUME NEW i \in DOMAIN ws', NEW t \in DOMAIN ws'[i].IDs, NEW e \in Entries', e[1] = ws'[i].IDs[t]
        PROVE  Exp(Cal(e)') = ws'[i].exp
    <3>1. Exp(Cal(e)) = ws[i].exp
      BY <1>1, <1>6, <2>2 DEF Filed
    <3>2. QED
      BY <1>1, <1>6, <3>1
  <2>3. QED
    BY <2>1, <2>2 DEF Filed, Exp
<1>11. Apart'
  <2>1. \A e, f \in Entries' : Cal(e)'.src \cap Cal(f)'.src # {} => e = f
    BY <1>6 DEF Apart
  <2>2. ASSUME NEW e \in Entries', NEW o \in Emitted'
        PROVE  Cal(e)'.src \cap o.src = {}
    <3>1. CASE o \in Emitted
      BY <1>6, <3>1 DEF Apart
    <3>2. CASE \E f \in Entries : f[1] = w /\ o = Cal(f)
      <4>1. PICK f \in Entries : f[1] = w /\ o = Cal(f)
        BY <3>2
      <4>2. e # f /\ e \in Entries /\ Cal(e)' = Cal(e)
        BY <1>6, <4>1
      <4>3. QED
        BY <4>1, <4>2 DEF Apart
    <3>3. QED
      BY <1>8, <3>1, <3>2
  <2>3. ASSUME NEW o \in Emitted', NEW q \in Emitted', o.src \cap q.src # {}
        PROVE  o = q
    <3>1. CASE o \in Emitted /\ q \in Emitted
      BY <2>3, <3>1 DEF Apart
    <3>2. CASE o \in Emitted /\ \E f \in Entries : q = Cal(f)
      BY <2>3, <3>2 DEF Apart
    <3>3. CASE q \in Emitted /\ \E f \in Entries : o = Cal(f)
      BY <2>3, <3>3 DEF Apart
    <3>4. CASE (\E f \in Entries : o = Cal(f)) /\ \E f \in Entries : q = Cal(f)
      <4>1. PICK a, b : a \in Entries /\ b \in Entries /\ o = Cal(a) /\ q = Cal(b)
        BY <3>4
      <4>2. a = b
        BY <2>3, <4>1 DEF Apart
      <4>3. QED
        BY <4>1, <4>2
    <3>5. QED
      BY <1>8, <3>1, <3>2, <3>3, <3>4
  <2>4. QED
    BY <2>1, <2>2, <2>3 DEF Apart
<1>12. Accounted'
  BY <1>1, <1>9 DEF Accounted, Exp
<1>13. QED
  BY <1>10, <1>11, <1>12

\* The calculators of a batch were not known before.
LEMMA AddBatchKnows ==
    ASSUME CountInv, NEW p \in Goroutines, NEW id \in Batches, AddBatch(p, id)
    PROVE  Calculators'
<1> WindowInv /\ Calculators
  BY DEF CountInv
<1>1. /\ id \notin sent /\ sent' = sent \cup {id} /\ ac' = ac /\ added' = added /\ expN' = expN
      /\ Start(p, id, NewCals(ac, id))
  BY DEF AddBatch
<1>2. /\ \A q \in Goroutines : q # p => g'[q] = g[q]
      /\ g'[p].pc # "found" /\ g'[p].cals = NewCals(ac, id)
  BY <1>1, StartIs DEF WindowInv
<1>3. Pending(p)' = NewCals(ac, id) /\ \A q \in Goroutines : q # p => Pending(q)' = Pending(q)
  BY <1>2 DEF Pending
<1>4. \A c : Known(c) => Known(c)'
  BY <1>1 DEF Known
<1>5. ASSUME NEW c \in NewCals(ac, id)
      PROVE  Known(c)' /\ ~ Known(c)
  <2>1. Known(c)'
    BY <1>1 DEF Known
  <2>2. ASSUME NEW j \in sent, c \in NewCals(ac, j)
        PROVE  FALSE
    <3>1. PICK k \in Cases : ac = k.ac
      BY DEF Calculators
    <3>2. j \in Batches /\ c \in NewCals(k.ac, id) /\ c \in NewCals(k.ac, j)
      BY <2>2, <3>1 DEF Calculators
    <3>3. \E s \in c.src : c.src = {s} /\ s[1] = id
      BY <3>1, <3>2, NewCalsAssumption
    <3>4. \E u \in c.src : c.src = {u} /\ u[1] = j
      BY <3>1, <3>2, NewCalsAssumption
    <3>5. PICK s, u : c.src = {s} /\ s[1] = id /\ c.src = {u} /\ u[1] = j
      BY <3>3, <3>4
    <3>6. s = u
      BY <3>5
    <3>7. QED
      BY <1>1, <2>2, <3>5, <3>6
  <2>3. QED
    BY <2>1, <2>2 DEF Known
<1>6. \A q \in Goroutines : \A c \in Pending(q) : Known(c) /\ c \notin added \cup expN
  BY DEF Calculators
<1>7. \A c \in added \cup expN : Known(c)
  BY DEF Calculators
<1>8. (\E c \in Cases : ac' = c.ac) /\ sent' \subseteq Batches
  BY <1>1 DEF Calculators
<1>9. ASSUME NEW q \in Goroutines, NEW c \in Pending(q)'
      PROVE  Known(c)' /\ c \notin added' \cup expN'
  BY <1>1, <1>3, <1>4, <1>5, <1>6, <1>7
<1>10. (\A c \in added' \cup expN' : Known(c)') /\ added' \cap expN' = {}
  BY <1>1, <1>4, <1>7 DEF Calculators
<1>11. ASSUME NEW q \in Goroutines, NEW r \in Goroutines, q # r
       PROVE  Pending(q)' \cap Pending(r)' = {}
  <2>1. CASE q # p /\ r # p
    BY <1>3, <1>11, <2>1 DEF Calculators
  <2>2. CASE q = p \/ r = p
    BY <1>3, <1>5, <1>6, <1>11, <2>2
  <2>3. QED
    BY <2>1, <2>2
<1>12. \A q \in Goroutines : g'[q].pc = "found" => g'[q].cal[1] \notin g'[q].cals
  BY <1>2 DEF Calculators
<1>13. QED
  BY <1>8, <1>9, <1>10, <1>11, <1>12 DEF Calculators

\* The windows that are taken were reachable, and still are.
LEMMA GetExpWidowsReaches ==
    ASSUME WindowInv, WindowInv', GetExpWidows
    PROVE  /\ Reachable' = Reachable
           /\ \A i \in DOMAIN ws' : \A t \in DOMAIN ws'[i].IDs :
                /\ i \in DOMAIN ws /\ t \in DOMAIN ws[i].IDs
                /\ ws[i].IDs[t] = ws'[i].IDs[t] /\ ws[i].exp = ws'[i].exp
<1>1. PICK ids : Taken(ids)
  BY GetExpWidowsIs
<1>2. due = {}
  BY DEF GetExpWidows
<1>3. \A x : x \in Reachable <=> \/ x \in due
                                 \/ \E i \in DOMAIN ws : \E t \in DOMAIN ws[i].IDs : x = ws[i].IDs[t]
  BY ReachableIs
<1>4. \A x : x \in Reachable' <=> \/ x \in due'
                                  \/ \E i \in DOMAIN ws' : \E t \in DOMAIN ws'[i].IDs : x = ws'[i].IDs[t]
  BY ReadingNext DEF Reading
<1>5. ASSUME NEW i \in DOMAIN ws', NEW t \in DOMAIN ws'[i].IDs
      PROVE  i \in DOMAIN ws /\ i \notin ids /\ ws'[i] = ws[i]
  BY <1>1 DEF Taken
<1>6. /\ ids \subseteq DOMAIN ws /\ DOMAIN ws' = DOMAIN ws
      /\ \A i \in DOMAIN ws : i \notin ids => ws'[i] = ws[i]
      /\ \A x : x \in due' <=> \E i \in ids : \E u \in DOMAIN ws[i].IDs : x = ws[i].IDs[u]
  BY <1>1 DEF Taken
<1>7. ASSUME NEW x \in Reachable'
      PROVE  x \in Reachable
  BY <1>3, <1>4, <1>5, <1>6, SMT
<1>8. ASSUME NEW x \in Reachable
      PROVE  x \in Reachable'
  <2>1. PICK i, t : i \in DOMAIN ws /\ t \in DOMAIN ws[i].IDs /\ x = ws[i].IDs[t]
    BY <1>2, <1>3
  <2>2. CASE i \in ids
    BY <1>4, <1>6, <2>1, <2>2
  <2>3. CASE i \notin ids
    BY <1>4, <1>6, <2>1, <2>3
  <2>4. QED
    BY <2>2, <2>3
<1>9. QED
  BY <1>5, <1>7, <1>8

\* New Windows list no window.
LEMMA FindReaches ==
    ASSUME WindowInv, WindowInv', NEW p \in Goroutines, NEW cal, Find(p, cal)
    PROVE  /\ Reachable' = Reachable
           /\ \A i \in DOMAIN ws' : \A t \in DOMAIN ws'[i].IDs :
                /\ i \in DOMAIN ws /\ t \in DOMAIN ws[i].IDs
                /\ ws[i].IDs[t] = ws'[i].IDs[t] /\ ws[i].exp = ws'[i].exp
<1>1. due' = due
  BY DEF Find
<1>2. /\ \A i \in DOMAIN ws : i \in DOMAIN ws' /\ ws'[i] = ws[i]
      /\ \A i \in DOMAIN ws' : \A t \in DOMAIN ws'[i].IDs : i \in DOMAIN ws
  <2>1. CASE ws' = ws
    BY <2>1
  <2>2. CASE \E exp : ws' = Append(ws, [exp |-> exp, closed |-> FALSE, IDs |-> Empty])
    <3>1. PICK exp : ws' = Append(ws, [exp |-> exp, closed |-> FALSE, IDs |-> Empty])
      BY <2>2
    <3>2. PICK new : new = [exp |-> exp, closed |-> FALSE, IDs |-> Empty]
      OBVIOUS
    <3>3. DOMAIN new.IDs = {} /\ ws' = Append(ws, new)
      BY <3>1, <3>2 DEF Empty
    <3>4. IsSeq(ws)
      BY DEF WindowInv, Shape
    <3>5. /\ DOMAIN ws' = DOMAIN ws \cup {Len(ws) + 1} /\ ws'[Len(ws) + 1] = new
          /\ \A i \in DOMAIN ws : ws'[i] = ws[i]
      BY <3>3, <3>4, SeqAppend, SMT
    <3>6. QED
      BY <3>3, <3>5
  <2>3. QED
    BY <2>1, <2>2 DEF Find
<1>3. \A x : x \in Reachable <=> \/ x \in due
                                 \/ \E i \in DOMAIN ws : \E t \in DOMAIN ws[i].IDs : x = ws[i].IDs[t]
  BY ReachableIs
<1>4. \A x : x \in Reachable' <=> \/ x \in due'
                                  \/ \E i \in DOMAIN ws' : \E t \in DOMAIN ws'[i].IDs : x = ws'[i].IDs[t]
  BY ReadingNext DEF Reading
<1>5. \A x : x \in Reachable' <=> x \in Reachable
  BY <1>1, <1>2, <1>3, <1>4, SMT
<1>6. QED
  BY <1>2, <1>5

LEMMA CountInvInit == Init => CountInv
<1> SUFFICES ASSUME Init PROVE CountInv
  OBVIOUS
<1>1. WindowInv
  BY WindowInvInit
<1>2. /\ \E c \in Cases : ac = c.ac /\ sent = Batches \ c.ids
      /\ g = [p \in Goroutines |-> Idle] /\ ws = <<>> /\ due = {} /\ added = {} /\ expN = {} /\ out = {}
  BY DEF Init
<1>3. \A p \in Goroutines : g[p].pc # "found" /\ Pending(p) = {}
  BY <1>2 DEF Pending, Idle
<1>4. Calculators
  BY <1>2, <1>3 DEF Calculators
<1>5. DOMAIN ws = {}
  BY <1>2, SMT
<1>6. \A x : x \notin Reachable
  BY <1>1, <1>2, <1>5, ReachableIs
<1>7. (\A e : e \notin Entries) /\ (\A c : c \notin Emitted) /\ \A c : c \notin Held
  <2>1. \A e : e \notin Entries
    BY <1>6, EntriesAre
  <2>2. \A c : c \notin Emitted
    BY <1>2 DEF Emitted
  <2>3. QED
    BY <2>1, <2>2, HeldIs
<1>8. Filed /\ Apart /\ Accounted
  BY <1>2, <1>7 DEF Filed, Apart, Accounted
<1>9. QED
  BY <1>1, <1>4, <1>8 DEF CountInv

\* What is left of p's calculators is what is not counted now.
LEMMA GoOnMoves ==
    ASSUME CountInv, NEW p \in Goroutines, NEW cal, NEW cals, GoOn(p, cals),
           Pending(p) = (cals \ {cal}) \cup {cal}, ac' = ac, sent' = sent,
           \/ added' = added \cup {cal} /\ expN' = expN /\ cal \notin cals
           \/ added' = added /\ expN' = expN \cup {cal} /\ cal \notin cals
           \/ added' = added /\ expN' = expN
    PROVE  Calculators'
<1> Shape /\ Calculators
  BY DEF CountInv, WindowInv
<1>1. (\A q \in Goroutines : q # p => g'[q] = g[q]) /\ g'[p].pc # "found" /\ g'[p].cals = cals
  BY GoOnIs
<1>2. Pending(p)' = cals /\ cals \subseteq Pending(p) /\ cal \in Pending(p)
  BY <1>1 DEF Pending
<1>3. CASE added' = added \cup {cal} /\ expN' = expN /\ cal \notin cals
  <2>1. expN' = expN \cup {} /\ {cal} \subseteq Pending(p) /\ {} \subseteq Pending(p) /\ {cal} \cap {} = {}
        /\ Pending(p)' \cap ({cal} \cup {}) = {}
    BY <1>2, <1>3
  <2>2. QED
    BY <1>1, <1>2, <1>3, <2>1, CalculatorsMoved
<1>4. CASE added' = added /\ expN' = expN \cup {cal} /\ cal \notin cals
  <2>1. added' = added \cup {} /\ {cal} \subseteq Pending(p) /\ {} \subseteq Pending(p) /\ {} \cap {cal} = {}
        /\ Pending(p)' \cap ({} \cup {cal}) = {}
    BY <1>2, <1>4
  <2>2. QED
    BY <1>1, <1>2, <1>4, <2>1, CalculatorsMoved
<1>5. CASE added' = added /\ expN' = expN
  <2>1. added' = added \cup {} /\ expN' = expN \cup {} /\ {} \subseteq Pending(p) /\ {} \cap {} = {}
        /\ Pending(p)' \cap ({} \cup {}) = {}
    BY <1>5
  <2>2. QED
    BY <1>1, <1>2, <2>1, CalculatorsMoved
<1>6. QED
  BY <1>3, <1>4, <1>5

\* A step that neither changes the cache nor adds a calculator.
LEMMA CacheKept ==
    ASSUME CountInv, UNCHANGED <<ws, buckets, win, idle, due, added, out>>
    PROVE  Filed' /\ Apart' /\ Accounted'
<1>1. Reachable' = Reachable
  BY DEF Reachable
<1>2. QED
  BY <1>1, StorageKept DEF CountInv

\* Every step keeps the account.
LEMMA CountInvStep == CountInv /\ [Next]_vars => CountInv'
<1> SUFFICES ASSUME CountInv, [Next]_vars PROVE CountInv'
  OBVIOUS
<1> WindowInv /\ Calculators /\ Filed /\ Apart /\ Accounted
  BY DEF CountInv
<1>0. WindowInv'
  BY WindowInvStep
<1>1. ASSUME NEW p \in Goroutines, NEW id \in Batches, AddBatch(p, id)
      PROVE  CountInv'
  <2>1. UNCHANGED <<ws, buckets, win, idle, due, added, out>>
    BY <1>1 DEF AddBatch, cacheVars
  <2>2. QED
    BY <1>0, <1>1, <2>1, AddBatchKnows, CacheKept DEF CountInv
<1>2. ASSUME NEW p \in Goroutines, NEW cal \in g[p].cals, Late(p, cal)
      PROVE  CountInv'
  <2>1. /\ GoOn(p, g[p].cals \ {cal}) /\ g[p].pc = "add" /\ ac' = ac /\ sent' = sent
        /\ added' = added /\ expN' = expN \cup {cal} /\ UNCHANGED <<ws, buckets, win, idle, due, added, out>>
    BY <1>2 DEF Late, cacheVars
  <2>2. Pending(p) = ((g[p].cals \ {cal}) \ {cal}) \cup {cal} /\ cal \notin g[p].cals \ {cal}
    BY <2>1 DEF Pending
  <2>3. Calculators'
    BY <2>1, <2>2, GoOnMoves
  <2>4. QED
    BY <1>0, <2>1, <2>3, CacheKept DEF CountInv
<1>3. ASSUME NEW p \in Goroutines, NEW cal \in g[p].cals, Find(p, cal)
      PROVE  CountInv'
  <2>1. /\ win' = win /\ out' = out /\ added' = added /\ expN' = expN /\ ac' = ac /\ sent' = sent
        /\ g[p].pc = "add" /\ \E id : FoundFor(p, cal, id)
    BY <1>3 DEF Find, FoundFor
  <2>2. Filed' /\ Apart' /\ Accounted'
    BY <1>0, <1>3, <2>1, FindReaches, StorageKept
  <2>3. /\ \A q \in Goroutines : q # p => g'[q] = g[q]
        /\ g'[p].pc = "found" /\ g'[p].cals = g[p].cals \ {cal} /\ g'[p].cal[1] = cal
    BY <2>1, FoundIs DEF WindowInv
  <2>4. Pending(p) = g[p].cals /\ Pending(p)' = g[p].cals /\ g'[p].cal[1] \notin g'[p].cals
    BY <2>1, <2>3 DEF Pending
  <2>5. added' = added \cup {} /\ expN' = expN \cup {} /\ {} \subseteq Pending(p) /\ {} \cap {} = {}
        /\ Pending(p)' \subseteq Pending(p) /\ Pending(p)' \cap ({} \cup {}) = {}
    BY <2>1, <2>4
  <2>6. Calculators'
    BY <2>1, <2>3, <2>4, <2>5, CalculatorsMoved
  <2>7. QED
    BY <1>0, <2>2, <2>6 DEF CountInv
<1>4. ASSUME NEW p \in Goroutines, AddCal(p)
      PROVE  CountInv'
  <2>1. PICK cal, cals : cal = g[p].cal[1] /\ cals = g[p].cals
    OBVIOUS
  <2>2. /\ GoOn(p, cals) /\ g[p].pc = "found" /\ ac' = ac /\ sent' = sent
        /\ added' = added \cup {cal} /\ expN' = expN
    BY <1>4, <2>1 DEF AddCal
  <2>3. Pending(p) = (cals \ {cal}) \cup {cal} /\ cal \notin cals
    BY <2>1, <2>2 DEF Pending, Calculators
  <2>4. Calculators'
    BY <2>2, <2>3, GoOnMoves
  <2>5. QED
    BY <1>0, <1>4, <2>4, AddCalCounts DEF CountInv
<1>5. ASSUME NEW p \in Goroutines, Closed(p)
      PROVE  CountInv'
  <2>1. PICK cal, cals : cal = g[p].cal[1] /\ cals = g[p].cals
    OBVIOUS
  <2>2. /\ g[p].pc = "found" /\ ac' = ac /\ sent' = sent
        /\ added' = added /\ UNCHANGED <<ws, buckets, win, idle, due, added, out>>
        /\ \/ expN' = expN \cup {cal} /\ GoOn(p, cals)
           \/ GoOn(p, cals \cup {cal}) /\ expN' = expN
    BY <1>5, <2>1 DEF Closed, cacheVars
  <2>3. /\ Pending(p) = (cals \ {cal}) \cup {cal} /\ cal \notin cals
        /\ Pending(p) = ((cals \cup {cal}) \ {cal}) \cup {cal}
    BY <2>1, <2>2 DEF Pending, Calculators
  <2>4. ASSUME expN' = expN \cup {cal} /\ GoOn(p, cals)
        PROVE  Calculators'
    BY <2>2, <2>3, <2>4, GoOnMoves
  <2>5. ASSUME GoOn(p, cals \cup {cal}) /\ expN' = expN
        PROVE  Calculators'
    BY <2>2, <2>3, <2>5, GoOnMoves
  <2>6. Filed' /\ Apart' /\ Accounted'
    BY <2>2, CacheKept
  <2>7. Calculators'
    BY <2>2, <2>4, <2>5
  <2>8. QED
    BY <1>0, <2>6, <2>7 DEF CountInv
<1>6. ASSUME UNCHANGED <<ac, sent, g, added, expN>>
      PROVE  Calculators'
  <2>1. (\A p : Pending(p)' = Pending(p)) /\ \A c : Known(c)' <=> Known(c)
    BY <1>6 DEF Pending, Known
  <2>2. QED
    BY <1>6, <2>1 DEF Calculators
<1>7. CASE GetExpWidows
  <2>1. UNCHANGED <<ac, sent, g, win, out, added, expN>>
    BY <1>7 DEF GetExpWidows
  <2>2. Filed' /\ Apart' /\ Accounted'
    BY <1>0, <1>7, <2>1, GetExpWidowsReaches, StorageKept
  <2>3. QED
    BY <1>0, <1>6, <2>1, <2>2 DEF CountInv
<1>8. ASSUME NEW w \in due, WindowsToData(w)
      PROVE  CountInv'
  <2>1. UNCHANGED <<ac, sent, g, added, expN>>
    BY <1>8 DEF WindowsToData
  <2>2. QED
    BY <1>0, <1>6, <1>8, <2>1, WindowsToDataCounts DEF CountInv
<1>9. CASE Tick \/ SetBack \/ UNCHANGED vars
  <2>1. UNCHANGED <<ac, sent, g, added, expN>> /\ UNCHANGED <<ws, buckets, win, idle, due, added, out>>
    BY <1>9 DEF Tick, SetBack, vars, cacheVars
  <2>2. QED
    BY <1>0, <1>6, <2>1, CacheKept DEF CountInv
<1>10. QED
  BY <1>1, <1>2, <1>3, <1>4, <1>5, <1>7, <1>8, <1>9 DEF Next

\* A calculator that AddBatch counted as added is in one window that will be
\* aggregated or in one result, whatever goroutine adds, closes or takes the
\* Windows meanwhile; one that it counted as expired is in none.
THEOREM CalculatorsCountedOnce == Spec => []CountedOnce
<1>1. CountInv => CountedOnce
  <2> SUFFICES ASSUME CountInv PROVE CountedOnce
    OBVIOUS
  <2> Calculators /\ Apart /\ Accounted
    BY DEF CountInv
  <2>1. ASSUME NEW b \in Held, NEW c \in Held, NEW l \in b.src, l \in c.src
        PROVE  b = c
    <3>1. /\ b \in Emitted \/ \E e \in Entries : b = Cal(e)
          /\ c \in Emitted \/ \E e \in Entries : c = Cal(e)
      BY HeldIs
    <3>2. b.src \cap c.src # {} /\ c.src \cap b.src # {}
      BY <2>1
    <3>3. QED
      BY <3>1, <3>2 DEF Apart
  <2>2. ASSUME NEW d \in added
        PROVE  \E c \in Held : {b \in Held : (b.hash = d.hash /\ d.src \subseteq b.src) /\ Exp(b) = Exp(d)} = {c}
    <3>1. PICK c \in Held : d.src \subseteq c.src /\ c.hash = d.hash /\ Exp(c) = Exp(d)
      BY DEF Accounted
    <3>2. PICK l : d.src = {l}
      BY KnownIs DEF Calculators
    <3>3. {b \in Held : (b.hash = d.hash /\ d.src \subseteq b.src) /\ Exp(b) = Exp(d)} = {c}
      BY <2>1, <3>1, <3>2
    <3>4. QED
      BY <3>3
  <2>3. ASSUME NEW d \in expN, NEW c \in Held, d.src \subseteq c.src
        PROVE  FALSE
    <3>1. Known(d)
      BY DEF Calculators
    <3>2. PICK l : d.src = {l}
      BY <3>1, KnownIs
    <3>3. PICK b \in added : b.src = {l}
      BY <2>3, <3>2 DEF Accounted
    <3>4. Known(b)
      BY DEF Calculators
    <3>5. b = d
      BY <3>1, <3>2, <3>3, <3>4, KnownEqual
    <3>6. QED
      BY <3>3, <3>5 DEF Calculators
  <2>4. added \cap expN = {}
    BY DEF Calculators
  <2>5. QED
    BY <2>2, <2>3, <2>4 DEF CountedOnce
<1>2. QED
  BY <1>1, CountInvInit, CountInvStep, PTL DEF Spec

=============================================================================
