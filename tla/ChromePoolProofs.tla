-------------------------- MODULE ChromePoolProofs --------------------------
(***************************************************************************)
(* For every set of workers and clients: a worker of the Chrome pool runs  *)
(* one task at a time, no worker is lost while the pool is open, and       *)
(* giving one back never waits for room in the channel.                    *)
(***************************************************************************)
EXTENDS ChromePool, FiniteSetTheorems, TLAPS

\* A leaf is first-order reasoning unless it names another prover.
USE Zenon

\* What circulates was listed in p.all: a worker NewPool starts is new to the
\* channel and to the clients.
Listed ==
    /\ \A i \in 1..Len(workers) : workers[i] \in all
    /\ \A c \in Clients : Owns(c) => worker[c] \in all

\* releaseOnce has fired exactly between the two releases of a failed start.
Once == \A c \in Clients : released[c] <=> pc[c] = "again"

PoolInv == TypeOK /\ Listed /\ Once /\ OneTaskAtATime /\ NoWorkerLost

-----------------------------------------------------------------------------
\* The channel after a send.
LEMMA SendToChannel ==
    ASSUME NEW s \in Seq(Workers), NEW w \in Workers
    PROVE  /\ Append(s, w) \in Seq(Workers)
           /\ Len(Append(s, w)) = Len(s) + 1
           /\ Append(s, w)[Len(s) + 1] = w
           /\ \A i \in 1..Len(s) : Append(s, w)[i] = s[i]
  BY SMT

\* The channel after a receive.
LEMMA ReceiveFromChannel ==
    ASSUME NEW s \in Seq(Workers), s # <<>>
    PROVE  /\ Head(s) \in Workers
           /\ Head(s) = s[1]
           /\ Tail(s) \in Seq(Workers)
           /\ Len(s) \in Nat \ {0}
           /\ Len(Tail(s)) = Len(s) - 1
           /\ \A i \in 1..Len(s) - 1 : Tail(s)[i] = s[i + 1]
  BY SMT

\* The pool is empty when NewPool begins.
LEMMA PoolInit == Init => PoolInv
<1> SUFFICES ASSUME Init PROVE PoolInv
  OBVIOUS
<1>1. TypeOK
  <2>1. ctxDone \in [Clients -> BOOLEAN] /\ released \in [Clients -> BOOLEAN]
    BY Zenon DEF Init
  <2>2. workers \in Seq(Workers)
    BY SMT DEF Init
  <2> QED
    BY <2>1, <2>2 DEF Init, TypeOK, InFactory
<1>2. Len(workers) = 0 /\ \A c \in Clients : ~Owns(c)
  BY DEF Init, Owns
<1>3. QED
  BY SMT, <1>1, <1>2 DEF Init, PoolInv, Listed, Once, OneTaskAtATime, NoWorkerLost

\* A step of NewPool, Close or the owner.
LEMMA OwnerStep ==
    ASSUME PoolInv,
           \/ \E w \in Workers : NewWorker(w) \/ CancelWorker(w)
           \/ NewPoolFails \/ Close \/ ParentDone
    PROVE  PoolInv'
<1> USE DEF PoolInv
<1>1. ASSUME NEW w \in Workers, NewWorker(w) PROVE PoolInv'
  <2> USE <1>1
  <2>1. /\ workers' = Append(workers, w) /\ all' = all \cup {w} /\ w \notin all
        /\ pc' = pc /\ worker' = worker /\ released' = released
        /\ closed' = closed /\ parentDone' = parentDone
    BY DEF NewWorker
  <2>2. /\ workers' \in Seq(Workers) /\ Len(workers') = Len(workers) + 1 /\ Len(workers) \in Nat
        /\ workers'[Len(workers) + 1] = w
        /\ \A i \in 1..Len(workers) : workers'[i] = workers[i]
    BY SMT, <2>1, SendToChannel DEF TypeOK
  <2>3. TypeOK'
    BY <2>1, <2>2 DEF NewWorker, TypeOK
  <2>4. \A c \in Clients : Owns(c)' <=> Owns(c)
    BY <2>1 DEF Owns
  <2>5. Listed'
    BY SMT, <2>1, <2>2, <2>4 DEF Listed
  <2>6. OneTaskAtATime'
    BY SMT, <2>1, <2>2, <2>4 DEF OneTaskAtATime, Listed, InChannel
  <2>7. \A v \in Workers : InChannel(v)' <=> InChannel(v) \/ v = w
    BY SMT, <2>1, <2>2 DEF InChannel
  <2>8. NoWorkerLost'
    BY <2>1, <2>4, <2>7 DEF NoWorkerLost, TypeOK
  <2>9. Once'
    BY <2>1 DEF Once
  <2> QED
    BY <2>3, <2>5, <2>6, <2>8, <2>9
<1>2. ASSUME \/ \E w \in Workers : CancelWorker(w)
             \/ NewPoolFails \/ Close \/ ParentDone
      PROVE  PoolInv'
  <2>1. /\ workers' = workers /\ all' = all /\ pc' = pc /\ worker' = worker
        /\ released' = released
        /\ closed => closed'
        /\ parentDone => parentDone'
    BY SMT, <1>2 DEF CancelWorker, NewPoolFails, Close, ParentDone
  <2>2. TypeOK'
    BY <1>2 DEF CancelWorker, NewPoolFails, Close, ParentDone, TypeOK
  <2> QED
    BY SMT, <2>1, <2>2 DEF Listed, Once, OneTaskAtATime, NoWorkerLost, Owns, InChannel
<1> QED
  BY <1>1, <1>2

\* A step of a client that leaves the channel and all workers where they are.
LEMMA QuietStep ==
    ASSUME PoolInv, TypeOK', Once', NEW c \in Clients,
           UNCHANGED <<all, workers, closed, parentDone>>,
           \A d \in Clients : Owns(d)' <=> Owns(d),
           \A d \in Clients : Owns(d) => worker'[d] = worker[d]
    PROVE  PoolInv'
  BY DEF PoolInv, Listed, OneTaskAtATime, NoWorkerLost, InChannel

\* A step of a client that gives its worker back: releaseWorker.
LEMMA ReleaseStep ==
    ASSUME PoolInv, TypeOK', Once', NEW c \in Clients, Owns(c), ~Owns(c)', releaseWorker(c),
           UNCHANGED <<all, closed, parentDone>>,
           \A d \in Clients \ {c} : (Owns(d)' <=> Owns(d)) /\ worker'[d] = worker[d]
    PROVE  PoolInv'
<1> USE DEF PoolInv
<1>1. CASE workers' = Append(workers, worker[c])
  <2>1. worker[c] \in Workers
    BY DEF Listed, TypeOK
  <2>2. /\ Len(workers') = Len(workers) + 1 /\ Len(workers) \in Nat
        /\ workers'[Len(workers) + 1] = worker[c]
        /\ \A i \in 1..Len(workers) : workers'[i] = workers[i]
    BY SMT, <1>1, <2>1, SendToChannel DEF TypeOK
  <2>3. \A v : InChannel(v)' <=> InChannel(v) \/ v = worker[c]
    BY SMT, <2>2 DEF InChannel
  <2>4. Listed'
    BY SMT, <2>2 DEF Listed
  <2>5. OneTaskAtATime'
    <3>1. \A i, j \in 1..Len(workers') : i # j => workers'[i] # workers'[j]
      BY SMT, <2>2 DEF OneTaskAtATime, InChannel
    <3> QED
      BY <2>3, <3>1 DEF OneTaskAtATime
  <2>6. NoWorkerLost'
    BY <2>3 DEF NoWorkerLost
  <2> QED
    BY <2>4, <2>5, <2>6
<1>2. CASE (parentDone \/ closed) /\ UNCHANGED workers
  BY <1>2 DEF Listed, OneTaskAtATime, NoWorkerLost, InChannel
<1> QED
  BY <1>1, <1>2 DEF releaseWorker

\* A step of Factory, or the deferred close of the runner.
LEMMA ClientSteps ==
    ASSUME PoolInv, NEW c \in Clients,
           Call(c) \/ Expire(c) \/ EngineStarts(c) \/ EngineRefused(c) \/ ClientStep(c)
    PROVE  PoolInv'
<1> USE DEF poolVars
<1>0. /\ pc \in [Clients -> InFactory \cup {"idle", "using"}]
      /\ worker \in [Clients -> Workers \cup {None}]
      /\ workers \in Seq(Workers)
  BY DEF PoolInv, TypeOK
<1>1. ASSUME \/ Call(c) \/ Expire(c) \/ GiveUp(c) \/ NewIsolatedTarget(c)
             \/ EngineStarts(c) \/ EngineRefused(c) \/ EngineCancelled(c)
      PROVE  PoolInv'
  <2>1. TypeOK'
    BY <1>1 DEF PoolInv, TypeOK, Call, Expire, GiveUp, NewIsolatedTarget, EngineStarts,
                EngineRefused, EngineCancelled, Return, Goto, InFactory
  <2>2. Once'
    BY <1>0, <1>1 DEF PoolInv, TypeOK, Once, Call, Expire, GiveUp, NewIsolatedTarget, EngineStarts,
                EngineRefused, EngineCancelled, Return, Goto
  <2>3. UNCHANGED <<all, workers, closed, parentDone>>
    BY <1>1 DEF Call, Expire, GiveUp, NewIsolatedTarget, EngineStarts,
                EngineRefused, EngineCancelled
  <2>4. \A d \in Clients : Owns(d)' <=> Owns(d)
    BY SMT, <1>0, <1>1 DEF PoolInv, TypeOK, Once, Owns, Call, Expire, GiveUp, NewIsolatedTarget,
                EngineStarts, EngineRefused, EngineCancelled, Return, Goto
  <2>5. \A d \in Clients : Owns(d) => worker'[d] = worker[d]
    BY <1>0, <1>1 DEF Owns, Call, Expire, GiveUp, NewIsolatedTarget,
                EngineStarts, EngineRefused, EngineCancelled, Return, Goto
  <2> QED
    BY <2>1, <2>2, <2>3, <2>4, <2>5, QuietStep
<1>2. ASSUME Take(c) PROVE PoolInv'
  <2> USE <1>2
  <2>1. /\ Head(workers) \in Workers /\ Head(workers) = workers[1]
        /\ workers' = Tail(workers) /\ workers' \in Seq(Workers)
        /\ Len(workers) \in Nat \ {0} /\ Len(workers') = Len(workers) - 1
        /\ \A i \in 1..Len(workers) - 1 : workers'[i] = workers[i + 1]
    BY <1>0, ReceiveFromChannel DEF Take
  <2>2. /\ worker' = [worker EXCEPT ![c] = workers[1]]
        /\ pc' = [pc EXCEPT ![c] = "check"] /\ pc[c] = "select"
        /\ UNCHANGED <<all, closed, parentDone, released>>
    BY <2>1 DEF Take, Goto
  <2>3. TypeOK'
    BY <2>1 DEF PoolInv, TypeOK, Take, Goto, InFactory
  <2>4. Once'
    BY <1>0, <2>2 DEF PoolInv, Once
  <2>5. /\ Owns(c)' /\ ~Owns(c)
        /\ \A d \in Clients \ {c} : Owns(d)' <=> Owns(d)
    BY <1>0, <2>2 DEF Owns
  <2>6. /\ worker'[c] = workers[1]
        /\ \A d \in Clients \ {c} : worker'[d] = worker[d]
    BY <1>0, <2>2
  <2>7. \A v : InChannel(v) <=> InChannel(v)' \/ v = workers[1]
    BY SMT, <2>1 DEF InChannel
  <2>8. \A i \in 1..Len(workers') : workers'[i] # workers[1]
    BY SMT, <2>1 DEF PoolInv, OneTaskAtATime
  <2>9. Listed'
    BY SMT, <2>1, <2>2, <2>5, <2>6 DEF PoolInv, Listed
  <2>10. OneTaskAtATime'
    <3>1. \A d \in Clients : Owns(d) => worker[d] # workers[1]
      BY <2>7 DEF PoolInv, OneTaskAtATime
    <3>2. \A d, e \in Clients : (Owns(d) /\ Owns(e))' /\ d # e => worker'[d] # worker'[e]
      BY <2>5, <2>6, <3>1 DEF PoolInv, OneTaskAtATime
    <3>3. \A d \in Clients : Owns(d)' => ~InChannel(worker[d])'
      BY SMT, <2>1, <2>5, <2>6, <2>8 DEF PoolInv, OneTaskAtATime, InChannel
    <3>4. \A i, j \in 1..Len(workers') : i # j => workers'[i] # workers'[j]
      BY SMT, <2>1 DEF PoolInv, OneTaskAtATime
    <3> QED
      BY <3>2, <3>3, <3>4 DEF OneTaskAtATime
  <2>11. NoWorkerLost'
    BY <2>2, <2>5, <2>6, <2>7 DEF PoolInv, NoWorkerLost
  <2> QED
    BY <2>3, <2>4, <2>9, <2>10, <2>11 DEF PoolInv
<1>3. ASSUME CheckDone(c) PROVE PoolInv'
  <2> USE <1>3
  <2>1. TypeOK' /\ Once'
    BY <1>0 DEF PoolInv, TypeOK, Once, CheckDone, Return, Goto, InFactory
  <2>2. CASE ~closed
    <3>1. UNCHANGED <<all, workers, closed, parentDone>>
      BY <2>2 DEF CheckDone
    <3>2. \A d \in Clients : Owns(d)' <=> Owns(d)
      BY <1>0, <2>2 DEF CheckDone, Owns, Goto
    <3>3. \A d \in Clients : Owns(d) => worker'[d] = worker[d]
      BY <2>2 DEF CheckDone
    <3> QED
      BY <2>1, <3>1, <3>2, <3>3, QuietStep
  <2>3. CASE closed
    <3>1. /\ \A d \in Clients : Owns(d)' => Owns(d) /\ worker'[d] = worker[d]
          /\ closed' /\ UNCHANGED <<all, workers>>
      BY <1>0, <2>3 DEF PoolInv, TypeOK, CheckDone, Owns, Return, Goto
    <3> QED
      BY <2>1, <3>1 DEF PoolInv, Listed, OneTaskAtATime, NoWorkerLost, InChannel
  <2> QED
    BY <2>2, <2>3
<1>4. ASSUME PutBack(c) \/ CloseEngine(c) PROVE PoolInv'
  <2> USE <1>4
  <2>1. Owns(c) /\ ~released[c] /\ releaseWorker(c)
    BY DEF PutBack, CloseEngine, release, Owns, PoolInv, Once
  <2>2. workers' \in Seq(Workers)
    BY SMT, <1>0, <2>1, SendToChannel DEF releaseWorker, PoolInv, Listed, TypeOK
  <2>3. TypeOK' /\ Once'
    BY <1>0, <2>2 DEF PoolInv, TypeOK, Once, PutBack, CloseEngine, Return, Goto, InFactory
  <2>4. /\ ~Owns(c)' /\ UNCHANGED <<all, closed, parentDone>>
        /\ \A d \in Clients \ {c} : (Owns(d)' <=> Owns(d)) /\ worker'[d] = worker[d]
    BY <1>0 DEF PoolInv, TypeOK, Owns, PutBack, CloseEngine, Return, Goto
  <2> QED
    BY <2>1, <2>3, <2>4, ReleaseStep
<1>5. ASSUME CancelEngine(c) PROVE PoolInv'
  <2> USE <1>5
  <2>1. Owns(c) /\ ~released[c] /\ releaseWorker(c)
    BY DEF CancelEngine, release, Owns, PoolInv, Once
  <2>2. workers' \in Seq(Workers)
    BY SMT, <1>0, <2>1, SendToChannel DEF releaseWorker, PoolInv, Listed, TypeOK
  <2>3. TypeOK' /\ Once'
    BY <1>0, <2>2 DEF PoolInv, TypeOK, Once, CancelEngine, Goto, InFactory
  <2>4. /\ ~Owns(c)' /\ UNCHANGED <<all, closed, parentDone>>
        /\ \A d \in Clients \ {c} : (Owns(d)' <=> Owns(d)) /\ worker'[d] = worker[d]
    BY <1>0 DEF PoolInv, TypeOK, Owns, CancelEngine, Goto
  <2> QED
    BY <2>1, <2>3, <2>4, ReleaseStep
<1>6. ASSUME ReleaseAgain(c) PROVE PoolInv'
  <2> USE <1>6
  <2>1. released[c] /\ workers' = workers
    BY DEF ReleaseAgain, release, PoolInv, Once
  <2>2. TypeOK' /\ Once'
    BY <1>0, <2>1 DEF PoolInv, TypeOK, Once, ReleaseAgain, Return, Goto, InFactory
  <2>3. \A d \in Clients : (Owns(d)' <=> Owns(d)) /\ (Owns(d) => worker'[d] = worker[d])
    BY <1>0, <2>1 DEF PoolInv, TypeOK, Owns, ReleaseAgain, Return, Goto
  <2> QED
    BY <2>1, <2>2, <2>3, QuietStep DEF ReleaseAgain
<1> QED
  BY <1>1, <1>2, <1>3, <1>4, <1>5, <1>6 DEF ClientStep

\* PoolInv holds in every reachable state, whatever the numbers of workers and
\* clients: it is inductive.
THEOREM PoolCorrect == Spec => []PoolInv
<1>1. PoolInv /\ [Next]_vars => PoolInv'
  <2> SUFFICES ASSUME PoolInv, [Next]_vars PROVE PoolInv'
    OBVIOUS
  <2>1. CASE Next
    BY <2>1, OwnerStep, ClientSteps DEF Next
  <2>2. CASE UNCHANGED vars
    BY SMT, <2>2 DEF vars, PoolInv, TypeOK, Listed, Once, OneTaskAtATime, NoWorkerLost, Owns, InChannel
  <2> QED
    BY <2>1, <2>2
<1> QED
  BY <1>1, PoolInit, PTL DEF Spec

\* The comment of Pool, "A worker runs one task at a time", is true of every
\* interleaving of Factory, Close, the deadlines and the failures of Chrome.
THEOREM WorkersExclusive == Spec => []OneTaskAtATime
  BY PoolCorrect, PTL DEF PoolInv

\* Until the pool is closed, each worker is in the channel or with a client,
\* whichever step of Factory failed.
THEOREM WorkersKept == Spec => []NoWorkerLost
  BY PoolCorrect, PTL DEF PoolInv

\* A client's worker is missing in the channel, which offers no other one twice:
\* by counting, the channel is not full.
LEMMA OwnerLeavesRoom ==
    ASSUME PoolInv, NEW c \in Clients, Owns(c)
    PROVE  Len(workers) < Size
<1> DEFINE Others == Workers \ {worker[c]}
           Places == 1..Len(workers)
<1>1. /\ workers \in Seq(Workers) /\ Len(workers) \in Nat /\ worker[c] \in Workers
      /\ \A i \in Places : workers[i] # worker[c]
      /\ \A i, j \in Places : i # j => workers[i] # workers[j]
  BY SMT DEF PoolInv, TypeOK, Listed, OneTaskAtATime, InChannel
<1>2. workers \in [Places -> Others]
  BY SMT, <1>1
<1>3. IsFiniteSet(Others) /\ Cardinality(Others) = Size - 1 /\ Size \in Nat
  BY <1>1, WorkersAssumption, FS_RemoveElement, FS_CardinalityType DEF Size
<1>4. IsFiniteSet(Places) /\ Cardinality(Places) = Len(workers)
  <2>1. 1 \in Int /\ Len(workers) \in Int
    BY SMT, <1>1
  <2>2. IsFiniteSet(Places) /\ Cardinality(Places) = IF 1 > Len(workers) THEN 0 ELSE Len(workers) - 1 + 1
    BY <2>1, FS_Interval
  <2> QED
    BY SMT, <1>1, <2>2
<1>5. ~(Cardinality(Others) < Cardinality(Places))
  <2> SUFFICES ASSUME Cardinality(Others) < Cardinality(Places) PROVE FALSE
    OBVIOUS
  <2>1. \E x, y \in Places : x # y /\ workers[x] = workers[y]
    <3> HIDE DEF Others, Places
    <3> QED
      BY <1>2, <1>3, <1>4, FS_PigeonHole
  <2> QED
    BY <1>1, <2>1
<1> QED
  BY SMT, <1>1, <1>3, <1>4, <1>5

\* The send in releaseWorker always finds room in the channel, so that a client
\* that is done with its worker never waits for another one.
THEOREM ReleaseNeverWaits == Spec => []ReleaseHasRoom
<1>1. PoolInv => ReleaseHasRoom
  BY OwnerLeavesRoom DEF ReleaseHasRoom
<1> QED
  BY <1>1, PoolCorrect, PTL

=============================================================================
