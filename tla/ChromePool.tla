----------------------------- MODULE ChromePool -----------------------------
(***************************************************************************)
(* The pool of warm Chrome processes of                                    *)
(* src/dialtesting/browserdial/chrome: the browser runner asks Factory for *)
(* an engine, uses it for one attempt and closes it.                       *)
(*                                                                         *)
(* `workers' is the buffered channel, `done' and `closed' of the source    *)
(* change together under mu and are one variable.  What a call asks of     *)
(* Chrome has only an outcome here: it works, or it fails because the      *)
(* caller's context expired, the worker's was cancelled, or Chrome said    *)
(* no.  Chrome may also never answer.                                      *)
(***************************************************************************)
EXTENDS Naturals, Sequences, FiniteSets

CONSTANTS
    Workers,      \* the processes NewPool starts
    Clients,      \* goroutines of the runner
    None

ASSUME WorkersAssumption == IsFiniteSet(Workers) /\ Workers # {} /\ None \notin Workers

Size == Cardinality(Workers)

VARIABLES
    pool,         \* "new": NewPool runs; "ready"; "nil": NewPool failed
    all,          \* the workers NewPool started
    workers,      \* the channel
    closed,       \* closed, and done is closed
    toCancel,     \* the workers Close has still to cancel
    alive,        \* the workers whose context is not cancelled
    parentDone,   \* the context NewPool was given is done
    ctxDone,      \* the context Factory was given is done
    pc,           \* where a client is
    worker,       \* local variable of Factory
    released      \* releaseOnce has fired

vars == <<pool, all, workers, closed, toCancel, alive, parentDone, ctxDone, pc,
          worker, released>>

\* What Factory reads and Close writes, besides the channel.
poolVars == <<pool, all, closed, toCancel, alive, parentDone>>

InFactory == {"select", "check", "target", "putback", "engine", "cancel", "again"}

Init ==
    /\ pool = "new"
    /\ all = {}
    /\ workers = <<>>
    /\ closed = FALSE
    /\ toCancel = {}
    /\ alive = {}
    /\ parentDone = FALSE
    /\ ctxDone = [c \in Clients |-> FALSE]
    /\ pc = [c \in Clients |-> "idle"]
    /\ worker = [c \in Clients |-> None]
    /\ released = [c \in Clients |-> FALSE]

-----------------------------------------------------------------------------
(* NewPool and Close                                                       *)

\* newPoolWorker worked: the worker is listed and put into the channel.
NewWorker(w) ==
    /\ pool = "new"
    /\ ~parentDone
    /\ w \notin all
    /\ all' = all \cup {w}
    /\ alive' = alive \cup {w}
    /\ workers' = Append(workers, w)
    /\ pool' = IF all' = Workers THEN "ready" ELSE "new"
    /\ UNCHANGED <<closed, toCancel, parentDone, ctxDone, pc, worker, released>>

\* newPoolWorker failed: what was started is closed, the caller gets nil.
NewPoolFails ==
    /\ pool = "new"
    /\ pool' = "nil"
    /\ closed' = TRUE
    /\ toCancel' = all
    /\ UNCHANGED <<all, workers, alive, parentDone, ctxDone, pc, worker, released>>

\* Close up to the unlock; a second call returns at once.
Close ==
    /\ pool = "ready"
    /\ ~closed
    /\ closed' = TRUE
    /\ toCancel' = all
    /\ UNCHANGED <<pool, all, workers, alive, parentDone, ctxDone, pc, worker, released>>

\* Mutant: only the workers in the channel are cancelled.
CancelIdleWorker(w) ==
    /\ w \in toCancel
    /\ toCancel' = toCancel \ {w}
    /\ alive' = IF \E i \in 1..Len(workers) : workers[i] = w THEN alive \ {w} ELSE alive
    /\ UNCHANGED <<pool, all, workers, closed, parentDone, ctxDone, pc, worker, released>>

\* The loop of Close after the unlock.
CancelWorker(w) ==
    /\ w \in toCancel
    /\ toCancel' = toCancel \ {w}
    /\ alive' = alive \ {w}
    /\ UNCHANGED <<pool, all, workers, closed, parentDone, ctxDone, pc, worker, released>>

\* The owner's context ends, and with it every context derived from it.
ParentDone ==
    /\ ~parentDone
    /\ parentDone' = TRUE
    /\ alive' = {}
    /\ UNCHANGED <<pool, all, workers, closed, toCancel, ctxDone, pc, worker, released>>

-----------------------------------------------------------------------------
(* Factory                                                                 *)

Goto(c, label) == pc' = [pc EXCEPT ![c] = label]

\* The call, or the attempt, is over; its local variables are gone.
Return(c) ==
    /\ Goto(c, "idle")
    /\ ctxDone' = [ctxDone EXCEPT ![c] = FALSE]
    /\ worker' = [worker EXCEPT ![c] = None]
    /\ released' = [released EXCEPT ![c] = FALSE]

Call(c) ==
    /\ pool = "ready"
    /\ pc[c] = "idle"
    /\ Goto(c, "select")
    /\ UNCHANGED <<poolVars, workers, ctxDone, worker, released>>

\* The deadline of the attempt: runAttempt gives Factory a context with a
\* timeout.
Expire(c) ==
    /\ pc[c] # "idle"
    /\ ~ctxDone[c]
    /\ ctxDone' = [ctxDone EXCEPT ![c] = TRUE]
    /\ UNCHANGED <<poolVars, workers, pc, worker, released>>

\* The three cases of the select that return an error.
GiveUp(c) ==
    /\ pc[c] = "select"
    /\ parentDone \/ ctxDone[c] \/ closed
    /\ Return(c)
    /\ UNCHANGED <<poolVars, workers>>

\* case worker := <-p.workers
Take(c) ==
    /\ pc[c] = "select"
    /\ workers # <<>>
    /\ worker' = [worker EXCEPT ![c] = Head(workers)]
    /\ workers' = Tail(workers)
    /\ Goto(c, "check")
    /\ UNCHANGED <<poolVars, ctxDone, released>>

\* The second select: a worker taken from a pool that is closed is dropped.
CheckDone(c) ==
    /\ pc[c] = "check"
    /\ \/ closed /\ Return(c)
       \/ ~closed /\ Goto(c, "target") /\ UNCHANGED <<ctxDone, worker, released>>
    /\ UNCHANGED <<poolVars, workers>>

\* newIsolatedTarget runs under the caller's context and at most 5 s; a dead
\* worker cannot serve it.
NewIsolatedTarget(c) ==
    /\ pc[c] = "target"
    /\ \/ worker[c] \in alive /\ ~ctxDone[c] /\ Goto(c, "engine")
       \/ Goto(c, "putback")
    /\ UNCHANGED <<poolVars, workers, ctxDone, worker, released>>

\* The select of releaseWorker.
releaseWorker(c) ==
    \/ /\ Len(workers) < Size
       /\ workers' = Append(workers, worker[c])
    \/ /\ parentDone \/ closed
       /\ UNCHANGED workers

\* Mutant: the worker of a failed target is not released.
PutBackNothing(c) ==
    /\ pc[c] = "putback"
    /\ Return(c)
    /\ UNCHANGED <<poolVars, workers>>

PutBack(c) ==
    /\ pc[c] = "putback"
    /\ releaseWorker(c)
    /\ Return(c)
    /\ UNCHANGED poolVars

\* newEngineFromContext worked.  It runs under the worker's context, not
\* under the caller's.
EngineStarts(c) ==
    /\ pc[c] = "engine"
    /\ worker[c] \in alive
    /\ Goto(c, "using")
    /\ UNCHANGED <<poolVars, workers, ctxDone, worker, released>>

\* It failed: Chrome refused, or the worker was cancelled.
EngineRefused(c) ==
    /\ pc[c] = "engine"
    /\ worker[c] \in alive
    /\ Goto(c, "cancel")
    /\ UNCHANGED <<poolVars, workers, ctxDone, worker, released>>

EngineCancelled(c) ==
    /\ pc[c] = "engine"
    /\ worker[c] \notin alive
    /\ Goto(c, "cancel")
    /\ UNCHANGED <<poolVars, workers, ctxDone, worker, released>>

\* Mutant: no sync.Once.
releaseTwice(c) == releaseWorker(c)

\* The closure `release': the tab is cancelled, its browser context disposed
\* of, the worker released, once.
release(c) ==
    \/ released[c] /\ UNCHANGED workers
    \/ ~released[c] /\ releaseWorker(c)

\* engine.cancel() in newEngineFromContext.
CancelEngine(c) ==
    /\ pc[c] = "cancel"
    /\ release(c)
    /\ released' = [released EXCEPT ![c] = TRUE]
    /\ Goto(c, "again")
    /\ UNCHANGED <<poolVars, ctxDone, worker>>

\* Factory calls release once more before it returns the error.
ReleaseAgain(c) ==
    /\ pc[c] = "again"
    /\ release(c)
    /\ Return(c)
    /\ UNCHANGED poolVars

\* The attempt is over: runAttempt's deferred engine.Close.
CloseEngine(c) ==
    /\ pc[c] = "using"
    /\ release(c)
    /\ Return(c)
    /\ UNCHANGED poolVars

ClientStep(c) ==
    \/ GiveUp(c) \/ Take(c) \/ CheckDone(c) \/ NewIsolatedTarget(c) \/ PutBack(c)
    \/ EngineCancelled(c) \/ CancelEngine(c) \/ ReleaseAgain(c) \/ CloseEngine(c)

Next ==
    \/ \E w \in Workers : NewWorker(w) \/ CancelWorker(w)
    \/ NewPoolFails \/ Close \/ ParentDone
    \/ \E c \in Clients :
          Call(c) \/ Expire(c) \/ EngineStarts(c) \/ EngineRefused(c) \/ ClientStep(c)

Spec == Init /\ [][Next]_vars

-----------------------------------------------------------------------------
TypeOK ==
    /\ pool \in {"new", "ready", "nil"}
    /\ all \subseteq Workers
    /\ workers \in Seq(Workers)
    /\ closed \in BOOLEAN
    /\ toCancel \subseteq Workers
    /\ alive \subseteq Workers
    /\ parentDone \in BOOLEAN
    /\ ctxDone \in [Clients -> BOOLEAN]
    /\ pc \in [Clients -> InFactory \cup {"idle", "using"}]
    /\ worker \in [Clients -> Workers \cup {None}]
    /\ released \in [Clients -> BOOLEAN]

\* The client has taken its worker and not given it back.
Owns(c) ==
    \/ pc[c] \in {"check", "target", "putback"}
    \/ pc[c] \in {"engine", "cancel", "again", "using"} /\ ~released[c]

InChannel(w) == \E i \in 1..Len(workers) : workers[i] = w

\* "A worker runs one task at a time": no two clients own one worker, no owned
\* worker is offered by the channel, and the channel offers none twice.
OneTaskAtATime ==
    /\ \A c, d \in Clients : Owns(c) /\ Owns(d) /\ c # d => worker[c] # worker[d]
    /\ \A c \in Clients : Owns(c) => ~InChannel(worker[c])
    /\ \A i, j \in 1..Len(workers) : i # j => workers[i] # workers[j]

\* While the pool is open every worker it started is in the channel or with a
\* client: no failure on the way through Factory loses one.
NoWorkerLost ==
    ~closed /\ ~parentDone =>
        \A w \in all : InChannel(w) \/ \E c \in Clients : Owns(c) /\ worker[c] = w

\* Whoever gives a worker back finds room: releaseWorker never waits.
ReleaseHasRoom ==
    \A c \in Clients : Owns(c) => Len(workers) < Size

\* A select with a ready case takes one of them, deadlines pass, the runner
\* ends its attempt and Close its loop.  Nothing is assumed of Chrome.
Fairness ==
    /\ \A c \in Clients : WF_vars(ClientStep(c)) /\ WF_vars(Expire(c))
    /\ \A w \in Workers : WF_vars(CancelWorker(w))

LiveSpec == Spec /\ Fairness

\* Once the pool is closed every client comes back, even from a Chrome that
\* does not answer: Close cancels the workers that are in use too.
CloseFreesAll == \A c \in Clients : closed /\ pc[c] # "idle" ~> pc[c] = "idle"

=============================================================================
