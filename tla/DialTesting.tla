----------------------------- MODULE DialTesting -----------------------------
(***************************************************************************)
(* A dial test over its life: Task of src/dialtesting/task.go, with one of *)
(* the children HTTPTask, TCPTask, ICMPTask, SSLTask, GRPCTask,            *)
(* WebsocketTask or MultiTask (multi.go).                                  *)
(*                                                                         *)
(* The caller renders the task with the global variables of the moment     *)
(* (SetUp), runs it (Run), reads its results, and goes on, setting it up   *)
(* again or not: the task is one object, and what a run leaves in it is    *)
(* there in the next one.  A multi task runs its steps, each a new HTTP    *)
(* task, attempt by attempt.                                               *)
(*                                                                         *)
(* A set-up that fails ends the task.                                      *)
(***************************************************************************)
EXTENDS RPCTask

CONSTANTS
    Tasks,        \* the tasks, as NewTask makes them
    GlobalValues, \* the values the global variables may have: functions
    Worlds(_, _), \* what the world may do in run n to a task
    MaxRuns,      \* runs of the task
    Nil           \* no result of a step

VARIABLES
    task,         \* the task
    pc,           \* what the caller did last
    globals,      \* the global variables
    n,            \* number of runs
    loc,          \* the locals of MultiTask.run and runHTTPStep
    vars,         \* ghost: the variables of the last set-up
    world         \* ghost: what the world did in the run, attempt by attempt

dialVars == <<task, pc, globals, n, loc, vars, world>>

-----------------------------------------------------------------------------
(* The children                                                            *)

clear(t) ==
    CASE t.class = "http" -> HTTP_clear(t)
      [] t.class = "tcp" -> TCP_clear(t)
      [] t.class = "icmp" -> ICMP_clear(t)
      [] t.class = "ssl" -> SSL_clear(t)
      [] t.class = "grpc" -> GRPC_clear(t)
      [] t.class = "websocket" -> WS_clear(t)

renderTemplate(t) ==
    CASE t.class = "http" -> HTTP_renderTemplate(t)
      [] t.class = "tcp" -> TCP_renderTemplate(t)
      [] t.class = "icmp" -> ICMP_renderTemplate(t)
      [] t.class = "ssl" -> SSL_renderTemplate(t)
      [] t.class = "grpc" -> GRPC_renderTemplate(t)
      [] t.class = "websocket" -> WS_renderTemplate(t)

\* A stopped task is not initialised: nothing is checked, parsed or compiled.
init(t) ==
    CASE t.raw.CurStatus = "stop" -> Okay(t)
      [] t.class = "http" -> HTTP_init(t)
      [] t.class = "tcp" -> TCP_init(t)
      [] t.class = "icmp" -> ICMP_init(t)
      [] t.class = "ssl" -> SSL_init(t)
      [] t.class = "grpc" -> GRPC_init(t)
      [] t.class = "websocket" -> WS_init(t)

run(t, e) ==
    CASE t.class = "http" -> HTTP_run(t, e)
      [] t.class = "tcp" -> TCP_run(t, e)
      [] t.class = "icmp" -> ICMP_run(t, e)
      [] t.class = "ssl" -> SSL_run(t, e)
      [] t.class = "grpc" -> GRPC_run(t, e)
      [] t.class = "websocket" -> WS_run(t, e)

-----------------------------------------------------------------------------
(* Task                                                                    *)

\* The clear of a multi task resets neither the values its steps report nor the
\* script result.
Multi_clear(t) ==
    [t EXCEPT !.extractedVars = <<>>, !.lastStep = -1, !.lastHTTPStep = -1,
              !.Steps = [i \in DOMAIN @ |-> [@[i] EXCEPT !.result = Nil]]]

Clear(t) ==
    [(IF t.class = "multi" THEN Multi_clear(t) ELSE clear(t)) EXCEPT !.ExtractedVars = <<>>]

\* The variables of the task, of the steps before it and of the multi task, the
\* later ones covering the earlier.  A multi task renders nothing itself.
RenderTemplateAndInit(t, gs) ==
    LET Ready(u) == [u EXCEPT !.fm = FuncMap(u.ConfigVars \o u.ExtractedVars \o u.CustomVars)]
        ready == Ready([t EXCEPT !.ConfigVars = ResolveAll(@, gs),
                                 !.ExtractedVars = ResolveAll(@, gs),
                                 !.CustomVars = ResolveAll(@, gs)])
    IN  IF t.class = "multi" THEN Okay(ready) ELSE Then(renderTemplate(ready), init)

\* Run of a task that is not a multi task.  beforeRun may refuse.
RunTask(t, e) ==
    Then(renderTemplate(Clear(t)), LAMBDA u :
        Okay(IF e.at = "before" THEN [u EXCEPT !.reqError = TRUE] ELSE run(u, e)))

-----------------------------------------------------------------------------
(* MultiTask                                                               *)

\* A multi task: its steps are HTTP tasks or waits.
Multi_new(raw) ==
    [class |-> "multi", raw |-> raw, ConfigVars |-> raw.ConfigVars,
     ExtractedVars |-> <<>>, CustomVars |-> <<>>, fm |-> <<>>, Steps |-> raw.Steps,
     extractedVars |-> <<>>, lastStep |-> -1, lastHTTPStep |-> -1, script |-> NoScript]

Multi_getResults(t) ==
    [status |-> IF /\ t.lastHTTPStep > 0
                   /\ t.Steps[t.lastHTTPStep].result # Nil
                   /\ t.Steps[t.lastHTTPStep].result.status = "OK"
                THEN "OK" ELSE "FAIL"]

\* One attempt of an HTTP step: a new task gets the variables extracted so far
\* and those of the multi task, and is rendered, run and read.
Attempt(t, step, e) ==
    LET extracted == [i \in DOMAIN t.extractedVars |->
                        ConfigVar(t.extractedVars[i].Name, t.extractedVars[i].Value, "", FALSE)]
        new == [HTTP_new(step.task) EXCEPT !.ExtractedVars = extracted,
                                           !.CustomVars = t.ConfigVars]
        Ran(r) == [ready |-> TRUE, ran |-> r.ok, task |-> r.val]
        Run(r) == IF r.ok THEN Ran(RunTask(r.val, e))
                  ELSE [ready |-> FALSE, ran |-> FALSE, task |-> r.val]
    IN  Run(RenderTemplateAndInit(new, <<>>))

\* What the script of an attempt adds to the variables of the steps to come, and
\* to the values the step reports.
Extract(t, i, script) ==
    LET evs == t.Steps[i].ExtractedVars
        value(v) == IF v.Field \in DOMAIN script.vars THEN script.vars[v.Field] ELSE ""
    IN  IF script = NoScript THEN t
        ELSE [t EXCEPT
                !.extractedVars = @ \o [j \in DOMAIN evs |-> [evs[j] EXCEPT !.Value = value(evs[j])]],
                !.Steps[i].script = script,
                !.Steps[i].ExtractedVars = [j \in DOMAIN evs |->
                    IF evs[j].Field \in DOMAIN script.vars /\ ~evs[j].Secure
                    THEN [evs[j] EXCEPT !.Value = value(evs[j])] ELSE evs[j]]]

NoLoc == [i |-> 0, runCount |-> 0, result |-> Nil, failed |-> FALSE,
          lastStep |-> -1, lastHTTPStep |-> -1]

-----------------------------------------------------------------------------
(* The caller                                                              *)

Init ==
    /\ task \in Tasks /\ globals \in GlobalValues
    /\ pc = "new" /\ n = 0 /\ loc = NoLoc /\ vars = <<>> /\ world = <<>>

\* Somebody gives the global variables other values.
ChangeGlobals ==
    /\ pc \in {"new", "done"} /\ n < MaxRuns
    /\ globals' \in GlobalValues \ {globals}
    /\ UNCHANGED <<task, pc, n, loc, vars, world>>

\* The task is what an operation left; an error ends it.
Become(r, next) == task' = r.val /\ pc' = IF r.ok THEN next ELSE "refused"

SetUp ==
    /\ pc \in {"new", "done"} /\ n < MaxRuns
    /\ Become(RenderTemplateAndInit(task, globals), "ready")
    /\ vars' = [id \in DOMAIN globals \cup DOMAIN vars |->
                    IF id \in DOMAIN globals THEN globals[id].Value ELSE vars[id]]
    /\ world' = <<>>
    /\ UNCHANGED <<globals, n, loc>>

\* Run of a task of one request.  A stopped HTTP or websocket task has no client
\* and no URL to run with: the code dereferences nil.
Run(e) ==
    /\ pc \in {"ready", "done"} /\ n < MaxRuns /\ task.class # "multi"
    /\ task.raw.CurStatus = "stop" => task.class \notin {"http", "websocket"}
    /\ Become(RunTask(task, e), "done")
    /\ n' = n + 1
    /\ world' = <<[step |-> 0, e |-> e, sent |-> NoBody]>>
    /\ UNCHANGED <<globals, loc, vars>>

-----------------------------------------------------------------------------
(* MultiTask.run and runHTTPStep                                           *)

RunMulti ==
    /\ pc \in {"ready", "done"} /\ n < MaxRuns /\ task.class = "multi"
    /\ task' = Clear(task) /\ n' = n + 1 /\ world' = <<>>
    /\ IF task.Steps = <<>> THEN pc' = "done" /\ loc' = NoLoc
       ELSE pc' = "step" /\ loc' = [NoLoc EXCEPT !.i = 1]
    /\ UNCHANGED <<globals, vars>>

Step == task.Steps[loc.i]

\* The locals after step i.
NextStep == [loc EXCEPT !.i = @ + 1, !.runCount = 0, !.result = Nil]

\* A step after one that failed is only reported.
SkipStep ==
    /\ pc = "step" /\ loc.i <= Len(task.Steps) /\ loc.failed /\ Step.Type \in {"http", "wait"}
    /\ task' = [task EXCEPT !.Steps[loc.i].result = [status |-> "", fail_reason |-> FALSE]]
    /\ loc' = NextStep
    /\ UNCHANGED <<pc, globals, n, vars, world>>

WaitStep ==
    /\ pc = "step" /\ loc.i <= Len(task.Steps) /\ ~loc.failed /\ Step.Type = "wait"
    /\ task' = [task EXCEPT !.Steps[loc.i].result = [status |-> "", fail_reason |-> FALSE]]
    /\ loc' = [NextStep EXCEPT !.lastStep = loc.i]
    /\ UNCHANGED <<pc, globals, n, vars, world>>

\* A step of another type ends the run; which step was the last is not recorded.
BadStep ==
    /\ pc = "step" /\ loc.i <= Len(task.Steps) /\ Step.Type \notin {"http", "wait"}
    /\ task' = [task EXCEPT !.Steps[loc.i].result = [status |-> "", fail_reason |-> FALSE]]
    /\ pc' = "done" /\ loc' = NoLoc
    /\ UNCHANGED <<globals, n, vars, world>>

\* What an HTTP step leaves when its attempts are over.
EndStep(t, result, err) ==
    LET reported == IF result = Nil THEN [status |-> "", fail_reason |-> FALSE] ELSE result
        after == [t EXCEPT !.Steps[loc.i].result =
                     [reported EXCEPT !.fail_reason = @ \/ err]]
    IN  /\ task' = IF loc.i = Len(t.Steps) THEN [after EXCEPT !.script = t.Steps[loc.i].script]
                   ELSE after
        /\ loc' = [NextStep EXCEPT !.lastStep = loc.i, !.lastHTTPStep = loc.i,
                                   !.failed = err /\ ~t.Steps[loc.i].AllowFailure]

\* The JSON of the step is no HTTP task.
BadTask ==
    /\ pc = "step" /\ loc.i <= Len(task.Steps) /\ ~loc.failed /\ Step.Type = "http"
    /\ ~Step.json
    /\ EndStep(task, Nil, TRUE)
    /\ UNCHANGED <<pc, globals, n, vars, world>>

\* The results of an attempt go over those of the attempts before it; a reason to
\* fail that is not overwritten stays.
Merge(old, r) ==
    [status |-> r.status, fail_reason |-> r.fail_reason \/ (old # Nil /\ old.fail_reason)]

\* What follows an attempt: the step is over, or there is another one.
Attempted(a, result, t) ==
    IF a.ran /\ result.status = "OK" THEN EndStep(t, result, FALSE)
    ELSE IF loc.runCount < Step.Retry
    THEN task' = t /\ loc' = [loc EXCEPT !.runCount = @ + 1, !.result = result]
    ELSE EndStep(t, result, ~a.ran \/ result # Nil)

AfterAttempt(a, e) ==
    /\ Attempted(a, IF a.ready THEN Merge(loc.result, HTTP_getResults(a.task)) ELSE loc.result,
                 Extract(task, loc.i, a.task.script))
    /\ world' = Append(world, [step |-> loc.i, e |-> e, sent |-> a.task.sent])

RunAttempt(e) ==
    /\ pc = "step" /\ loc.i <= Len(task.Steps) /\ ~loc.failed /\ Step.Type = "http"
    /\ Step.json
    /\ AfterAttempt(Attempt(task, Step, e), e)
    /\ UNCHANGED <<pc, globals, n, vars>>

EndRun ==
    /\ pc = "step" /\ loc.i > Len(task.Steps)
    /\ task' = [task EXCEPT !.lastStep = loc.lastStep, !.lastHTTPStep = loc.lastHTTPStep]
    /\ pc' = "done" /\ loc' = NoLoc
    /\ UNCHANGED <<globals, n, vars, world>>

Next ==
    \/ ChangeGlobals \/ SetUp
    \/ \E e \in Worlds(n + 1, task) : Run(e)
    \/ RunMulti \/ SkipStep \/ WaitStep \/ BadStep \/ BadTask \/ EndRun
    \/ \E e \in Worlds(n, task) : RunAttempt(e)

Spec == Init /\ [][Next]_dialVars

-----------------------------------------------------------------------------
(* What a run may claim.  The rules are read here from the task as it was  *)
(* written, the variables of the last set-up and what the world did in     *)
(* this very run, not from what the task carries.                          *)

GetResults ==
    CASE task.class = "http" -> HTTP_getResults(task)
      [] task.class = "tcp" -> TCP_getResults(task)
      [] task.class = "icmp" -> ICMP_getResults(task)
      [] task.class = "ssl" -> SSL_getResults(task)
      [] task.class = "grpc" -> GRPC_getResults(task)
      [] task.class = "websocket" -> WS_getResults(task)
      [] OTHER -> Multi_getResults(task)

\* The value of a variable of the task at the last set-up.
VarValue(name) ==
    LET v == CHOOSE v \in Range(task.raw.ConfigVars) : v.Name = name
    IN  IF v.ID # "" /\ v.ID \in DOMAIN vars THEN vars[v.ID] ELSE v.Value

Written(text) == IF text.var = "" THEN text.lit ELSE VarValue(text.var)

\* A value meets an option.
Meets(o, v, Text(_)) ==
    CASE Text(o.Is) # "" -> v = Text(o.Is)
      [] Text(o.Is) = "" /\ Text(o.IsNot) # "" -> v # Text(o.IsNot)
      [] OTHER -> /\ \A f \in {"MatchRegex", "Contains"} :
                        Text(o[f]) # "" => <<v, Text(o[f])>> \in Holds
                  /\ \A f \in {"NotMatchRegex", "NotContains"} :
                        Text(o[f]) # "" => <<v, Text(o[f])>> \notin Holds

AllOrSome(logic, claims) == IF logic = "or" THEN TRUE \in claims ELSE FALSE \notin claims

\* The limit of a rule on the response time: none or one.
TimeLimit(r, Text(_)) ==
    IF Text(r.ResponseTime) = "" THEN {} ELSE {Durations[Text(r.ResponseTime)]}

\* An HTTP request was answered, and the answer is as the task wants it.
HTTPEarned(raw, e, Text(_)) ==
    LET claims(r) ==
            {Meets(r.Header[j], e.resp.header, Text) : j \in DOMAIN r.Header}
            \cup {Meets(r.Body[j], e.resp.body, Text) : j \in DOMAIN r.Body}
            \cup {Meets(r.StatusCode[j], e.resp.status, Text) : j \in DOMAIN r.StatusCode}
            \cup {e.cost <= d : d \in TimeLimit(r, Text)}
    IN  /\ e.at = "done"
        /\ AllOrSome(raw.SuccessWhenLogic,
                     UNION {claims(raw.SuccessWhen[i]) : i \in DOMAIN raw.SuccessWhen}
                     \cup IF raw.PostScript THEN {~e.script.failed} ELSE {})

DialEarned(e) ==
    LET raw == task.raw
        cost(v, host) == IF v.IsContainDNS /\ Written(host) \notin IPs THEN e.cost + e.dns ELSE e.cost
        hops(r) == {checkValue(r.Hops[j], Len(e.route)) : j \in DOMAIN r.Hops}
        answered == Cardinality({i \in 1..raw.PacketCount : e.pings[i] > 0})
        lost == ((raw.PacketCount - answered) * 100) \div raw.PacketCount
        tcp(r) == {cost(r.ResponseTime[j], raw.Host) < Durations[r.ResponseTime[j].Target] :
                        j \in DOMAIN r.ResponseTime}
                  \cup {Meets(r.ResponseMessage[j], e.message, Written) : j \in DOMAIN r.ResponseMessage}
                  \cup hops(r)
        icmp(r) == {checkValue(r.Packets[j], answered) : j \in DOMAIN r.Packets}
                   \cup {checkValue(r.PacketLossPercent[j], lost) : j \in DOMAIN r.PacketLossPercent}
                   \cup {answered > 0 /\ \A i \in 1..raw.PacketCount :
                            e.pings[i] < Durations[r.ResponseTime[j].Target] :
                            j \in DOMAIN r.ResponseTime}
                   \cup hops(r)
        ssl(r) == {e.cert.expires > r.CertificateExpiresInDays[j].Target :
                        j \in DOMAIN r.CertificateExpiresInDays}
                  \cup {Meets(r.Subject[j], e.cert.subject, Written) : j \in DOMAIN r.Subject}
                  \cup {e.cost < d : d \in TimeLimit(r, Written)}
        grpc(r) == {Meets(r.Body[j], e.resp.body, Written) : j \in DOMAIN r.Body}
                   \cup {e.cost <= d : d \in TimeLimit(r, Written)}
        ws(r) == {cost(r.ResponseTime[j], raw.URL) <= Durations[r.ResponseTime[j].Target] :
                        j \in DOMAIN r.ResponseTime}
                 \cup {Meets(r.ResponseMessage[j], e.message, Written) : j \in DOMAIN r.ResponseMessage}
                 \cup {Meets(r.Header[j], e.resp.header, Written) : j \in DOMAIN r.Header}
        claims(r) == CASE task.class = "tcp" -> tcp(r) [] task.class = "icmp" -> icmp(r)
                       [] task.class = "ssl" -> ssl(r) [] task.class = "grpc" -> grpc(r)
                       [] OTHER -> ws(r)
    IN  /\ e.at = "done" /\ ~e.noroute
        /\ AllOrSome(raw.SuccessWhenLogic,
                     UNION {claims(raw.SuccessWhen[i]) : i \in DOMAIN raw.SuccessWhen}
                     \cup IF task.class = "grpc" /\ raw.PostScript THEN {~e.script.failed} ELSE {})

\* A limit that renders to nothing leaves the one of an earlier set-up, and to meet
\* that one is enough.
OldLimitCounts ==
    /\ task.class \in {"http", "ssl", "grpc"} /\ task.raw.SuccessWhenLogic = "or"
    /\ \E i \in DOMAIN task.raw.SuccessWhen :
        LET limit == task.raw.SuccessWhen[i].ResponseTime IN limit.var # "" /\ Written(limit) = ""

-----------------------------------------------------------------------------
(* Properties                                                              *)

\* A task that reports OK got, in this run, an answer that meets the rules as they
\* were written, with the variables of the last set-up; nothing that an earlier
\* run left in the task (a response, a message, a script result, a compiled
\* pattern) stands in for it.  The values GetPostScriptVars gives are this run's.
\* Three tasks are left out, whose OK the code does not make good: one that is
\* stopped, which init leaves without patterns and limits; one of which one rule
\* is enough and whose response time renders to nothing, for the limit of an
\* earlier set-up is still compared; and a TCP test that sends nothing, which
\* judges the last message it got.
OKIsEarned ==
    (/\ pc = "done" /\ task.class # "multi" /\ world # <<>> /\ GetResults.status = "OK"
     /\ task.raw.CurStatus # "stop" /\ ~OldLimitCounts)
        => LET e == world[1].e
           IN  CASE task.class = "http" ->
                        /\ HTTPEarned(task.raw, e, Written)
                        /\ task.raw.PostScript => task.script = e.script
                 [] task.class = "tcp" ->
                        Written(task.raw.Message) # "" => DialEarned(e)
                 [] task.class = "grpc" ->
                        /\ DialEarned(e)
                        /\ task.raw.PostScript => task.script = e.script
                 [] OTHER -> DialEarned(e)

\* The request of a run is the task's as the variables of the last set-up render
\* it: no body kept from another run, no method called from a stale descriptor, no
\* boundary in the header that is not the body's.  The form has every pair of the
\* last set-up.  It may have more: a key that an earlier set-up rendered from other
\* values stays in the form (http.go:1059), as it does in the metadata of a gRPC
\* test (grpc.go:995), which are not looked at here.
RequestOfThisRun ==
    /\ (pc = "done" /\ task.class = "http" /\ task.sent # NoBody)
        => /\ task.sent.URL = Written(task.raw.URL)
           /\ task.sent.header = Written(task.raw.header)
           /\ task.sent.ContentType = task.sent.body.boundary
           /\ task.raw.Form = <<>> => task.sent.body.text = Written(task.raw.Body)
           /\ \A i \in DOMAIN task.raw.Form :
                /\ Written(task.raw.Form[i].k) \in DOMAIN task.sent.body.form
                /\ task.sent.body.form[Written(task.raw.Form[i].k)] = Written(task.raw.Form[i].v)
    /\ (pc = "done" /\ task.class = "grpc" /\ task.called # NoMethod)
        => task.called = Written(task.raw.FullMethod)

\* The attempt k of the run of a multi task extracted a value for the name.
ExtractedBy(k, name) ==
    LET evs == task.raw.Steps[world[k].step].ExtractedVars
    IN  /\ world[k].e.at = "done" /\ task.raw.Steps[world[k].step].task.PostScript
        /\ world[k].sent # NoBody
        /\ \E j \in DOMAIN evs : evs[j].Name = name

\* The value of a variable in attempt k: the multi task's own, or the one the last
\* attempt before it extracted, in this run, or the step's.
ValueIn(k, name) ==
    LET own == {v \in Range(task.raw.ConfigVars) : v.Name = name}
        before == {j \in 1..k - 1 : ExtractedBy(j, name)}
        j == CHOOSE j \in before : \A i \in before : i <= j
        ev == CHOOSE ev \in Range(task.raw.Steps[world[j].step].ExtractedVars) : ev.Name = name
        found == world[j].e.script.vars
        step == {v \in Range(task.raw.Steps[world[k].step].task.ConfigVars) : v.Name = name}
    IN  IF own # {} THEN VarValue(name)
        ELSE IF before # {} THEN (IF ev.Field \in DOMAIN found THEN found[ev.Field] ELSE "")
        ELSE IF step # {} THEN (CHOOSE v \in step : TRUE).Value ELSE "unknown"

\* The request of an attempt is rendered from the values that this run extracted:
\* a value of an earlier run, or of an attempt that is not the last before it,
\* never reaches a request.  The task of an attempt is new, so its form has the
\* pairs of this attempt and no other.
AttemptVarsOfThisRun ==
    task.class = "multi" =>
        \A k \in DOMAIN world :
            world[k].sent # NoBody =>
                LET raw == task.raw.Steps[world[k].step].task
                    text(t) == IF t.var = "" THEN t.lit ELSE ValueIn(k, t.var)
                IN  /\ world[k].sent.URL = text(raw.URL)
                    /\ world[k].sent.header = text(raw.header)
                    /\ DOMAIN world[k].sent.body.form = {text(p.k) : p \in Range(raw.Form)}
                    /\ \A p \in Range(raw.Form) : world[k].sent.body.form[text(p.k)] = text(p.v)

\* A multi task that reports OK ran every HTTP step, and the last attempt of every
\* one that may not fail was answered as the step wants it, in this run; no step
\* was skipped.
MultiOK ==
    (pc = "done" /\ task.class = "multi" /\ GetResults.status = "OK")
        => \A i \in {j \in DOMAIN task.Steps : task.Steps[j].Type = "http"} :
              LET ks == {k \in DOMAIN world : world[k].step = i}
                  k == CHOOSE k \in ks : \A l \in ks : l <= k
                  raw == task.raw.Steps[i].task
                  text(t) == IF t.var = "" THEN t.lit ELSE ValueIn(k, t.var)
              IN  /\ task.raw.Steps[i].json => ks # {}
                  /\ ~task.Steps[i].AllowFailure => ks # {} /\ HTTPEarned(raw, world[k].e, text)
                  /\ (i = Len(task.Steps) /\ raw.PostScript) => task.script = world[k].e.script

\* A task of any class, but for the three above, that reports OK earned it in this
\* run.
VerdictEarned == OKIsEarned /\ MultiOK

\* What any task sends belongs to this run, but for the form keys of an earlier
\* set-up.
RequestsOfThisRun == RequestOfThisRun /\ AttemptVarsOfThisRun

=============================================================================
