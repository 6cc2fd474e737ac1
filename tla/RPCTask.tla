------------------------------- MODULE RPCTask -------------------------------
(***************************************************************************)
(* The gRPC and websocket dial tests: GRPCTask and WebsocketTask of        *)
(* src/dialtesting.  `e' is what the world does in one run: where it stops *)
(* (e.at), the time, the answer and what the post script makes of it.      *)
(***************************************************************************)
EXTENDS HTTPTask, TCPTask

CONSTANTS
    NoMethod,     \* nil method descriptor
    NoResult      \* nil result

-----------------------------------------------------------------------------
(* GRPCTask.  The method is found in proto files, by reflection or by the  *)
(* health check (raw.discovery); its descriptor is cached.                 *)

GRPC_new(raw) ==
    [class |-> "grpc", raw |-> raw, ConfigVars |-> raw.ConfigVars,
     ExtractedVars |-> <<>>, CustomVars |-> <<>>, fm |-> <<>>,
     Server |-> "", FullMethod |-> raw.FullMethod.lit, JSONRequest |-> "", Metadata |-> <<>>,
     SuccessWhen |-> [i \in DOMAIN raw.SuccessWhen |->
         [Body |-> [j \in DOMAIN raw.SuccessWhen[i].Body |-> Blank],
          ResponseTime |-> "", respTime |-> 0]],
     descriptor |-> NoMethod, called |-> NoMethod,
     result |-> NoResult, reqCost |-> 0, reqError |-> FALSE, script |-> NoScript]

GRPC_clear(t) ==
    [t EXCEPT !.result = NoResult, !.reqError = FALSE, !.reqCost = 0, !.script = NoScript,
              !.called = NoMethod]

GRPC_renderSuccessWhen(raw, dest, fm) ==
    Fill(dest, [Body |-> renderOptions(raw.Body, dest.Body, fm),
                ResponseTime |-> GetParsedString(raw.ResponseTime, fm)])

\* A method that changes loses its descriptor.
GRPC_renderMethod(old, t) ==
    [t EXCEPT !.descriptor = IF t.FullMethod # old THEN NoMethod ELSE @]

GRPC_renderRequestOptions(t) ==
    Then(Fill(t, [FullMethod |-> GetParsedString(t.raw.FullMethod, t.fm),
                  JSONRequest |-> GetParsedString(t.raw.JSONRequest, t.fm),
                  Metadata |-> renderMap(t.raw.Metadata, t.Metadata, t.fm)]),
         LAMBDA u : Okay(GRPC_renderMethod(t.FullMethod, u)))

GRPC_renderTemplate(t) ==
    LET rule(i) == GRPC_renderSuccessWhen(t.raw.SuccessWhen[i], t.SuccessWhen[i], t.fm)
    IN  Then(Fill(t, [Server |-> GetParsedString(t.raw.Server, t.fm),
                      SuccessWhen |-> Gather([i \in DOMAIN t.SuccessWhen |-> rule(i)])]),
             GRPC_renderRequestOptions)

\* findMethodAmongProtofiles, findMethodByReflection, findHealthCheckMethod: the
\* cached descriptor, or the one that is found.
findMethod(t) == IF t.descriptor # NoMethod THEN t.descriptor ELSE t.FullMethod

GRPC_initRule(r) ==
    Fill(r, [respTime |-> ParseDuration(r.ResponseTime, r.respTime), Body |-> Each(genReg, r.Body)])

\* The method is looked for at once where no connection is needed.
GRPC_init(t) ==
    IF t.raw.valid /\ (t.raw.discovery = "reflection" \/ findMethod(t) # "")
    THEN Fill([t EXCEPT !.descriptor = IF t.raw.discovery = "reflection" THEN @ ELSE findMethod(t)],
              [SuccessWhen |-> Each(GRPC_initRule, t.SuccessWhen)])
    ELSE Err(t)

GRPC_run(t, e) ==
    LET failed(x) == [x EXCEPT !.reqError = TRUE]
        found == [t EXCEPT !.descriptor = findMethod(t)]
        called == [found EXCEPT !.called = findMethod(t), !.reqCost = e.cost]
        answered == [called EXCEPT !.result = e.resp.body]
    IN  CASE e.at = "dial" -> failed(t)
          [] (e.at = "find" \/ t.FullMethod = "") /\ t.descriptor = NoMethod -> failed(t)
          [] e.at = "request" -> failed(found)
          [] e.at = "invoke" -> failed(called)
          [] e.at = "script" /\ t.raw.PostScript -> failed(answered)
          [] OTHER -> IF t.raw.PostScript THEN [answered EXCEPT !.script = e.script] ELSE answered

\* Here an error, or no answer, is a reason.
GRPC_checkResult(t) ==
    IF t.reqError \/ t.result = NoResult THEN {FALSE}
    ELSE IF t.SuccessWhen = <<>> /\ ~t.raw.PostScript THEN {TRUE}
    ELSE UNION {LET chk == t.SuccessWhen[i]
                IN  {check(chk.Body[j], t.result) : j \in DOMAIN chk.Body}
                    \cup IF chk.respTime > 0 THEN {t.reqCost <= chk.respTime} ELSE {}
                : i \in DOMAIN t.SuccessWhen}
         \cup IF t.script = NoScript THEN {} ELSE {~t.script.failed}

\* All the rules hold, and there is one.
GRPC_verdict(t, verdicts) ==
    Judge(t.raw.SuccessWhenLogic, verdicts, t.reqError) /\ TRUE \in verdicts

GRPC_getResults(t) ==
    [status |-> IF GRPC_verdict(t, GRPC_checkResult(t)) THEN "OK" ELSE "FAIL"]

-----------------------------------------------------------------------------
(* WebsocketTask                                                           *)

WS_new(raw) ==
    [class |-> "websocket", raw |-> raw, ConfigVars |-> raw.ConfigVars,
     ExtractedVars |-> <<>>, CustomVars |-> <<>>, fm |-> <<>>,
     URL |-> "", Message |-> "", header |-> "", hostname |-> "",
     SuccessWhen |-> [i \in DOMAIN raw.SuccessWhen |->
         [ResponseTime |-> raw.SuccessWhen[i].ResponseTime,
          ResponseMessage |-> [j \in DOMAIN raw.SuccessWhen[i].ResponseMessage |-> Blank],
          Header |-> [j \in DOMAIN raw.SuccessWhen[i].Header |-> Blank]]],
     resp |-> NoResp, responseMessage |-> "", reqCost |-> 0, reqDNSCost |-> 0, reqError |-> FALSE]

\* The response and the message of the last run stay.
WS_clear(t) == [t EXCEPT !.reqCost = 0, !.reqDNSCost = 0, !.reqError = FALSE]

WS_renderSuccessWhen(raw, dest, fm) ==
    Fill(dest, [ResponseMessage |-> renderOptions(raw.ResponseMessage, dest.ResponseMessage, fm),
                Header |-> renderOptions(raw.Header, dest.Header, fm)])

WS_renderTemplate(t) ==
    LET rule(i) == WS_renderSuccessWhen(t.raw.SuccessWhen[i], t.SuccessWhen[i], t.fm)
    IN  Fill(t, [URL |-> GetParsedString(t.raw.URL, t.fm),
                 Message |-> GetParsedString(t.raw.Message, t.fm),
                 header |-> GetParsedString(t.raw.header, t.fm),
                 SuccessWhen |-> Gather([i \in DOMAIN t.SuccessWhen |-> rule(i)])])

WS_initRule(r) ==
    Fill(r, [ResponseTime |-> Each(initLimit, r.ResponseTime),
             ResponseMessage |-> Each(genReg, r.ResponseMessage), Header |-> Each(genReg, r.Header)])

\* The URL is parsed here: run goes to the host of the last init.
WS_init(t) ==
    IF t.raw.valid /\ t.SuccessWhen # <<>>
    THEN Fill([t EXCEPT !.hostname = t.URL], [SuccessWhen |-> Each(WS_initRule, t.SuccessWhen)])
    ELSE Err(t)

\* Mutant: the error of the read is dropped.
WS_runIgnoringRead(t, e) ==
    LET name == t.hostname \notin IPs
        found == IF name THEN [t EXCEPT !.reqDNSCost = e.dns] ELSE t
        connected == [found EXCEPT !.reqCost = e.cost, !.resp = e.resp]
    IN  CASE name /\ e.at = "lookup" -> [t EXCEPT !.reqError = TRUE]
          [] e.at = "dial" -> [found EXCEPT !.reqError = TRUE, !.reqDNSCost = 0]
          [] e.at = "write" -> [connected EXCEPT !.reqError = TRUE]
          [] e.at = "read" -> connected
          [] OTHER -> [connected EXCEPT !.responseMessage = e.message]

WS_run(t, e) ==
    LET name == t.hostname \notin IPs
        found == IF name THEN [t EXCEPT !.reqDNSCost = e.dns] ELSE t
        connected == [found EXCEPT !.reqCost = e.cost, !.resp = e.resp]
    IN  CASE name /\ e.at = "lookup" -> [t EXCEPT !.reqError = TRUE]
          [] e.at = "dial" -> [found EXCEPT !.reqError = TRUE, !.reqDNSCost = 0]
          [] e.at \in {"write", "read"} -> [connected EXCEPT !.reqError = TRUE]
          [] OTHER -> [connected EXCEPT !.responseMessage = e.message]

WS_checkResult(t) ==
    UNION {LET chk == t.SuccessWhen[i]
               cost(v) == IF v.IsContainDNS THEN t.reqCost + t.reqDNSCost ELSE t.reqCost
           IN  {cost(chk.ResponseTime[j]) <= chk.ResponseTime[j].targetTime :
                    j \in {k \in DOMAIN chk.ResponseTime : chk.ResponseTime[k].targetTime > 0}}
               \cup {check(chk.ResponseMessage[j], t.responseMessage) :
                    j \in DOMAIN chk.ResponseMessage}
               \cup IF t.resp = NoResp THEN {}
                    ELSE {check(chk.Header[j], t.resp.header) : j \in DOMAIN chk.Header}
           : i \in DOMAIN t.SuccessWhen}

WS_getResults(t) ==
    [status |-> IF Judge(t.raw.SuccessWhenLogic, WS_checkResult(t), t.reqError)
                THEN "OK" ELSE "FAIL"]

=============================================================================
