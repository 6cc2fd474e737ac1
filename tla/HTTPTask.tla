------------------------------ MODULE HTTPTask ------------------------------
(***************************************************************************)
(* The HTTP dial test: HTTPTask of src/dialtesting/http.go.                *)
(*                                                                         *)
(* A task is a record: what was unmarshalled (raw), what the template made *)
(* of it, and what the last run left.  `e' is what the world does in one   *)
(* run: where the run stops (e.at), the answer, its time, what the post    *)
(* script makes of it, and the boundary the multipart writer draws.        *)
(*                                                                         *)
(* One header stands for the headers, the cookies and the authentication   *)
(* of a request, one pair for its form.  What the callbacks of httptrace   *)
(* measure is only reported and is left out.                               *)
(***************************************************************************)
EXTENDS DialRules

CONSTANTS
    NoResp,       \* nil response
    NoScript,     \* nil script result
    NoBody        \* nil reqBodyBytesBuffer

HTTP_rule(r) ==
    [Header |-> [i \in DOMAIN r.Header |-> Blank],
     Body |-> [i \in DOMAIN r.Body |-> Blank],
     StatusCode |-> [i \in DOMAIN r.StatusCode |->
                        renderSuccessOption(r.StatusCode[i], Blank, <<>>).val],
     ResponseTime |-> "", respTime |-> 0]

\* The task that NewTask makes of its JSON.
HTTP_new(raw) ==
    [class |-> "http", raw |-> raw, ConfigVars |-> raw.ConfigVars,
     ExtractedVars |-> <<>>, CustomVars |-> <<>>, fm |-> <<>>,
     URL |-> "", header |-> "", Body |-> "", Form |-> <<>>,
     SuccessWhen |-> [i \in DOMAIN raw.SuccessWhen |-> HTTP_rule(raw.SuccessWhen[i])],
     bodyType |-> "", reqBodyBytesBuffer |-> NoBody, sent |-> NoBody,
     resp |-> NoResp, respBody |-> "", reqCost |-> 0, reqError |-> FALSE, script |-> NoScript]

\* Mutant: the body is kept.
HTTP_clearKeepingBody(t) ==
    [t EXCEPT !.resp = NoResp, !.respBody = "", !.reqCost = 0, !.reqError = FALSE, !.sent = NoBody]

\* The script result is not reset.
HTTP_clear(t) ==
    [t EXCEPT !.resp = NoResp, !.respBody = "", !.reqCost = 0, !.reqError = FALSE,
              !.reqBodyBytesBuffer = NoBody, !.bodyType = "", !.sent = NoBody]

\* Status codes are never rendered.
HTTP_renderSuccessWhen(raw, dest, fm) ==
    Fill(dest, [Header |-> renderOptions(raw.Header, dest.Header, fm),
                Body |-> renderOptions(raw.Body, dest.Body, fm),
                ResponseTime |-> GetParsedString(raw.ResponseTime, fm)])

HTTP_renderRequestBody(t) ==
    Fill(t, [Body |-> GetParsedString(t.raw.Body, t.fm),
             Form |-> renderMap(t.raw.Form, t.Form, t.fm)])

HTTP_renderRequestOptions(t) == Fill(t, [header |-> GetParsedString(t.raw.header, t.fm)])

\* URL, success rules, request options and body, always from the raw task.
HTTP_renderTemplate(t) ==
    LET rule(i) == HTTP_renderSuccessWhen(t.raw.SuccessWhen[i], t.SuccessWhen[i], t.fm)
    IN  Then(Then(Fill(t, [URL |-> GetParsedString(t.raw.URL, t.fm),
                           SuccessWhen |-> Gather([i \in DOMAIN t.SuccessWhen |-> rule(i)])]),
                  HTTP_renderRequestOptions),
             HTTP_renderRequestBody)

\* Compiling one rule.
HTTP_initRule(r) ==
    Fill(r, [respTime |-> ParseDuration(r.ResponseTime, r.respTime),
             Header |-> Each(genReg, r.Header), Body |-> Each(genReg, r.Body),
             StatusCode |-> Each(genReg, r.StatusCode)])

\* raw.valid: init accepts the timeout, the certificate, the body type and the
\* proxy.
HTTP_init(t) ==
    IF t.raw.valid /\ (t.SuccessWhen # <<>> \/ t.raw.PostScript)
    THEN Fill([t EXCEPT !.bodyType = ""], [SuccessWhen |-> Each(HTTP_initRule, t.SuccessWhen)])
    ELSE Err(t)

\* The body is built once and then taken from the buffer.
HTTP_getRequestBody(t, e) ==
    IF t.reqBodyBytesBuffer # NoBody THEN t
    ELSE IF t.raw.Form # <<>>
    THEN [t EXCEPT !.bodyType = e.boundary,
                   !.reqBodyBytesBuffer = [text |-> "", form |-> t.Form, boundary |-> e.boundary]]
    ELSE [t EXCEPT !.reqBodyBytesBuffer = [text |-> t.Body, form |-> <<>>, boundary |-> ""]]

\* The request that goes out.
HTTP_setupAdvanceOpts(t) ==
    [t EXCEPT !.sent = [URL |-> t.URL, header |-> t.header, ContentType |-> t.bodyType,
                        body |-> t.reqBodyBytesBuffer]]

\* A redirect refused, and an answer in the wrong protocol, leave the response
\* without its body.
HTTP_run(t, e) ==
    LET failed(x) == [x EXCEPT !.reqError = TRUE]
        out == HTTP_setupAdvanceOpts(HTTP_getRequestBody(t, e))
        got == [out EXCEPT !.resp = e.resp]
        read == [got EXCEPT !.respBody = e.resp.body, !.reqCost = e.cost]
    IN  CASE e.at = "request" -> failed(t)
          [] e.at = "do" -> failed(out)
          [] e.at \in {"redirect", "proto"} -> failed(got)
          [] e.at = "read" \/ (e.at = "script" /\ t.raw.PostScript) -> failed(read)
          [] OTHER -> IF t.raw.PostScript THEN [read EXCEPT !.script = e.script] ELSE read

\* checkResult: TRUE for every rule that is met, FALSE for every reason.  Without
\* a response nothing is checked and all is well.
HTTP_checkResult(t) ==
    IF t.resp = NoResp THEN {TRUE}
    ELSE UNION {LET chk == t.SuccessWhen[i]
                IN  {check(chk.Header[j], t.resp.header) : j \in DOMAIN chk.Header}
                    \cup {check(chk.Body[j], t.respBody) : j \in DOMAIN chk.Body}
                    \cup {check(chk.StatusCode[j], t.resp.status) : j \in DOMAIN chk.StatusCode}
                    \cup IF chk.respTime > 0 THEN {t.reqCost <= chk.respTime} ELSE {}
                : i \in DOMAIN t.SuccessWhen}
         \cup IF t.script = NoScript THEN {} ELSE {~t.script.failed}

\* getResults.  The answer is shown when the run has a reason to fail.
HTTP_verdict(t, verdicts) ==
    LET ok == Judge(t.raw.SuccessWhenLogic, verdicts, t.reqError)
        reasons == (FALSE \in verdicts \/ t.reqError) /\ ~ok
    IN  [status |-> IF ok THEN "OK" ELSE "FAIL",
         fail_reason |-> reasons,
         response_body |-> IF reasons /\ ~t.raw.NoSaveResponseBody /\ t.resp # NoResp
                           THEN t.respBody ELSE ""]

HTTP_getResults(t) == HTTP_verdict(t, HTTP_checkResult(t))

=============================================================================
