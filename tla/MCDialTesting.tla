--------------------------- MODULE MCDialTesting ---------------------------
(***************************************************************************)
(* Dial tests of every class, one at a time, over MaxRuns runs with global *)
(* variables that change in between.  What the world gives in run n is     *)
(* marked with n, so that a value of another run is seen for what it is.   *)
(***************************************************************************)
EXTENDS DialTesting

Good == <<"good1", "good2", "good3">>
Bad == <<"bad1", "bad2", "bad3">>
Token == <<"tok1", "tok2", "tok3">>
Boundary == <<"b1", "b2", "b3">>

MCHolds == {<<"200", "200">>} \cup {<<Good[i], "good">> : i \in 1..3} \cup {<<Bad[i], "bad">> : i \in 1..3}
MCDurations == [d \in {"2s", "9s"} |-> IF d = "2s" THEN 2 ELSE 9]

\* A text and a duration: good ones, others, ones that do not compile, none.
Global(v, d) == [g1 |-> [Value |-> v, Secure |-> FALSE], g2 |-> [Value |-> d, Secure |-> FALSE]]
MCGlobalValues ==
    {Global("good", "9s"), Global("bad", ""), Global("(", "x"), Global("", "2s"), [x \in {} |-> x]}

V == ConfigVar("v", "good", "g1", FALSE)
D == ConfigVar("d", "9s", "g2", FALSE)

Rule == [Header |-> <<>>, Body |-> <<>>, StatusCode |-> <<>>, ResponseTime |-> Lit("")]

HTTPRaw ==
    [URL |-> Lit("url"), header |-> Lit(""), Body |-> Lit(""), Form |-> <<>>,
     SuccessWhen |-> <<>>, SuccessWhenLogic |-> "and", PostScript |-> FALSE, ConfigVars |-> <<>>,
     valid |-> TRUE, NoSaveResponseBody |-> FALSE, CurStatus |-> "OK"]

\* Every rule, a body and a script; then a form, a pattern, and one rule is enough.
HTTPAll ==
    [HTTPRaw EXCEPT !.URL = Ref("v"), !.header = Ref("v"), !.Body = Ref("v"),
                    !.PostScript = TRUE, !.ConfigVars = <<V>>,
                    !.SuccessWhen = <<[Rule EXCEPT !.Body = <<Option("Contains", Lit("good"))>>,
                                                   !.StatusCode = <<Option("Is", Lit("200"))>>,
                                                   !.ResponseTime = Lit("2s")]>>]

HTTPSome ==
    [HTTPRaw EXCEPT !.Form = <<[k |-> Ref("v"), v |-> Ref("v")]>>, !.ConfigVars = <<V, D>>,
                    !.SuccessWhenLogic = "or",
                    !.SuccessWhen = <<[Rule EXCEPT !.Body = <<Option("MatchRegex", Ref("v"))>>,
                                                   !.Header = <<Option("Is", Ref("v"))>>],
                                      [Rule EXCEPT !.StatusCode = <<Option("NotContains", Lit("200"))>>,
                                                   !.ResponseTime = Ref("d")]>>]

HTTPNoRule == HTTPRaw

-----------------------------------------------------------------------------

DialRaw ==
    [ConfigVars |-> <<V, D>>, SuccessWhenLogic |-> "and", valid |-> TRUE, CurStatus |-> "OK"]

With(r, s) == [f \in DOMAIN r \cup DOMAIN s |-> IF f \in DOMAIN s THEN s[f] ELSE r[f]]

TCPRaw(logic, host) ==
    With(DialRaw,
         [Host |-> Lit(host), Port |-> Lit("80"), Message |-> Ref("v"), EnableTraceroute |-> FALSE,
          SuccessWhenLogic |-> logic,
          SuccessWhen |-> <<[ResponseTime |-> <<Limit("2s", TRUE), Limit("9s", FALSE)>>,
                             Hops |-> IF logic = "or" THEN <<[Op |-> "leq", Target |-> 1]>> ELSE <<>>,
                             ResponseMessage |-> <<Option("Contains", Lit("good"))>>]>>])

ICMPRaw ==
    With(DialRaw,
         [Host |-> Lit("host"), PacketCount |-> 2, EnableTraceroute |-> FALSE,
          SuccessWhen |-> <<[ResponseTime |-> <<[Op |-> "lt", Target |-> "2s", targetTime |-> 0]>>,
                             PacketLossPercent |-> <<[Op |-> "lt", Target |-> 100]>>,
                             Packets |-> <<[Op |-> "geq", Target |-> 1]>>,
                             Hops |-> <<[Op |-> "gt", Target |-> 0]>>]>>])

SSLRaw ==
    With(DialRaw,
         [Host |-> Lit("host"), Port |-> Lit("443"), ServerName |-> Ref("v"),
          SuccessWhen |-> <<[ResponseTime |-> Ref("d"),
                             CertificateExpiresInDays |-> <<[Op |-> "gt", Target |-> 3]>>,
                             Subject |-> <<Option("MatchRegex", Ref("v"))>>]>>])

GRPCRaw(discovery) ==
    With(DialRaw,
         [Server |-> Lit("server"), FullMethod |-> Ref("v"), JSONRequest |-> Ref("v"),
          Metadata |-> <<[k |-> Ref("v"), v |-> Ref("v")]>>, discovery |-> discovery,
          PostScript |-> TRUE,
          SuccessWhen |-> <<[ResponseTime |-> Ref("d"),
                             Body |-> <<Option("NotMatchRegex", Lit("bad"))>>]>>])

WSRaw ==
    With(DialRaw,
         [URL |-> Ref("v"), Message |-> Ref("v"), header |-> Ref("v"),
          SuccessWhen |-> <<[ResponseTime |-> <<Limit("9s", TRUE)>>,
                             ResponseMessage |-> <<Option("Contains", Lit("good"))>>,
                             Header |-> <<Option("IsNot", Lit("h2"))>>]>>])

-----------------------------------------------------------------------------
(* Multi tasks: a login whose token the next step sends, with retries; a   *)
(* step that may fail before one that needs its token; steps that are not  *)
(* steps.                                                                  *)

Token1 == [Name |-> "tok", Field |-> "tok", Secure |-> FALSE, Value |-> ""]

HTTPStep(raw, retry, allow, evs) ==
    [Type |-> "http", AllowFailure |-> allow, Retry |-> retry, task |-> raw, json |-> TRUE,
     ExtractedVars |-> evs, result |-> Nil, script |-> NoScript]

Wait == [HTTPStep(HTTPRaw, 0, FALSE, <<>>) EXCEPT !.Type = "wait"]
Other == [Wait EXCEPT !.Type = "other"]
Garbled == [HTTPStep(HTTPRaw, 0, TRUE, <<>>) EXCEPT !.json = FALSE]

Login ==
    [HTTPRaw EXCEPT !.PostScript = TRUE,
                    !.SuccessWhen = <<[Rule EXCEPT !.Body = <<Option("Contains", Lit("good"))>>]>>]
Use == [Login EXCEPT !.URL = Ref("tok"), !.Form = <<[k |-> Ref("tok"), v |-> Ref("tok")]>>]
UseV == [Login EXCEPT !.URL = Ref("v"), !.ConfigVars = <<ConfigVar("v", "own", "", FALSE)>>]

Multi(steps, configVars) == Multi_new([ConfigVars |-> configVars, Steps |-> steps])

MCTasks ==
    {HTTP_new(HTTPAll), HTTP_new(HTTPSome), HTTP_new(HTTPNoRule),
     TCP_new(TCPRaw("and", "host")), TCP_new(TCPRaw("or", "1.1.1.1")),
     ICMP_new(ICMPRaw), SSL_new(SSLRaw), SSL_new([SSLRaw EXCEPT !.CurStatus = "stop"]),
     HTTP_new([HTTPAll EXCEPT !.CurStatus = "stop"]), GRPC_new(GRPCRaw("reflection")),
     GRPC_new(GRPCRaw("proto")), WS_new(WSRaw),
     Multi(<<HTTPStep(Login, 1, FALSE, <<Token1>>), Wait, HTTPStep(Use, 0, FALSE, <<Token1>>)>>, <<>>),
     Multi(<<HTTPStep(Login, 0, TRUE, <<Token1>>), HTTPStep(Use, 1, FALSE, <<Token1>>), Wait>>, <<V>>),
     Multi(<<Garbled, HTTPStep(UseV, 0, FALSE, <<>>)>>, <<V>>),
     Multi(<<HTTPStep(Login, 0, FALSE, <<>>), Other>>, <<>>),
     Multi(<<>>, <<>>)}

-----------------------------------------------------------------------------

Answer(i) == [status |-> "200", header |-> "h1", body |-> Good[i]]

\* A run that goes well.
Fine(i) ==
    [at |-> "done", resp |-> Answer(i), cost |-> 1, dns |-> 0, message |-> Good[i],
     script |-> [failed |-> FALSE, vars |-> [tok |-> Token[i]]], boundary |-> Boundary[i],
     route |-> <<"hop">>, noroute |-> FALSE, pings |-> <<1, 1>>,
     cert |-> [expires |-> 9, subject |-> Good[i]]]

Stops == [c \in {"http", "tcp", "icmp", "ssl", "grpc", "websocket", "multi"} |->
    CASE c = "http" -> {"before", "request", "do", "redirect", "proto", "read", "script"}
      [] c = "multi" -> {"before", "do", "script"}
      [] c = "tcp" -> {"lookup", "dial", "write", "read"}
      [] c = "icmp" -> {"ping", "lookup"}
      [] c = "ssl" -> {"dial", "handshake"}
      [] c = "grpc" -> {"dial", "find", "request", "invoke", "script"}
      [] OTHER -> {"lookup", "dial", "write", "read"}]

\* Where a run of the task can stop.
CanStop(t, at) ==
    /\ at = "script" /\ t.class # "multi" => t.raw.PostScript
    /\ at = "lookup" /\ t.class = "tcp" => t.raw.Host.lit \notin IPs
    /\ at = "find" => t.raw.discovery = "reflection" /\ t.descriptor = NoMethod

MCWorlds(i, t) ==
    IF i > MaxRuns \/ i = 0 THEN {}
    ELSE LET f == Fine(i)
             web == {[f EXCEPT !.resp.body = Bad[i]],
                     [f EXCEPT !.script = [failed |-> TRUE, vars |-> <<>>]]}
         IN  {f} \cup {[f EXCEPT !.at = at] : at \in {s \in Stops[t.class] : CanStop(t, s)}}
             \cup CASE t.class = "multi" -> web
                    [] t.class = "grpc" -> web \cup {[f EXCEPT !.cost = 3]}
                    [] t.class = "http" ->
                         web \cup {[f EXCEPT !.resp.status = "500"], [f EXCEPT !.cost = 3]}
                    [] t.class = "tcp" ->
                         {[f EXCEPT !.message = Bad[i]], [f EXCEPT !.dns = 2],
                          [f EXCEPT !.message = Bad[i], !.cost = 9, !.dns = 9, !.route = <<"hop", "hop">>]}
                         \cup {e \in {[f EXCEPT !.noroute = TRUE]} : t.raw.SuccessWhenLogic = "or"}
                    [] t.class = "icmp" ->
                         {[f EXCEPT !.pings = p] : p \in {<<0, 0>>, <<0, 3>>, <<0, 1>>}}
                         \cup {[f EXCEPT !.noroute = TRUE], [f EXCEPT !.route = <<>>]}
                    [] t.class = "ssl" ->
                         {[f EXCEPT !.cert = c] : c \in {[expires |-> 3, subject |-> Good[i]],
                                                         [expires |-> 9, subject |-> Bad[i]]}}
                         \cup {[f EXCEPT !.cost = c] : c \in {2, 9}}
                    [] OTHER -> {[f EXCEPT !.message = Bad[i]], [f EXCEPT !.resp.header = "h2"],
                                 [f EXCEPT !.dns = 9]}

=============================================================================
