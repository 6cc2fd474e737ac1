------------------------------- MODULE TCPTask -------------------------------
(***************************************************************************)
(* The TCP, ICMP and TLS dial tests: TCPTask, ICMPTask and SSLTask of      *)
(* src/dialtesting.  `e' is what the world does in one run: where it stops *)
(* (e.at), the times, the message, the certificate and the route.          *)
(***************************************************************************)
EXTENDS DialRules

CONSTANT IPs      \* the hosts that are addresses and need no lookup

\* A limit on a time: its target is a duration, compiled by init.
Limit(target, dns) == [Target |-> target, IsContainDNS |-> dns, targetTime |-> 0]

initLimit(v) ==
    IF v.Target \in DOMAIN Durations THEN Okay([v EXCEPT !.targetTime = Durations[v.Target]])
    ELSE Err(v)

\* The rules of a traceroute; a route without hops fails every rule.
checkHops(enabled, hops, route) ==
    IF ~enabled THEN {}
    ELSE IF route = <<>> THEN {FALSE}
    ELSE {checkValue(hops[j], Len(route)) : j \in DOMAIN hops}

-----------------------------------------------------------------------------
(* TCPTask                                                                 *)

TCP_new(raw) ==
    [class |-> "tcp", raw |-> raw, ConfigVars |-> raw.ConfigVars,
     ExtractedVars |-> <<>>, CustomVars |-> <<>>, fm |-> <<>>,
     Host |-> "", Port |-> "", Message |-> "", EnableTraceroute |-> raw.EnableTraceroute,
     SuccessWhen |-> [i \in DOMAIN raw.SuccessWhen |->
         [ResponseTime |-> raw.SuccessWhen[i].ResponseTime, Hops |-> raw.SuccessWhen[i].Hops,
          ResponseMessage |-> Each(LAMBDA o : renderSuccessOption(o, Blank, <<>>),
                                   raw.SuccessWhen[i].ResponseMessage).val]],
     reqCost |-> 0, reqDNSCost |-> 0, reqError |-> FALSE, responseMessage |-> "",
     traceroute |-> <<>>]

\* The DNS time and the message of the last run stay.
TCP_clear(t) ==
    [t EXCEPT !.reqCost = 0, !.reqError = FALSE, !.traceroute = <<>>]

\* The success rules are not rendered.
TCP_renderTemplate(t) ==
    Fill(t, [Host |-> GetParsedString(t.raw.Host, t.fm), Port |-> GetParsedString(t.raw.Port, t.fm),
             Message |-> GetParsedString(t.raw.Message, t.fm)])

TCP_initRule(r) ==
    Fill(r, [ResponseTime |-> Each(initLimit, r.ResponseTime),
             ResponseMessage |-> Each(genReg, r.ResponseMessage)])

\* A rule on the hops turns the traceroute on.
HasHops(t) == \E i \in DOMAIN t.SuccessWhen : t.SuccessWhen[i].Hops # <<>>

TCP_init(t) ==
    IF t.raw.valid /\ t.SuccessWhen # <<>>
    THEN Fill([t EXCEPT !.EnableTraceroute = @ \/ HasHops(t)],
              [SuccessWhen |-> Each(TCP_initRule, t.SuccessWhen)])
    ELSE Err(t)

\* A name is looked up; a dial that fails leaves no DNS time; the message is sent
\* and answered when there is one; the traceroute runs whatever happened.
TCP_run(t, e) ==
    LET name == t.Host \notin IPs
        found == IF name THEN [t EXCEPT !.reqDNSCost = e.dns] ELSE t
        dialled ==
            CASE e.at = "dial" -> [found EXCEPT !.reqError = TRUE, !.reqDNSCost = 0]
              [] t.Message # "" /\ e.at \in {"write", "read"} ->
                    [found EXCEPT !.reqCost = e.cost, !.reqError = TRUE]
              [] t.Message # "" -> [found EXCEPT !.reqCost = e.cost, !.responseMessage = e.message]
              [] OTHER -> [found EXCEPT !.reqCost = e.cost]
    IN  IF name /\ e.at = "lookup" THEN [t EXCEPT !.reqError = TRUE]
        ELSE IF ~t.EnableTraceroute THEN dialled
        ELSE IF e.noroute THEN [dialled EXCEPT !.reqError = TRUE]
        ELSE [dialled EXCEPT !.traceroute = e.route]

TCP_checkResult(t) ==
    UNION {LET chk == t.SuccessWhen[i]
               cost(v) == IF v.IsContainDNS THEN t.reqCost + t.reqDNSCost ELSE t.reqCost
           IN  {cost(chk.ResponseTime[j]) < chk.ResponseTime[j].targetTime :
                    j \in DOMAIN chk.ResponseTime}
               \cup {check(chk.ResponseMessage[j], t.responseMessage) :
                    j \in DOMAIN chk.ResponseMessage}
               \cup checkHops(t.EnableTraceroute, chk.Hops, t.traceroute)
           : i \in DOMAIN t.SuccessWhen}

TCP_getResults(t) ==
    [status |-> IF Judge(t.raw.SuccessWhenLogic, TCP_checkResult(t), t.reqError)
                THEN "OK" ELSE "FAIL"]

-----------------------------------------------------------------------------
(* ICMPTask                                                                *)

ICMP_new(raw) ==
    [class |-> "icmp", raw |-> raw, ConfigVars |-> raw.ConfigVars,
     ExtractedVars |-> <<>>, CustomVars |-> <<>>, fm |-> <<>>,
     Host |-> "", PacketCount |-> raw.PacketCount, EnableTraceroute |-> raw.EnableTraceroute,
     SuccessWhen |-> raw.SuccessWhen,
     rtt |-> 0, packetLossPercent |-> 0, recvPackets |-> 0, sentPackets |-> 0,
     reqError |-> FALSE, traceroute |-> <<>>]

ICMP_clear(t) ==
    [t EXCEPT !.rtt = 0, !.recvPackets = 0, !.sentPackets = 0, !.packetLossPercent = 100,
              !.reqError = FALSE, !.traceroute = <<>>]

ICMP_renderTemplate(t) == Fill(t, [Host |-> GetParsedString(t.raw.Host, t.fm)])

ICMP_initRule(r) == Fill(r, [ResponseTime |-> Each(initLimit, r.ResponseTime)])

ICMP_init(t) ==
    IF t.raw.valid /\ t.SuccessWhen # <<>>
    THEN Fill([t EXCEPT !.PacketCount = IF @ <= 0 THEN 3 ELSE @,
                        !.EnableTraceroute = @ \/ HasHops(t)],
              [SuccessWhen |-> Each(ICMP_initRule, t.SuccessWhen)])
    ELSE Err(t)

\* What count pings give: e.pings[i] is the i-th round trip, 0 for a packet that
\* is not answered or not sent because too many pings are under way.  One rtt
\* stands for the minimum, the average, the maximum and the deviation: the
\* largest is taken.
pingTarget(e, count) ==
    LET answered == {i \in 1..count : e.pings[i] > 0}
    IN  [PacketsSent |-> count, PacketsRecv |-> Cardinality(answered),
         MaxRtt |-> Max({0} \cup {e.pings[i] : i \in answered}),
         PacketLoss |-> ((count - Cardinality(answered)) * 100) \div count]

ICMP_pinged(t, stats) ==
    [t EXCEPT !.packetLossPercent = stats.PacketLoss, !.sentPackets = stats.PacketsSent,
              !.recvPackets = stats.PacketsRecv, !.rtt = stats.MaxRtt]

\* The traceroute runs whatever the pings gave.
ICMP_run(t, e) ==
    LET pinged == IF e.at = "ping" THEN [t EXCEPT !.reqError = TRUE]
                  ELSE ICMP_pinged(t, pingTarget(e, t.PacketCount))
    IN  IF ~t.EnableTraceroute THEN pinged
        ELSE IF e.noroute \/ (t.Host \notin IPs /\ e.at = "lookup")
        THEN [pinged EXCEPT !.reqError = TRUE]
        ELSE [pinged EXCEPT !.traceroute = e.route]

ICMP_checkResult(t) ==
    UNION {LET chk == t.SuccessWhen[i]
           IN  {t.packetLossPercent # 100
                /\ checkValue([Op |-> chk.ResponseTime[j].Op,
                               Target |-> chk.ResponseTime[j].targetTime], t.rtt) :
                    j \in DOMAIN chk.ResponseTime}
               \cup {checkValue(chk.PacketLossPercent[j], t.packetLossPercent) :
                    j \in DOMAIN chk.PacketLossPercent}
               \cup {checkValue(chk.Packets[j], t.recvPackets) : j \in DOMAIN chk.Packets}
               \cup checkHops(t.EnableTraceroute, chk.Hops, t.traceroute)
           : i \in DOMAIN t.SuccessWhen}

ICMP_getResults(t) ==
    [status |-> IF Judge(t.raw.SuccessWhenLogic, ICMP_checkResult(t), t.reqError)
                THEN "OK" ELSE "FAIL"]

-----------------------------------------------------------------------------
(* SSLTask                                                                 *)

SSL_new(raw) ==
    [class |-> "ssl", raw |-> raw, ConfigVars |-> raw.ConfigVars,
     ExtractedVars |-> <<>>, CustomVars |-> <<>>, fm |-> <<>>,
     Host |-> "", Port |-> "", ServerName |-> "",
     SuccessWhen |-> [i \in DOMAIN raw.SuccessWhen |->
         [ResponseTime |-> "", respTime |-> 0,
          CertificateExpiresInDays |-> raw.SuccessWhen[i].CertificateExpiresInDays,
          Subject |-> [j \in DOMAIN raw.SuccessWhen[i].Subject |-> Blank]]],
     reqCost |-> 0, reqError |-> FALSE, expires |-> 0, subject |-> ""]

SSL_clear(t) ==
    [t EXCEPT !.reqCost = 0, !.reqError = FALSE, !.expires = 0, !.subject = ""]

\* The subject stands for the subject, the issuer and the TLS version.
SSL_renderSuccessWhen(raw, dest, fm) ==
    Fill(dest, [ResponseTime |-> GetParsedString(raw.ResponseTime, fm),
                Subject |-> renderOptions(raw.Subject, dest.Subject, fm)])

SSL_renderTemplate(t) ==
    LET rule(i) == SSL_renderSuccessWhen(t.raw.SuccessWhen[i], t.SuccessWhen[i], t.fm)
    IN  Fill(t, [Host |-> GetParsedString(t.raw.Host, t.fm),
                 Port |-> GetParsedString(t.raw.Port, t.fm),
                 ServerName |-> GetParsedString(t.raw.ServerName, t.fm),
                 SuccessWhen |-> Gather([i \in DOMAIN t.SuccessWhen |-> rule(i)])])

SSL_initRule(r) ==
    Fill(r, [respTime |-> ParseDuration(r.ResponseTime, r.respTime),
             Subject |-> Each(genReg, r.Subject)])

SSL_init(t) ==
    IF t.raw.valid /\ t.SuccessWhen # <<>>
    THEN Fill(t, [SuccessWhen |-> Each(SSL_initRule, t.SuccessWhen)])
    ELSE Err(t)

SSL_run(t, e) ==
    IF e.at \in {"dial", "handshake"} THEN [t EXCEPT !.reqError = TRUE]
    ELSE [t EXCEPT !.reqCost = e.cost, !.expires = e.cert.expires, !.subject = e.cert.subject]

SSL_checkResult(t) ==
    UNION {LET chk == t.SuccessWhen[i]
           IN  (IF chk.respTime > 0 THEN {t.reqCost < chk.respTime} ELSE {})
               \cup {checkValue(chk.CertificateExpiresInDays[j], t.expires) :
                    j \in DOMAIN chk.CertificateExpiresInDays}
               \cup {check(chk.Subject[j], t.subject) : j \in DOMAIN chk.Subject}
           : i \in DOMAIN t.SuccessWhen}

\* The rules are looked at only when there was no error.
SSL_getResults(t) ==
    [status |-> IF ~t.reqError /\ Judge(t.raw.SuccessWhenLogic, SSL_checkResult(t), FALSE)
                THEN "OK" ELSE "FAIL"]

=============================================================================
