----------------------------- MODULE HttpSender -----------------------------
(***************************************************************************)
(* One call of axis2_http_sender_send (transport/http/sender/http_sender.c)*)
(* on its HTTP client (http_client.c): the request is sent, and sent again *)
(* with credentials when the server (401) or a proxy (407) asks for them.  *)
(* A caller may force authentication, in which case the credentials of the *)
(* Basic scheme are added to the first request and those of the Digest     *)
(* scheme after a HEAD request that fetches the challenge; it may also     *)
(* test whether authentication is needed.                                  *)
(*                                                                         *)
(* One thread runs this code.  What is hard is the peer: it may refuse the *)
(* connection, close it or fall silent at any exchange, answer each of     *)
(* them differently, and leave out or abbreviate its challenge.  A request *)
(* and its answer are two steps, since a request whose answer is lost may  *)
(* have been executed.  The libcurl build of the sender is left out.       *)
(***************************************************************************)
EXTENDS Integers

CONSTANT MaxInterim    \* bound: status lines below 200, or unreadable, per call

ASSUME SenderAssumption == MaxInterim \in Nat

\* What a challenge offers: nothing; a scheme without parameters ("bare", no
\* space follows); Basic; a Digest that can be answered; one that the sender
\* refuses (no data, a parameter without quotes, a qop other than auth); one
\* whose parameters are missing or whose quotes are not closed ("broken"); and
\* a scheme that is not supported.
Schemes == {"none", "bare", "Basic", "Digest", "refused", "broken", "NTLM"}
Forced == {"none", "Basic", "Digest", "NTLM"}

\* The properties of the message: its kind (invalid for one the sender refuses
\* to serialize), whether it is one-way, the authentication types forced (the
\* options set a force flag only together with a type), the tests asked for,
\* and whether a user name and a password are configured.
Calls ==
    [kind : {"soap", "rest", "invalid"}, oneWay : BOOLEAN, proxy : Forced, http : Forced,
     testProxy : BOOLEAN, testHttp : BOOLEAN, creds : BOOLEAN]

OK == 200
Unauthorized == 401
Other == 404
ProxyRequired == 407
Error == 500
Closed == 0
NoStatus == -1

\* The answers a peer gives: the status, the challenge of the server and of the
\* proxy, and for an error whether a SOAP fault is attached.
Answers ==
    [status : {OK, Other, Error}, www : {"none"}, proxy : {"none"}, xml : {FALSE}]
    \cup [status : {Error}, www : {"none"}, proxy : {"none"}, xml : {TRUE}]
    \cup [status : {Unauthorized}, www : Schemes, proxy : {"none"}, xml : {FALSE}]
    \cup [status : {ProxyRequired}, www : {"none"}, proxy : Schemes, xml : {FALSE}]

NoResponse == [status |-> NoStatus, www |-> "none", proxy |-> "none", xml |-> FALSE]

VARIABLES
    call,        \* the message and its properties
    pc,          \* where axis2_http_sender_send is
    then,        \* where it goes on after the exchange under way
    method,      \* HEAD or the message's own method
    status,      \* status_code
    added,       \* http_auth_header_added
    fhead,       \* force_http_auth_with_head
    creds,       \* the credentials that the request carries
    response,    \* client->response
    fresh,       \* whether the last exchange set it
    connected,   \* whether the last exchange opened a connection
    interim,     \* status lines skipped
    sent,        \* the exchanges with the message's own method, and all of them
    executed,    \* exchanges after which the peer may have executed the message
    auth,        \* auth_failed, required_auth_is_http and auth_type of the message
    result       \* what the call returned, or how it ended

msgvars == <<call, creds, auth>>
clientvars == <<response, fresh, connected, interim, sent, executed>>
vars == <<msgvars, clientvars, pc, then, method, status, added, fhead, result>>
-----------------------------------------------------------------------------
ForceProxyBasic == ~call.testProxy /\ call.proxy = "Basic"
ForceProxyHead == ~call.testProxy /\ call.proxy \in {"Digest", "NTLM"}
ForceHttpBasic == ~call.testHttp /\ call.http = "Basic"
ForceHttpHead == ~call.testHttp /\ call.http \in {"Digest", "NTLM"}

Goto(p) == pc' = p

\* The next exchange, with the HEAD method or the message's own, and where the
\* sender goes on after it.
Exchange(m, p) ==
    /\ pc' = "send"
    /\ method' = m
    /\ then' = p

Stay(p) == Goto(p) /\ UNCHANGED <<then, method>>

\* Mutant: a response without a challenge is not expected.
HttpScheme_Unchecked == IF response.www = "none" THEN "bare" ELSE response.www

\* The scheme that axis2_http_sender_configure_http_auth acts on, "bare" when
\* it looks for a space that is not there: a forced Digest is compared with
\* the challenge of the last response, or taken from the option without one.
HttpScheme ==
    CASE call.http = "none" -> response.www
      [] call.http = "Digest" /\ response.www = "none" -> "bare"
      [] call.http = "Digest" /\ response.www = "Basic" -> "none"
      [] call.http = "Digest" -> response.www
      [] OTHER -> call.http

\* The same of axis2_http_sender_configure_proxy_auth.  A forced Digest has no
\* challenge to answer: the digest code gets no header data and fails.
ProxyScheme ==
    CASE call.proxy = "none" -> response.proxy
      [] call.proxy = "Digest" -> "none"
      [] OTHER -> call.proxy

\* What follows a null pointer ends the process.
Crash ==
    /\ result' = "crash"
    /\ pc' = "done"
    /\ UNCHANGED <<msgvars, clientvars, then, method, status, added, fhead>>

\* The pointers followed without a test: the space after the scheme, and, once
\* a user name and a password are found, the end of each quoted parameter of a
\* Digest and the realm, nonce and qop of which the digest is computed.
NullPointer(scheme) == scheme = "bare" \/ (scheme = "broken" /\ call.creds)

\* Credentials are added for the two schemes supported; the result of a
\* configuration that fails is not looked at.
Adds(scheme) == scheme \in {"Basic", "Digest"} /\ call.creds

ConfigureHttp ==
    /\ ~NullPointer(HttpScheme)
    /\ creds' = IF Adds(HttpScheme) THEN creds \cup {"http"} ELSE creds

ConfigureProxy ==
    /\ ~NullPointer(ProxyScheme)
    /\ creds' = IF Adds(ProxyScheme) THEN creds \cup {"proxy"} ELSE creds

\* axis2_http_sender_set_http_auth_type and set_proxy_auth_type.
SupportedType(scheme) ==
    CASE scheme = "Basic" -> "Basic"
      [] scheme \in {"Digest", "refused", "broken"} -> "Digest"
      [] OTHER -> "none"

Flag(http) == auth' = [auth EXCEPT !.failed = TRUE, !.isHttp = http]
FlagType(http, scheme) ==
    auth' = [failed |-> TRUE, isHttp |-> http, type |-> SupportedType(scheme)]
-----------------------------------------------------------------------------
(* axis2_http_client_send and axis2_http_client_recieve_header.            *)

\* The result of the send is ignored: the receive finds no connection.
Send ==
    /\ pc = "send"
    /\ connected' \in BOOLEAN
    /\ fresh' = FALSE
    /\ sent' = [all |-> sent.all + 1,
                own |-> IF method = "own" /\ connected' THEN sent.own + 1 ELSE sent.own]
    /\ pc' = "receive"
    /\ UNCHANGED <<msgvars, response, interim, executed, then, method, status, added, fhead, result>>

\* Whether the message may have been executed when the exchange ends like this.
MayExecute(s) ==
    IF method = "own" /\ s \notin {Unauthorized, ProxyRequired} THEN executed + 1 ELSE executed

Received(s) ==
    /\ status' = s
    /\ pc' = then
    /\ UNCHANGED <<msgvars, connected, interim, sent, then, method, added, fhead, result>>

\* Mutant: the receive time-out is not set.
NoAnswer_Blocks ==
    /\ pc = "receive"
    /\ ~connected
    /\ Received(NoStatus)
    /\ UNCHANGED <<executed, response, fresh>>

\* The connection failed, or a time-out ends the wait for the status line.
NoAnswer ==
    /\ pc = "receive"
    /\ Received(NoStatus)
    /\ executed' = IF connected THEN MayExecute(NoStatus) ELSE executed
    /\ UNCHANGED <<response, fresh>>

\* The peer closes the connection before a status line.
PeerCloses ==
    /\ pc = "receive"
    /\ connected
    /\ Received(Closed)
    /\ executed' = MayExecute(Closed)
    /\ UNCHANGED <<response, fresh>>

\* A status below 200, and a line that is not a status line, are skipped.
SkipLine ==
    /\ pc = "receive"
    /\ connected
    /\ interim < MaxInterim
    /\ interim' = interim + 1
    /\ UNCHANGED <<msgvars, response, fresh, connected, sent, executed, pc, then, method, status,
                   added, fhead, result>>

\* An answer replaces the response; a body without a content type is an error
\* after that.
Answer ==
    /\ pc = "receive"
    /\ connected
    /\ \E a \in Answers, typed \in BOOLEAN :
          /\ response' = a
          /\ executed' = MayExecute(a.status)
          /\ Received(IF typed THEN a.status ELSE NoStatus)
    /\ fresh' = TRUE

\* The loop over the headers has no exit for a connection that is closed, or
\* falls silent, before the empty line.
HeadersEnd ==
    /\ pc = "receive"
    /\ connected
    /\ pc' = "spin"
    /\ response' \in Answers
    /\ executed' = MayExecute(response'.status)
    /\ UNCHANGED <<msgvars, fresh, connected, interim, sent, then, method, status, added, fhead,
                   result>>
-----------------------------------------------------------------------------
(* axis2_http_sender_send.                                                 *)

\* No URL, no output, no payload, a message that cannot be serialized, or one of
\* SOAP 1.1 that is to go by GET, HEAD, PUT or DELETE, which have no SOAPAction.
Unsendable == call.kind = "invalid"

\* The checks before the request is sent.
Refuse ==
    /\ pc = "begin"
    /\ Unsendable
    /\ result' = "FAILURE"
    /\ pc' = "done"
    /\ UNCHANGED <<msgvars, clientvars, then, method, status, added, fhead>>

\* The first exchange.
Begin ==
    /\ pc = "begin"
    /\ ~Unsendable
    /\ \/ /\ ForceProxyBasic \/ ForceProxyHead
          /\ status' = ProxyRequired
          /\ Stay("proxy")
          /\ UNCHANGED <<creds, added>>
       \/ /\ ~(ForceProxyBasic \/ ForceProxyHead)
          /\ ForceHttpBasic
          /\ ConfigureHttp
          /\ added' = TRUE
          /\ Exchange("own", "proxy")
          /\ UNCHANGED status
       \/ /\ ~(ForceProxyBasic \/ ForceProxyHead)
          /\ ~ForceHttpBasic
          /\ IF ForceHttpHead THEN Exchange("HEAD", "head") ELSE Exchange("own", "proxy")
          /\ UNCHANGED <<status, creds, added>>
    /\ UNCHANGED <<call, auth, clientvars, fhead, result>>

\* The answer to the HEAD request of a forced Digest.
AfterHead ==
    /\ pc = "head"
    /\ \/ status = Unauthorized /\ NullPointer(HttpScheme) /\ Crash
       \/ /\ status = Unauthorized
          /\ ConfigureHttp
          /\ added' = TRUE
          /\ Exchange("own", "head_own")
          /\ UNCHANGED <<call, auth, clientvars, status, fhead, result>>
       \/ /\ status = ProxyRequired
          /\ Stay("proxy")
          /\ UNCHANGED <<msgvars, clientvars, status, added, fhead, result>>
       \/ /\ status \notin {Unauthorized, ProxyRequired}
          /\ Exchange("own", "head_own")
          /\ UNCHANGED <<msgvars, clientvars, status, added, fhead, result>>

AfterHeadOwn ==
    /\ pc = "head_own"
    /\ added' = (added /\ status # Unauthorized)
    /\ fhead' = (fhead /\ status # Unauthorized)
    /\ Stay("proxy")
    /\ UNCHANGED <<msgvars, clientvars, status, result>>

\* Once the proxy's credentials are configured, forced server credentials that
\* are still missing are treated as if the server had asked for them.
AfterProxyConfigured(p) ==
    IF (fhead \/ ForceHttpBasic) /\ ~added
    THEN status' = Unauthorized /\ Stay(p)
    ELSE Exchange("own", p) /\ UNCHANGED status

\* Mutant: the request is repeated after a time-out too.
ProxyAsked_Retry == status \in {ProxyRequired, NoStatus}

ProxyAsked == status = ProxyRequired

\* Proxy authentication.
Proxy ==
    /\ pc = "proxy"
    /\ \/ /\ ~ProxyAsked
          /\ Stay("http")
          /\ UNCHANGED <<msgvars, clientvars, status, added, fhead, result>>
       \/ ProxyAsked /\ call.testProxy /\ response.proxy = "bare" /\ Crash
       \/ /\ ProxyAsked
          /\ call.testProxy
          /\ response.proxy # "bare"
          /\ FlagType(FALSE, response.proxy)
          /\ Stay("http")
          /\ UNCHANGED <<call, creds, clientvars, status, added, fhead, result>>
       \/ /\ ProxyAsked
          /\ ForceProxyHead
          /\ Exchange("HEAD", "proxy_head")
          /\ UNCHANGED <<msgvars, clientvars, status, added, fhead, result>>
       \/ ProxyAsked /\ ~call.testProxy /\ ~ForceProxyHead /\ NullPointer(ProxyScheme) /\ Crash
       \/ /\ ProxyAsked
          /\ ~call.testProxy
          /\ ~ForceProxyHead
          /\ ConfigureProxy
          /\ AfterProxyConfigured("proxy_check")
          /\ UNCHANGED <<call, auth, clientvars, added, fhead, result>>

\* The answer to the HEAD request of a forced proxy Digest.
ProxyHead ==
    /\ pc = "proxy_head"
    /\ \/ /\ status = ProxyRequired
          /\ ConfigureProxy
          /\ AfterProxyConfigured("proxy_check")
          /\ UNCHANGED <<call, auth, clientvars, added, fhead, result>>
       \/ /\ status # ProxyRequired
          /\ IF status = Unauthorized THEN Stay("proxy_check") ELSE Exchange("own", "proxy_check")
          /\ UNCHANGED <<msgvars, clientvars, status, added, fhead, result>>

\* Mutant: the check after the exchange is forgotten.
ProxyCheck_Silent ==
    /\ pc = "proxy_check"
    /\ Stay("http")
    /\ UNCHANGED <<msgvars, clientvars, status, added, fhead, result>>

\* A proxy that still asks.
ProxyCheck ==
    /\ pc = "proxy_check"
    /\ IF status = ProxyRequired THEN Flag(FALSE) ELSE UNCHANGED auth
    /\ Stay("http")
    /\ UNCHANGED <<call, creds, clientvars, status, added, fhead, result>>

HttpTested == call.testHttp

\* Server authentication.
Http ==
    /\ pc = "http"
    /\ \/ /\ status # Unauthorized
          /\ Stay("end")
          /\ UNCHANGED <<msgvars, clientvars, status, added, fhead, result>>
       \/ status = Unauthorized /\ HttpTested /\ response.www = "bare" /\ Crash
       \/ /\ status = Unauthorized
          /\ HttpTested
          /\ response.www # "bare"
          /\ FlagType(TRUE, response.www)
          /\ Stay("end")
          /\ UNCHANGED <<call, creds, clientvars, status, added, fhead, result>>
       \/ /\ status = Unauthorized
          /\ ~HttpTested
          /\ added
          /\ Flag(TRUE)
          /\ Stay("end")
          /\ UNCHANGED <<call, creds, clientvars, status, added, fhead, result>>
       \/ /\ status = Unauthorized
          /\ ~HttpTested
          /\ ~added
          /\ ForceProxyHead
          /\ Exchange("HEAD", "http_head")
          /\ UNCHANGED <<msgvars, clientvars, status, added, fhead, result>>
       \/ status = Unauthorized /\ ~HttpTested /\ ~added /\ ~ForceProxyHead
          /\ NullPointer(HttpScheme) /\ Crash
       \/ /\ status = Unauthorized
          /\ ~HttpTested
          /\ ~added
          /\ ~ForceProxyHead
          /\ ConfigureHttp
          /\ Exchange("own", "http_check")
          /\ UNCHANGED <<call, auth, clientvars, status, added, fhead, result>>

\* The answer to the HEAD request, and to the request after it: an answer
\* other than 401 ends the exchange.
HttpAgain(p, q) ==
    /\ pc = p
    /\ \/ status = Unauthorized /\ NullPointer(HttpScheme) /\ Crash
       \/ /\ status = Unauthorized
          /\ ConfigureHttp
          /\ Exchange("own", q)
          /\ UNCHANGED <<call, auth, clientvars, status, added, fhead, result>>
       \/ /\ status # Unauthorized
          /\ Stay("http_check")
          /\ UNCHANGED <<msgvars, clientvars, status, added, fhead, result>>

HttpHead == HttpAgain("http_head", "http_own")

HttpOwn == HttpAgain("http_own", "http_check")

HttpCheck ==
    /\ pc = "http_check"
    /\ IF status \in {Unauthorized, ProxyRequired}
       THEN Flag(status = Unauthorized)
       ELSE UNCHANGED auth
    /\ Stay("end")
    /\ UNCHANGED <<call, creds, clientvars, status, added, fhead, result>>

\* axis2_http_sender_process_response.
HasBody == response # NoResponse

\* Mutant: a fault is looked for in whatever response there is.
Accepted_Any == call.kind = "rest" \/ response.status = OK \/ response.xml

\* The answers whose body is handed to the engine.
Accepted ==
    \/ call.kind = "rest"
    \/ status = OK
    \/ status = Error /\ ~call.oneWay /\ response.xml

End ==
    /\ pc = "end"
    /\ result' = IF status # NoStatus /\ Accepted /\ HasBody THEN "SUCCESS" ELSE "FAILURE"
    /\ pc' = "done"
    /\ UNCHANGED <<msgvars, clientvars, then, method, status, added, fhead>>
-----------------------------------------------------------------------------
Init ==
    /\ call \in Calls
    /\ pc = "begin"
    /\ then = "begin"
    /\ method = "own"
    /\ status = NoStatus
    /\ added = FALSE
    /\ fhead = (~call.testHttp /\ call.http \in {"Digest", "NTLM"})
    /\ creds = {}
    /\ response = NoResponse
    /\ fresh = FALSE
    /\ connected = FALSE
    /\ interim = 0
    /\ sent = [all |-> 0, own |-> 0]
    /\ executed = 0
    /\ auth = [failed |-> FALSE, isHttp |-> FALSE, type |-> "none"]
    /\ result = "none"

Peer == NoAnswer \/ PeerCloses \/ SkipLine \/ Answer \/ HeadersEnd

Code ==
    \/ Refuse \/ Begin \/ AfterHead \/ AfterHeadOwn
    \/ Proxy \/ ProxyHead \/ ProxyCheck
    \/ Http \/ HttpHead \/ HttpOwn \/ HttpCheck \/ End
    \/ Send

Next == Code \/ Peer

\* The thread runs on, and a wait for a silent peer ends with the receive
\* time-out that axis2_http_client_send sets on the socket.  A peer need not
\* answer.
Spec == Init /\ [][Next]_vars /\ WF_vars(Code) /\ WF_vars(NoAnswer)
-----------------------------------------------------------------------------
Pcs == {"begin", "send", "receive", "head", "head_own", "proxy", "proxy_head", "proxy_check",
        "http", "http_head", "http_own", "http_check", "end", "done", "spin"}

\* Every variable keeps its type.
TypeOK ==
    /\ call \in Calls
    /\ pc \in Pcs
    /\ then \in Pcs
    /\ method \in {"own", "HEAD"}
    /\ status \in {OK, Unauthorized, Other, ProxyRequired, Error, Closed, NoStatus}
    /\ added \in BOOLEAN
    /\ fhead \in BOOLEAN
    /\ creds \subseteq {"http", "proxy"}
    /\ response \in Answers \cup {NoResponse}
    /\ fresh \in BOOLEAN
    /\ connected \in BOOLEAN
    /\ interim \in 0..MaxInterim
    /\ sent \in [all : Nat, own : Nat]
    /\ executed \in Nat
    /\ auth \in [failed : BOOLEAN, isHttp : BOOLEAN, type : Forced]
    /\ result \in {"none", "SUCCESS", "FAILURE", "crash"}

\* However often the request is repeated for authentication, at most one
\* exchange ends in a way that lets the peer execute the message, and nothing
\* is sent after it: a time-out, a closed connection or an unusable answer is
\* never retried.
AtMostOnce == executed <= 1 /\ (executed = 1 => pc # "send")

\* When the call returns, auth_failed is set exactly if the last exchange was
\* answered by a request for authentication that the client could read, and
\* required_auth_is_http tells who asked; a flag raised by an earlier exchange,
\* or a status the sender only supposed, does not count.  An answer with a body
\* and no content type is turned into an error by axis2_http_client (status
\* NoStatus) and reported as such even if it asked.
AuthFailureReported ==
    result \in {"SUCCESS", "FAILURE"} =>
        /\ auth.failed <=> /\ fresh
                           /\ response.status \in {Unauthorized, ProxyRequired}
                           /\ status # NoStatus
        /\ auth.failed => (auth.isHttp <=> response.status = Unauthorized)

\* SUCCESS for a SOAP message means that the response handed on answers the
\* last exchange and carries a result or a fault, and that the message itself
\* was sent and reached a peer that could execute it; the one exception is a
\* forced proxy Digest or NTLM, whose HEAD request may be all that was sent.
SuccessFromAnswer ==
    result = "SUCCESS" /\ call.kind = "soap" =>
        /\ fresh
        /\ response.status = OK \/ response.xml
        /\ executed = 1 \/ (ForceProxyHead /\ method = "HEAD")

\* The authentication code follows a null pointer only on a challenge without
\* parameters, on a Digest challenge that is broken and for which there are
\* credentials, or for a forced server Digest when the last response has no
\* server challenge.
CrashNeedsBadChallenge ==
    result = "crash" =>
        \/ "bare" \in {response.www, response.proxy}
        \/ "broken" \in {response.www, response.proxy} /\ call.creds
        \/ call.http = "Digest" /\ response.www = "none"

\* Every call returns, unless the peer stops inside the headers or a null
\* pointer is followed.
SendReturns == <>(result # "none" \/ pc = "spin")
=============================================================================
