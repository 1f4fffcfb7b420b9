-------------------------- MODULE HttpSenderProofs --------------------------
(***************************************************************************)
(* Proofs about HttpSender for any number of interim status lines.         *)
(***************************************************************************)
EXTENDS HttpSender, TLAPS

Statuses == {OK, Unauthorized, Other, ProxyRequired, Error, Closed, NoStatus}

\* The codes are different numbers.
LEMMA Codes ==
    /\ OK = 200 /\ Unauthorized = 401 /\ Other = 404 /\ ProxyRequired = 407 /\ Error = 500
    /\ Closed = 0 /\ NoStatus = -1
  BY DEF OK, Unauthorized, Other, ProxyRequired, Error, Closed, NoStatus

\* An answer names its status and two schemes.
LEMMA AnswerType ==
    ASSUME NEW a \in Answers \cup {NoResponse}
    PROVE  /\ a.status \in Statuses /\ a.www \in Schemes /\ a.proxy \in Schemes
           /\ a.xml \in BOOLEAN
<1>1. CASE a \in [status : {OK, Other, Error}, www : {"none"}, proxy : {"none"}, xml : {FALSE}]
  BY <1>1 DEF Schemes, Statuses
<1>2. CASE a \in [status : {Error}, www : {"none"}, proxy : {"none"}, xml : {TRUE}]
  BY <1>2 DEF Schemes, Statuses
<1>3. CASE a \in [status : {Unauthorized}, www : Schemes, proxy : {"none"}, xml : {FALSE}]
  BY <1>3 DEF Schemes, Statuses
<1>4. CASE a \in [status : {ProxyRequired}, www : {"none"}, proxy : Schemes, xml : {FALSE}]
  BY <1>4 DEF Schemes, Statuses
<1>5. CASE a = NoResponse
  BY <1>5 DEF NoResponse, Schemes, Statuses
<1> QED BY <1>1, <1>2, <1>3, <1>4, <1>5 DEF Answers

\* A call starts with its variables in their types.
LEMMA TypeInit == Init => TypeOK
<1> SUFFICES ASSUME Init PROVE TypeOK
  OBVIOUS
<1>1. fhead \in BOOLEAN
  BY Zenon DEF Init
<1>2. auth \in [failed : BOOLEAN, isHttp : BOOLEAN, type : Forced]
  BY DEF Init, Forced
<1>3. interim \in 0..MaxInterim
  BY SenderAssumption DEF Init
<1> QED BY <1>1, <1>2, <1>3 DEF Init, TypeOK, Pcs

\* An exchange that ends.
LEMMA ReceivedType ==
    ASSUME TypeOK, NEW s \in Statuses, Received(s), executed' \in Nat,
           response' \in Answers \cup {NoResponse}, fresh' \in BOOLEAN
    PROVE  TypeOK'
  BY DEF TypeOK, Received, msgvars, Statuses

\* A step of the sender: what it may change.
LEMMA SenderType ==
    ASSUME TypeOK, UNCHANGED <<call, clientvars>>, pc' \in Pcs, then' \in Pcs,
           method' \in {"own", "HEAD"}, status' \in Statuses, added' \in BOOLEAN,
           fhead' \in BOOLEAN, creds' \subseteq {"http", "proxy"},
           auth' \in [failed : BOOLEAN, isHttp : BOOLEAN, type : Forced],
           result' \in {"none", "SUCCESS", "FAILURE", "crash"}
    PROVE  TypeOK'
  BY DEF TypeOK, clientvars, Statuses

\* Raising auth_failed, with or without the scheme asked for, keeps the type
\* of the three fields.
LEMMA FlagsType ==
    ASSUME TypeOK, NEW h \in BOOLEAN, NEW s \in Schemes, Flag(h) \/ FlagType(h, s)
    PROVE  auth' \in [failed : BOOLEAN, isHttp : BOOLEAN, type : Forced]
<1>1. CASE Flag(h)
  BY Zenon, <1>1 DEF TypeOK, Flag
<1>2. CASE FlagType(h, s)
  <2>1. SupportedType(s) \in Forced
    BY DEF SupportedType, Forced
  <2> QED BY Zenon, <1>2, <2>1 DEF FlagType
<1> QED BY <1>1, <1>2

\* Configuring authentication puts at most two headers into the request.
LEMMA CredsType ==
    ASSUME TypeOK, ConfigureHttp \/ ConfigureProxy
    PROVE  creds' \subseteq {"http", "proxy"}
  BY DEF TypeOK, ConfigureHttp, ConfigureProxy

\* Every section of the sender and every move of the peer keeps the types.
LEMMA TypeStep == TypeOK /\ [Next]_vars => TypeOK'
<1> SUFFICES ASSUME TypeOK, [Next]_vars PROVE TypeOK'
  OBVIOUS
<1> USE DEF Stay, Exchange, Goto
<1>1. CASE UNCHANGED vars
  BY <1>1 DEF TypeOK, vars, msgvars, clientvars
<1>2. CASE Send
  <2>1. sent' \in [all : Nat, own : Nat]
    BY <1>2 DEF Send, TypeOK
  <2>2. connected' \in BOOLEAN /\ fresh' \in BOOLEAN
    BY Zenon, <1>2 DEF Send
  <2>3. pc' \in Pcs
    BY <1>2 DEF Send, Pcs
  <2> QED BY <1>2, <2>1, <2>2, <2>3 DEF Send, TypeOK, msgvars
<1>3. \A s : MayExecute(s) \in Nat
  BY DEF MayExecute, TypeOK
<1>4. CASE NoAnswer \/ PeerCloses
  BY <1>3, <1>4, ReceivedType DEF NoAnswer, PeerCloses, TypeOK, Statuses
<1>5. CASE SkipLine
  BY <1>5, SenderAssumption DEF SkipLine, TypeOK, msgvars
<1>6. CASE Answer
  <2>1. PICK a \in Answers, typed \in BOOLEAN :
            /\ response' = a
            /\ executed' = MayExecute(a.status)
            /\ Received(IF typed THEN a.status ELSE NoStatus)
    BY <1>6 DEF Answer
  <2>2. (IF typed THEN a.status ELSE NoStatus) \in Statuses
    BY AnswerType DEF Statuses
  <2> QED BY <1>3, <1>6, <2>1, <2>2, ReceivedType DEF Answer
<1>7. CASE HeadersEnd
  BY <1>3, <1>7 DEF HeadersEnd, TypeOK, msgvars, Pcs
<1>8. CASE Crash
  BY <1>8, SenderType DEF Crash, TypeOK, msgvars, Pcs, Statuses
<1>9. CASE Refuse \/ End
  <2>1. result' \in {"none", "SUCCESS", "FAILURE", "crash"} /\ pc' \in Pcs
    BY <1>9 DEF Refuse, End, Pcs
  <2> QED BY <1>9, <2>1, SenderType DEF Refuse, End, TypeOK, msgvars, Statuses
<1>10. CASE Begin
  <2>1. creds' \subseteq {"http", "proxy"}
    BY <1>10, CredsType DEF Begin, TypeOK
  <2>2. added' \in BOOLEAN
    BY <1>10 DEF Begin, TypeOK
  <2> QED BY <1>10, <2>1, <2>2, SenderType DEF Begin, TypeOK, Pcs, Statuses
<1>11. CASE AfterHead /\ ~Crash
  <2>1. creds' \subseteq {"http", "proxy"}
    BY <1>11, CredsType DEF AfterHead, TypeOK, msgvars
  <2>2. added' \in BOOLEAN
    BY <1>11 DEF AfterHead, TypeOK
  <2> QED BY <1>11, <2>1, <2>2, SenderType DEF AfterHead, TypeOK, Pcs, Statuses, msgvars
<1>12. CASE AfterHeadOwn
  <2>1. added' \in BOOLEAN /\ fhead' \in BOOLEAN
    BY Zenon, <1>12 DEF AfterHeadOwn
  <2> QED BY <1>12, <2>1, SenderType DEF AfterHeadOwn, TypeOK, Pcs, Statuses, msgvars
<1>13. CASE Proxy /\ ~Crash
  <2>1. creds' \subseteq {"http", "proxy"}
    BY <1>13, CredsType DEF Proxy, TypeOK, msgvars
  <2>2. auth' \in [failed : BOOLEAN, isHttp : BOOLEAN, type : Forced]
    BY <1>13, FlagsType, AnswerType DEF Proxy, TypeOK, msgvars
  <2>3. pc' \in Pcs /\ then' \in Pcs /\ method' \in {"own", "HEAD"} /\ status' \in Statuses
    BY <1>13 DEF Proxy, AfterProxyConfigured, TypeOK, Pcs, Statuses
  <2>4. UNCHANGED <<call, clientvars, added, fhead, result>>
    BY Zenon, <1>13 DEF Proxy, msgvars
  <2> QED BY <2>1, <2>2, <2>3, <2>4, SenderType DEF TypeOK
<1>14. CASE ProxyHead
  <2>1. creds' \subseteq {"http", "proxy"}
    BY <1>14, CredsType DEF ProxyHead, TypeOK, msgvars
  <2> QED BY <1>14, <2>1, SenderType
          DEF ProxyHead, AfterProxyConfigured, TypeOK, Pcs, Statuses, msgvars
<1>15. CASE ProxyCheck
  <2>1. auth' \in [failed : BOOLEAN, isHttp : BOOLEAN, type : Forced]
    BY <1>15, FlagsType DEF ProxyCheck, TypeOK, Schemes
  <2> QED BY <1>15, <2>1, SenderType DEF ProxyCheck, TypeOK, Pcs, Statuses
<1>16. CASE Http /\ ~Crash
  <2>1. creds' \subseteq {"http", "proxy"}
    BY <1>16, CredsType DEF Http, TypeOK, msgvars
  <2>2. auth' \in [failed : BOOLEAN, isHttp : BOOLEAN, type : Forced]
    BY <1>16, FlagsType, AnswerType DEF Http, TypeOK, msgvars, Schemes
  <2>3. pc' \in Pcs /\ then' \in Pcs /\ method' \in {"own", "HEAD"} /\ status' \in Statuses
    BY <1>16 DEF Http, TypeOK, Pcs, Statuses
  <2>4. UNCHANGED <<call, clientvars, added, fhead, result>>
    BY Zenon, <1>16 DEF Http, msgvars
  <2> QED BY <2>1, <2>2, <2>3, <2>4, SenderType DEF TypeOK
<1>17. CASE (HttpHead \/ HttpOwn) /\ ~Crash
  <2>1. creds' \subseteq {"http", "proxy"}
    BY <1>17, CredsType DEF HttpHead, HttpOwn, HttpAgain, TypeOK, msgvars
  <2> QED BY <1>17, <2>1, SenderType
          DEF HttpHead, HttpOwn, HttpAgain, TypeOK, Pcs, Statuses, msgvars
<1>18. CASE HttpCheck
  <2>1. (status = Unauthorized) \in BOOLEAN
    OBVIOUS
  <2>2. auth' \in [failed : BOOLEAN, isHttp : BOOLEAN, type : Forced]
    BY <1>18, <2>1, FlagsType DEF HttpCheck, TypeOK, Schemes
  <2> QED BY <1>18, <2>2, SenderType DEF HttpCheck, TypeOK, Pcs, Statuses
<1> QED BY <1>1, <1>2, <1>4, <1>5, <1>6, <1>7, <1>8, <1>9, <1>10, <1>11, <1>12, <1>13, <1>14,
           <1>15, <1>16, <1>17, <1>18 DEF Next, Code, Peer

\* The state of the call, of its client and of the message keeps its type.
THEOREM TypeCorrect == Spec => []TypeOK
  BY TypeInit, TypeStep, PTL DEF Spec
-----------------------------------------------------------------------------
(* The paths through the sender.                                           *)

\* Where the sender is, or goes on after the exchange under way.
Place == IF pc \in {"send", "receive", "spin"} THEN then ELSE pc

\* Which paths the forced proxy authentication takes, and that its HEAD
\* requests are HEAD requests.
PathInv ==
    /\ Place \in {"proxy_head", "http_head", "http_own"} => ForceProxyHead
    /\ Place \in {"head", "head_own"} => ~ForceProxyHead /\ ~ForceProxyBasic
    /\ pc \in {"send", "receive", "spin"} =>
           /\ then \in {"head", "head_own", "proxy", "proxy_head", "proxy_check", "http_head",
                        "http_own", "http_check"}
           /\ then \in {"head", "proxy_head", "http_head"} <=> method = "HEAD"
           /\ then = "proxy" => ~ForceProxyHead /\ ~ForceProxyBasic
    /\ pc \in {"head", "proxy_head"} => method = "HEAD"
    /\ result # "none" => pc = "done"

\* A call starts before the paths of forced proxy authentication part.
LEMMA PathInit == Init => PathInv
  BY DEF Init, PathInv, Place

\* The message does not change.
LEMMA CallKept ==
    ASSUME [Next]_vars
    PROVE  /\ call' = call
           /\ ForceProxyHead' = ForceProxyHead /\ ForceProxyBasic' = ForceProxyBasic
<1>1. call' = call
  BY Zenon
  DEF Next, Code, Peer, vars, msgvars, Refuse, Begin, AfterHead, AfterHeadOwn, Proxy, ProxyHead,
      ProxyCheck, Http, HttpHead, HttpOwn, HttpAgain, HttpCheck, End, Send, NoAnswer, PeerCloses,
      SkipLine, Answer, HeadersEnd, Received, Crash
<1> QED BY <1>1 DEF ForceProxyHead, ForceProxyBasic

\* A null pointer is followed between exchanges, on a refusal.
LEMMA CrashPlace ==
    ASSUME PathInv, Next, Crash
    PROVE  /\ pc \in {"head", "proxy", "http", "http_head", "http_own"}
           /\ status \in {Unauthorized, ProxyRequired}
<1>1. result = "none" \/ pc = "done"
  BY DEF PathInv
<1>2. AfterHead \/ Proxy \/ Http \/ HttpHead \/ HttpOwn
  BY <1>1
  DEF Next, Code, Peer, Refuse, Begin, AfterHeadOwn, ProxyHead, ProxyCheck, HttpCheck, End, Send,
      NoAnswer, PeerCloses, SkipLine, Answer, HeadersEnd, Received, Crash
<1>3. result = "none"
  BY <1>1, <1>2 DEF AfterHead, Proxy, Http, HttpHead, HttpOwn, HttpAgain
<1>4. CASE AfterHead
  BY <1>3, <1>4 DEF AfterHead, Crash
<1>5. CASE Proxy
  BY <1>3, <1>5 DEF Proxy, Crash, ProxyAsked
<1>6. CASE Http
  BY <1>3, <1>6 DEF Http, Crash
<1>7. CASE HttpHead \/ HttpOwn
  BY <1>3, <1>7 DEF HttpHead, HttpOwn, HttpAgain, Crash
<1> QED BY <1>2, <1>4, <1>5, <1>6, <1>7

\* No section leaves these paths.
LEMMA PathStep == TypeOK /\ PathInv /\ [Next]_vars => PathInv'
<1> SUFFICES ASSUME TypeOK, PathInv, [Next]_vars PROVE PathInv'
  OBVIOUS
<1> USE DEF PathInv, Place, TypeOK, msgvars, Stay, Exchange, Goto
<1>0. ForceProxyHead' = ForceProxyHead /\ ForceProxyBasic' = ForceProxyBasic
  BY CallKept
<1>1. CASE UNCHANGED vars
  BY <1>0, <1>1 DEF vars, clientvars
<1>2. CASE Send
  BY <1>2, <1>0 DEF Send
<1>3. CASE NoAnswer
  BY <1>3, <1>0 DEF NoAnswer, Received
<1>4. CASE PeerCloses
  BY <1>4, <1>0 DEF PeerCloses, Received
<1>5. CASE SkipLine
  BY <1>5, <1>0 DEF SkipLine
<1>6. CASE Answer
  BY <1>6, <1>0 DEF Answer, Received
<1>7. CASE HeadersEnd
  BY <1>7, <1>0 DEF HeadersEnd
<1>8. CASE Next /\ Crash
  BY <1>8, <1>0, CrashPlace DEF Crash
<1>9. CASE Refuse
  BY <1>9, <1>0 DEF Refuse
<1>10. CASE End
  BY <1>10, <1>0 DEF End
<1>11. CASE Begin
  BY <1>11, <1>0 DEF Begin
<1>12. CASE AfterHead /\ ~Crash
  BY <1>12, <1>0 DEF AfterHead
<1>13. CASE AfterHeadOwn
  BY <1>13, <1>0 DEF AfterHeadOwn
<1>14. CASE Proxy /\ ~Crash
  BY <1>14, <1>0 DEF Proxy, ProxyAsked, AfterProxyConfigured
<1>15. CASE ProxyHead
  BY <1>15, <1>0 DEF ProxyHead, AfterProxyConfigured
<1>16. CASE ProxyCheck
  BY <1>16, <1>0 DEF ProxyCheck
<1>17. CASE Http /\ ~Crash
  BY <1>17, <1>0 DEF Http
<1>18. CASE HttpHead /\ ~Crash
  BY <1>18, <1>0 DEF HttpHead, HttpAgain
<1>19. CASE HttpOwn /\ ~Crash
  BY <1>19, <1>0 DEF HttpOwn, HttpAgain
<1>20. CASE HttpCheck
  BY <1>20, <1>0 DEF HttpCheck
<1> QED BY <1>1, <1>2, <1>3, <1>4, <1>5, <1>6, <1>7, <1>8, <1>9, <1>10, <1>11, <1>12, <1>13,
           <1>14, <1>15, <1>16, <1>17, <1>18, <1>19, <1>20 DEF Next, Code, Peer
-----------------------------------------------------------------------------
(* A message is executed at most once.                                     *)

\* Once the message may have been executed the status asks for nothing, and the
\* sender is past the places from which it would send all the same.
ExecutedInv ==
    /\ executed <= 1
    /\ executed = 1 =>
           /\ pc \notin {"begin", "send", "receive", "head", "proxy_head"}
           /\ pc = "spin" \/ status \notin {Unauthorized, ProxyRequired}

\* Before the first exchange nothing was executed.
LEMMA ExecutedInit == Init => ExecutedInv
  BY DEF Init, ExecutedInv

\* Each exchange is begun only with a status that says that the peer refused
\* the message, or before the message was sent.
LEMMA ExecutedStep == TypeOK /\ PathInv /\ ExecutedInv /\ [Next]_vars => ExecutedInv'
<1> SUFFICES ASSUME TypeOK, PathInv, ExecutedInv, [Next]_vars PROVE ExecutedInv'
  OBVIOUS
<1> USE DEF ExecutedInv, PathInv, Place, clientvars, TypeOK, msgvars, Stay, Exchange, Goto
<1>0. ForceProxyHead' = ForceProxyHead /\ ForceProxyBasic' = ForceProxyBasic
  BY CallKept
<1>1. CASE UNCHANGED vars
  BY <1>0, <1>1 DEF vars, clientvars
<1>2. CASE Send
  BY <1>2, <1>0, Codes DEF Send
<1>3. CASE NoAnswer
  BY <1>3, <1>0, Codes DEF NoAnswer, Received, MayExecute
<1>4. CASE PeerCloses
  BY <1>4, <1>0, Codes DEF PeerCloses, Received, MayExecute
<1>5. CASE SkipLine
  BY <1>5, <1>0, Codes DEF SkipLine
<1>6. CASE Answer
  BY <1>6, <1>0, Codes DEF Answer, Received, MayExecute
<1>7. CASE HeadersEnd
  BY <1>7, <1>0, Codes DEF HeadersEnd, MayExecute
<1>8. CASE Next /\ Crash
  BY <1>8, <1>0, Codes, CrashPlace DEF Crash
<1>9. CASE Refuse
  BY <1>9, <1>0, Codes DEF Refuse
<1>10. CASE End
  BY <1>10, <1>0, Codes DEF End
<1>11. CASE Begin
  BY <1>11, <1>0, Codes DEF Begin
<1>12. CASE AfterHead /\ ~Crash
  BY <1>12, <1>0, Codes DEF AfterHead
<1>13. CASE AfterHeadOwn
  BY <1>13, <1>0, Codes DEF AfterHeadOwn
<1>14. CASE Proxy /\ ~Crash
  <2>1. executed' = executed
    BY Zenon, <1>14 DEF Proxy
  <2>2. ProxyAsked => executed # 1
    BY <1>14 DEF ProxyAsked, Proxy
  <2>3. pc = "proxy" /\ (~ProxyAsked => pc' = "http" /\ status' = status)
    BY <1>14 DEF Proxy
  <2> QED BY <1>14, <2>1, <2>2, <2>3
<1>15. CASE ProxyHead
  BY <1>15, <1>0, Codes DEF ProxyHead, AfterProxyConfigured
<1>16. CASE ProxyCheck
  BY <1>16, <1>0, Codes DEF ProxyCheck
<1>17. CASE Http /\ ~Crash
  <2>1. executed' = executed /\ status' = status
    BY Zenon, <1>17 DEF Http
  <2>2. status = Unauthorized => executed # 1
    BY <1>17 DEF Http
  <2>3. pc = "http" /\ (status # Unauthorized => pc' = "end")
    BY <1>17 DEF Http
  <2> QED BY <1>17, <2>1, <2>2, <2>3
<1>18. CASE HttpHead /\ ~Crash
  BY <1>18, <1>0, Codes DEF HttpHead, HttpAgain
<1>19. CASE HttpOwn /\ ~Crash
  BY <1>19, <1>0, Codes DEF HttpOwn, HttpAgain
<1>20. CASE HttpCheck
  BY <1>20, <1>0, Codes DEF HttpCheck
<1> QED BY <1>1, <1>2, <1>3, <1>4, <1>5, <1>6, <1>7, <1>8, <1>9, <1>10, <1>11, <1>12, <1>13,
           <1>14, <1>15, <1>16, <1>17, <1>18, <1>19, <1>20 DEF Next, Code, Peer

\* A request that may have been executed is not repeated, whatever the peer
\* does at each exchange and whatever authentication is configured.
THEOREM MessageExecutedOnce == Spec => []AtMostOnce
<1>1. TypeOK /\ ExecutedInv => AtMostOnce
  BY DEF TypeOK, ExecutedInv, AtMostOnce
<1> QED BY <1>1, TypeInit, TypeStep, PathInit, PathStep, ExecutedInit, ExecutedStep, PTL DEF Spec
-----------------------------------------------------------------------------
(* What the caller is told.                                                *)

\* The flag is raised by the last section that sees the refusal.
AuthInv ==
    /\ pc = "begin" => status = NoStatus
    /\ Place \in {"begin", "head", "head_own", "proxy", "proxy_head", "proxy_check", "http_head",
                  "http_own", "http_check"} => ~auth.failed
    /\ Place = "http" => (auth.failed <=> status = ProxyRequired) /\ (auth.failed => ~auth.isHttp)
    /\ Place = "end" \/ result \in {"SUCCESS", "FAILURE"} =>
           /\ auth.failed <=> status \in {Unauthorized, ProxyRequired}
           /\ auth.failed => (auth.isHttp <=> status = Unauthorized)

\* Raising auth_failed says whether the server or the proxy refused.
LEMMA FlagFields ==
    ASSUME TypeOK, NEW h \in BOOLEAN, NEW s, Flag(h) \/ FlagType(h, s)
    PROVE  auth'.failed /\ (auth'.isHttp <=> h)
<1>1. CASE Flag(h)
  BY <1>1 DEF TypeOK, Flag
<1>2. CASE FlagType(h, s)
  BY <1>2 DEF FlagType
<1> QED BY <1>1, <1>2

\* No flag is due before the first answer.
LEMMA AuthInit == Init => AuthInv
  BY Codes DEF Init, AuthInv, Place

\* Whichever section sees a refusal last raises the flag for it.
LEMMA AuthStep == TypeOK /\ PathInv /\ AuthInv /\ [Next]_vars => AuthInv'
<1> SUFFICES ASSUME TypeOK, PathInv, AuthInv, [Next]_vars PROVE AuthInv'
  OBVIOUS
<1> USE DEF AuthInv, PathInv, Place, TypeOK, msgvars, Stay, Exchange, Goto
<1>0. ForceProxyHead' = ForceProxyHead /\ ForceProxyBasic' = ForceProxyBasic
  BY CallKept
<1>1. CASE UNCHANGED vars
  BY <1>0, <1>1 DEF vars, clientvars
<1>2. CASE Send
  BY <1>2, <1>0, Codes DEF Send
<1>3. CASE NoAnswer
  BY <1>3, <1>0, Codes DEF NoAnswer, Received
<1>4. CASE PeerCloses
  BY <1>4, <1>0, Codes DEF PeerCloses, Received
<1>5. CASE SkipLine
  BY <1>5, <1>0, Codes DEF SkipLine
<1>6. CASE Answer
  BY <1>6, <1>0, Codes DEF Answer, Received
<1>7. CASE HeadersEnd
  BY <1>7, <1>0, Codes DEF HeadersEnd
<1>8. CASE Next /\ Crash
  BY <1>8, <1>0, Codes, CrashPlace DEF Crash
<1>9. CASE Refuse
  BY <1>9, <1>0, Codes DEF Refuse
<1>10. CASE End
  BY <1>10, <1>0, Codes DEF End
<1>11. CASE Begin
  BY <1>11, <1>0, Codes DEF Begin
<1>12. CASE AfterHead /\ ~Crash
  BY <1>12, <1>0, Codes DEF AfterHead
<1>13. CASE AfterHeadOwn
  BY <1>13, <1>0, Codes DEF AfterHeadOwn
<1>14. CASE Proxy /\ ~Crash
  BY <1>14, <1>0, Codes DEF Proxy, ProxyAsked, AfterProxyConfigured, Flag, FlagType, HttpTested
<1>15. CASE ProxyHead
  BY <1>15, <1>0, Codes DEF ProxyHead, AfterProxyConfigured
<1>16. CASE ProxyCheck
  <2>1. status = ProxyRequired => auth'.failed /\ ~auth'.isHttp
    BY <1>16, FlagFields DEF ProxyCheck
  <2>2. status # ProxyRequired => ~auth'.failed
    BY <1>16 DEF ProxyCheck
  <2>3. Place' = "http" /\ status' = status /\ result' = result /\ result = "none"
    BY <1>16 DEF ProxyCheck
  <2> QED BY <1>16, <2>1, <2>2, <2>3 DEF ProxyCheck
<1>17. CASE Http /\ ~Crash
  <2>1. Place' = "end" \/ Place' \in {"http_head", "http_check"}
    BY <1>17 DEF Http
  <2>2. status' = status /\ result' = result /\ result = "none"
    BY <1>17 DEF Http
  <2>3. CASE status # Unauthorized
    BY <1>17, <2>2, <2>3 DEF Http
  <2>4. CASE status = Unauthorized /\ Place' = "end"
    <3>1. Flag(TRUE) \/ FlagType(TRUE, response.www)
      BY <1>17, <2>4 DEF Http
    <3>2. auth'.failed /\ auth'.isHttp
      BY <3>1, FlagFields
    <3> QED BY <2>2, <2>4, <3>2, Codes
  <2>5. CASE status = Unauthorized /\ Place' # "end"
    <3>1. ~auth'.failed
      <4>1. auth' = auth
        BY <1>17, <2>5 DEF Http
      <4> QED BY <1>17, <2>5, <4>1, Codes DEF Http
    <3> QED BY <2>1, <2>2, <2>5, <3>1
  <2> QED BY <2>3, <2>4, <2>5
<1>18. CASE HttpHead /\ ~Crash
  BY <1>18, <1>0, Codes DEF HttpHead, HttpAgain
<1>19. CASE HttpOwn /\ ~Crash
  BY <1>19, <1>0, Codes DEF HttpOwn, HttpAgain
<1>20. CASE HttpCheck
  <2>1. Place' = "end" /\ status' = status /\ result' = result /\ result = "none"
    BY <1>20 DEF HttpCheck
  <2>2. CASE status \in {Unauthorized, ProxyRequired}
    <3>1. auth'.failed /\ (auth'.isHttp <=> status = Unauthorized)
      BY <1>20, <2>2, FlagFields DEF HttpCheck
    <3> QED BY <2>1, <2>2, <3>1
  <2>3. CASE status \notin {Unauthorized, ProxyRequired}
    BY <1>20, <2>1, <2>3 DEF HttpCheck
  <2> QED BY <2>2, <2>3
<1> QED BY <1>1, <1>2, <1>3, <1>4, <1>5, <1>6, <1>7, <1>8, <1>9, <1>10, <1>11, <1>12, <1>13,
           <1>14, <1>15, <1>16, <1>17, <1>18, <1>19, <1>20 DEF Next, Code, Peer

\* A status that no answer brought: the sender supposes that the proxy asks, or
\* that the server does, and sends a request before it looks at the status again.
Supposed ==
    \/ pc = "proxy" /\ status = ProxyRequired /\ (ForceProxyBasic \/ ForceProxyHead)
    \/ pc \in {"proxy_check", "http"} /\ status = Unauthorized /\ ~added /\ ~call.testHttp

\* Between exchanges a status that asks for authentication is the one of the
\* last answer, unless it is supposed.
AskedInv ==
    /\ fhead => ~call.testHttp
    /\ pc = "receive" => ~fresh
    /\ pc \notin {"send", "receive", "spin"} /\ result # "crash" =>
           \/ Supposed
           \/ /\ status \in {Unauthorized, ProxyRequired} => fresh
              /\ fresh /\ status # NoStatus => response.status = status

\* There is neither a status nor an answer at first.
LEMMA AskedInit == Init => AskedInv
<1> SUFFICES ASSUME Init PROVE AskedInv
  OBVIOUS
<1>1. fhead => ~call.testHttp
  BY Zenon DEF Init
<1> QED BY <1>1, Codes DEF Init, AskedInv

\* Each exchange replaces the answer and the status together, and what is
\* supposed leads to an exchange.
LEMMA AskedStep == TypeOK /\ PathInv /\ AskedInv /\ [Next]_vars => AskedInv'
<1> SUFFICES ASSUME TypeOK, PathInv, AskedInv, [Next]_vars PROVE AskedInv'
  OBVIOUS
<1> USE DEF AskedInv, Supposed, PathInv, Place, TypeOK, msgvars, clientvars, Stay, Exchange, Goto
<1>0. call' = call /\ ForceProxyHead' = ForceProxyHead /\ ForceProxyBasic' = ForceProxyBasic
  BY CallKept
<1>1. CASE UNCHANGED vars
  BY <1>0, <1>1 DEF vars
<1>2. CASE Send
  BY <1>2, <1>0, Codes DEF Send
<1>3. CASE NoAnswer
  BY <1>3, <1>0, Codes DEF NoAnswer, Received
<1>4. CASE PeerCloses
  BY <1>4, <1>0, Codes DEF PeerCloses, Received
<1>5. CASE SkipLine
  BY <1>5, <1>0, Codes DEF SkipLine
<1>6. CASE Answer
  <2>1. PICK a \in Answers, typed \in BOOLEAN :
            /\ response' = a
            /\ executed' = MayExecute(a.status)
            /\ Received(IF typed THEN a.status ELSE NoStatus)
    BY <1>6 DEF Answer
  <2>2. fresh' /\ pc' = then /\ fhead' = fhead /\ result' = result
    BY <1>6, <2>1 DEF Answer, Received
  <2>3. status' = NoStatus \/ response'.status = status'
    BY <2>1 DEF Received
  <2>4. pc' # "receive"
    BY <1>6, <2>2 DEF Answer
  <2> QED BY <1>0, <2>2, <2>3, <2>4
<1>7. CASE HeadersEnd
  BY <1>7, <1>0, Codes DEF HeadersEnd
<1>8. CASE Next /\ Crash
  BY <1>8, <1>0, Codes DEF Crash
<1>9. CASE Refuse
  BY <1>9, <1>0, Codes DEF Refuse
<1>10. CASE End
  BY <1>10, <1>0, Codes DEF End
<1>11. CASE Begin
  BY <1>11, <1>0, Codes DEF Begin
<1>12. CASE AfterHead /\ ~Crash
  BY <1>12, <1>0, Codes DEF AfterHead
<1>13. CASE AfterHeadOwn
  BY <1>13, <1>0, Codes DEF AfterHeadOwn
<1>14. CASE Proxy /\ ~Crash
  <2>1. UNCHANGED <<fresh, response, added, fhead, result>> /\ pc = "proxy"
    BY Zenon, <1>14 DEF Proxy
  <2>2. pc' = "http" => status' = status /\ (status = ProxyRequired => call.testProxy)
    BY <1>14 DEF Proxy, ProxyAsked, AfterProxyConfigured
  <2>3. pc' \in {"http", "send", "proxy_check"}
    BY <1>14 DEF Proxy, AfterProxyConfigured
  <2>4. pc' = "proxy_check" => status' = Unauthorized /\ ~added /\ (fhead \/ ForceHttpBasic)
    BY <1>14 DEF Proxy, AfterProxyConfigured
  <2> QED BY <1>0, <2>1, <2>2, <2>3, <2>4, Codes
          DEF ForceHttpBasic, ForceProxyBasic, ForceProxyHead
<1>15. CASE ProxyHead
  BY <1>15, <1>0, Codes DEF ProxyHead, AfterProxyConfigured, ForceHttpBasic
<1>16. CASE ProxyCheck
  BY <1>16, <1>0, Codes DEF ProxyCheck
<1>17. CASE Http /\ ~Crash
  <2>1. UNCHANGED <<fresh, response, added, fhead, result, status>> /\ pc = "http"
    BY Zenon, <1>17 DEF Http
  <2>2. pc' \in {"end", "send"}
    BY <1>17 DEF Http
  <2>3. pc' = "end" => status # Unauthorized \/ call.testHttp \/ added
    BY <1>17 DEF Http, HttpTested
  <2> QED BY <1>0, <2>1, <2>2, <2>3, Codes
<1>18. CASE HttpHead /\ ~Crash
  BY <1>18, <1>0, Codes DEF HttpHead, HttpAgain
<1>19. CASE HttpOwn /\ ~Crash
  BY <1>19, <1>0, Codes DEF HttpOwn, HttpAgain
<1>20. CASE HttpCheck
  BY <1>20, <1>0, Codes DEF HttpCheck
<1> QED BY <1>1, <1>2, <1>3, <1>4, <1>5, <1>6, <1>7, <1>8, <1>9, <1>10, <1>11, <1>12, <1>13,
           <1>14, <1>15, <1>16, <1>17, <1>18, <1>19, <1>20 DEF Next, Code, Peer

\* When the call returns, auth_failed and required_auth_is_http say whether and
\* by whom the last answer asked for authentication, if it could be read.
THEOREM AuthReported == Spec => []AuthFailureReported
<1>1. PathInv /\ AuthInv /\ AskedInv => AuthFailureReported
  <2> SUFFICES ASSUME PathInv, AuthInv, AskedInv, result \in {"SUCCESS", "FAILURE"}
               PROVE  AuthFailureReported
    BY DEF AuthFailureReported
  <2>1. pc = "done"
    BY DEF PathInv
  <2>2. /\ status \in {Unauthorized, ProxyRequired} => fresh
        /\ fresh /\ status # NoStatus => response.status = status
    BY <2>1 DEF AskedInv, Supposed
  <2>3. /\ auth.failed <=> status \in {Unauthorized, ProxyRequired}
        /\ auth.failed => (auth.isHttp <=> status = Unauthorized)
    BY DEF AuthInv
  <2> QED BY <2>2, <2>3, Codes DEF AuthFailureReported
<1> QED BY <1>1, TypeInit, TypeStep, PathInit, PathStep, AuthInit, AuthStep, AskedInit, AskedStep,
           PTL DEF Spec

\* Between exchanges, a status that an answer brought is the status of the
\* response, and the message was executed unless a HEAD request was answered.
ResponseInv ==
    pc \notin {"send", "receive", "spin"} /\ status \in {OK, Other, Error} =>
        /\ fresh
        /\ response.status = status
        /\ method = "own" => executed = 1
        /\ method = "HEAD" => ForceProxyHead \/ pc = "head"

\* There is no status before the first answer.
LEMMA ResponseInit == Init => ResponseInv
  BY Codes DEF Init, ResponseInv

\* The status the sender acts on is that of the last answer.
LEMMA ResponseStep ==
    TypeOK /\ PathInv /\ ExecutedInv /\ ResponseInv /\ [Next]_vars => ResponseInv'
<1> SUFFICES ASSUME TypeOK, PathInv, ExecutedInv, ResponseInv, [Next]_vars PROVE ResponseInv'
  OBVIOUS
<1> USE DEF ResponseInv, ExecutedInv, PathInv, Place, clientvars, TypeOK, msgvars, Stay,
            Exchange, Goto
<1>0. ForceProxyHead' = ForceProxyHead /\ ForceProxyBasic' = ForceProxyBasic
  BY CallKept
<1>1. CASE UNCHANGED vars
  BY <1>0, <1>1 DEF vars, clientvars
<1>2. CASE Send
  BY <1>2, <1>0, Codes DEF Send
<1>3. CASE NoAnswer
  BY <1>3, <1>0, Codes DEF NoAnswer, Received, MayExecute
<1>4. CASE PeerCloses
  BY <1>4, <1>0, Codes DEF PeerCloses, Received, MayExecute
<1>5. CASE SkipLine
  BY <1>5, <1>0, Codes DEF SkipLine
<1>6. CASE Answer
  <2>1. PICK a \in Answers, typed \in BOOLEAN :
            /\ response' = a
            /\ executed' = MayExecute(a.status)
            /\ Received(IF typed THEN a.status ELSE NoStatus)
    BY <1>6 DEF Answer
  <2>2. fresh' /\ pc' = then /\ method' = method /\ executed = 0
    BY <1>6, <2>1 DEF Answer, Received
  <2>3. status' = a.status \/ status' = NoStatus
    BY <2>1 DEF Received
  <2>4. status' \in {OK, Other, Error} /\ method = "own" => executed' = 1
    BY <2>1, <2>2, <2>3, Codes DEF MayExecute
  <2>5. pc' \notin {"send", "receive", "spin"} /\ status' \in {OK, Other, Error} =>
            response'.status = status'
    BY <2>1, <2>3, Codes
  <2>6. method = "HEAD" => ForceProxyHead \/ pc' = "head"
    BY <1>6, <2>2 DEF Answer
  <2> QED BY <1>0, <2>2, <2>4, <2>5, <2>6
<1>7. CASE HeadersEnd
  BY <1>7, <1>0, Codes DEF HeadersEnd, MayExecute
<1>8. CASE Next /\ Crash
  BY <1>8, <1>0, Codes, CrashPlace DEF Crash
<1>9. CASE Refuse
  BY <1>9, <1>0, Codes DEF Refuse
<1>10. CASE End
  BY <1>10, <1>0, Codes DEF End
<1>11. CASE Begin
  BY <1>11, <1>0, Codes DEF Begin
<1>12. CASE AfterHead /\ ~Crash
  BY <1>12, <1>0, Codes DEF AfterHead
<1>13. CASE AfterHeadOwn
  BY <1>13, <1>0, Codes DEF AfterHeadOwn
<1>14. CASE Proxy /\ ~Crash
  <2>1. UNCHANGED <<fresh, response, executed>>
    BY Zenon, <1>14 DEF Proxy
  <2>2. CASE ~ProxyAsked
    BY <1>14, <1>0, <2>1, <2>2 DEF Proxy
  <2>3. CASE ProxyAsked
    <3>1. pc' = "http" => status' = ProxyRequired
      BY <1>14, <2>3 DEF Proxy, ProxyAsked, AfterProxyConfigured
    <3>2. pc' \in {"http", "send", "proxy_check"}
      BY <1>14, <2>3 DEF Proxy, AfterProxyConfigured
    <3>3. pc' = "proxy_check" => status' = Unauthorized
      BY <1>14, <2>3 DEF Proxy, AfterProxyConfigured
    <3> QED BY <3>1, <3>2, <3>3, Codes
  <2> QED BY <2>2, <2>3
<1>15. CASE ProxyHead
  BY <1>15, <1>0, Codes DEF ProxyHead, AfterProxyConfigured
<1>16. CASE ProxyCheck
  BY <1>16, <1>0, Codes DEF ProxyCheck
<1>17. CASE Http /\ ~Crash
  <2>1. UNCHANGED <<fresh, response, executed, status>>
    BY Zenon, <1>17 DEF Http
  <2>2. CASE status # Unauthorized
    BY <1>17, <1>0, <2>1, <2>2 DEF Http
  <2>3. CASE status = Unauthorized
    BY <2>1, <2>3, Codes
  <2> QED BY <2>2, <2>3
<1>18. CASE HttpHead /\ ~Crash
  BY <1>18, <1>0, Codes DEF HttpHead, HttpAgain
<1>19. CASE HttpOwn /\ ~Crash
  BY <1>19, <1>0, Codes DEF HttpOwn, HttpAgain
<1>20. CASE HttpCheck
  BY <1>20, <1>0, Codes DEF HttpCheck
<1> QED BY <1>1, <1>2, <1>3, <1>4, <1>5, <1>6, <1>7, <1>8, <1>9, <1>10, <1>11, <1>12, <1>13,
           <1>14, <1>15, <1>16, <1>17, <1>18, <1>19, <1>20 DEF Next, Code, Peer

\* A call that returned does nothing more, and three steps end it.
LEMMA ResultSet ==
    ASSUME Next
    PROVE  pc # "done" /\ (result' = result \/ Refuse \/ End \/ Crash)
<1>1. CASE Refuse \/ Begin \/ AfterHeadOwn \/ ProxyHead \/ ProxyCheck \/ HttpCheck \/ End \/ Send
  BY <1>1 DEF Refuse, Begin, AfterHeadOwn, ProxyHead, ProxyCheck, HttpCheck, End, Send
<1>2. CASE AfterHead
  BY <1>2 DEF AfterHead
<1>3. CASE Proxy
  BY <1>3 DEF Proxy
<1>4. CASE Http
  BY <1>4 DEF Http
<1>5. CASE HttpHead \/ HttpOwn
  BY <1>5 DEF HttpHead, HttpOwn, HttpAgain
<1>6. CASE Peer
  BY <1>6 DEF Peer, NoAnswer, PeerCloses, SkipLine, Answer, HeadersEnd, Received
<1> QED BY <1>1, <1>2, <1>3, <1>4, <1>5, <1>6 DEF Next, Code

\* The last section turns the status into SUCCESS only for an answer to the
\* message itself.
LEMMA SuccessStep ==
    TypeOK /\ PathInv /\ ExecutedInv /\ ResponseInv /\ SuccessFromAnswer /\ [Next]_vars =>
        SuccessFromAnswer'
<1> SUFFICES ASSUME TypeOK, PathInv, ExecutedInv, ResponseInv, SuccessFromAnswer, [Next]_vars,
                    result' = "SUCCESS", call'.kind = "soap"
             PROVE  /\ fresh'
                    /\ response'.status = OK \/ response'.xml
                    /\ executed' = 1 \/ (ForceProxyHead' /\ method' = "HEAD")
  BY DEF SuccessFromAnswer
<1>0. call' = call /\ ForceProxyHead' = ForceProxyHead
  BY CallKept
<1>1. CASE result = "SUCCESS"
  <2>1. UNCHANGED vars
    BY <1>1, ResultSet DEF PathInv
  <2> QED BY <1>0, <1>1, <2>1 DEF SuccessFromAnswer, vars, clientvars
<1>2. CASE result # "SUCCESS"
  <2>1. End
    BY <1>2, ResultSet DEF vars, Refuse, Crash
  <2>2. status = OK \/ (status = Error /\ response.xml)
    <3>1. Accepted
      BY <2>1 DEF End
    <3> QED BY Zenon, <1>0, <3>1 DEF Accepted
  <2>3. fresh /\ response.status = status /\ (method = "own" => executed = 1)
        /\ (method = "HEAD" => ForceProxyHead)
    BY <2>1, <2>2 DEF End, ResponseInv
  <2>4. UNCHANGED <<fresh, response, executed, method>>
    BY Zenon, <2>1 DEF End, clientvars
  <2> QED BY <1>0, <2>2, <2>3, <2>4 DEF TypeOK
<1> QED BY <1>1, <1>2

\* SUCCESS is the answer to the message: the status of an earlier exchange, of
\* a HEAD request or of a response that was replaced is not taken for it.
THEOREM SuccessIsAnswer == Spec => []SuccessFromAnswer
<1>1. Init => SuccessFromAnswer
  BY DEF Init, SuccessFromAnswer
<1> QED BY <1>1, TypeInit, TypeStep, PathInit, PathStep, ExecutedInit, ExecutedStep, ResponseInit,
           ResponseStep, SuccessStep, PTL DEF Spec
-----------------------------------------------------------------------------
(* Where a null pointer can be followed.                                   *)

\* A challenge that has no parameters, or broken ones, or that a forced Digest
\* misses.
BadChallenge ==
    \/ "bare" \in {response.www, response.proxy}
    \/ "broken" \in {response.www, response.proxy} /\ call.creds
    \/ call.http = "Digest" /\ response.www = "none"

\* A challenge that the sender cannot split, or whose Digest it cannot compute,
\* is bad: the schemes a caller forces are neither.
LEMMA BadScheme ==
    ASSUME TypeOK, NullPointer(HttpScheme) \/ NullPointer(ProxyScheme)
    PROVE  BadChallenge
<1>1. call.http \notin {"bare", "broken"} /\ call.proxy \notin {"bare", "broken"}
  BY DEF TypeOK, Calls, Forced
<1>2. CASE NullPointer(HttpScheme)
  BY <1>1, <1>2 DEF NullPointer, HttpScheme, BadChallenge
<1>3. CASE NullPointer(ProxyScheme)
  BY <1>1, <1>3 DEF NullPointer, ProxyScheme, BadChallenge
<1> QED BY <1>2, <1>3

\* The pointers the authentication code follows without a test are those of a
\* bad challenge.
LEMMA CrashCause ==
    ASSUME TypeOK, PathInv, Next, Crash
    PROVE  BadChallenge
<1>1. result = "none"
  BY ResultSet DEF PathInv
<1>2. CASE AfterHead
  BY <1>1, <1>2, BadScheme DEF AfterHead, Crash
<1>3. CASE Proxy
  BY <1>1, <1>3, BadScheme DEF Proxy, Crash, BadChallenge
<1>4. CASE Http
  BY <1>1, <1>4, BadScheme DEF Http, Crash, BadChallenge
<1>5. CASE HttpHead \/ HttpOwn
  BY <1>1, <1>5, BadScheme DEF HttpHead, HttpOwn, HttpAgain, Crash
<1>6. AfterHead \/ Proxy \/ Http \/ HttpHead \/ HttpOwn
  BY <1>1
  DEF Next, Code, Peer, Refuse, Begin, AfterHeadOwn, ProxyHead, ProxyCheck, HttpCheck, End, Send,
      NoAnswer, PeerCloses, SkipLine, Answer, HeadersEnd, Received, Crash
<1> QED BY <1>2, <1>3, <1>4, <1>5, <1>6

\* No step crashes for another reason.
LEMMA CrashStep ==
    TypeOK /\ PathInv /\ CrashNeedsBadChallenge /\ [Next]_vars => CrashNeedsBadChallenge'
<1> SUFFICES ASSUME TypeOK, PathInv, CrashNeedsBadChallenge, [Next]_vars, result' = "crash"
             PROVE  BadChallenge'
  BY DEF CrashNeedsBadChallenge, BadChallenge
<1>1. CASE result = "crash"
  <2>1. UNCHANGED vars
    BY <1>1, ResultSet DEF PathInv
  <2> QED BY <1>1, <2>1 DEF CrashNeedsBadChallenge, BadChallenge, vars, msgvars, clientvars
<1>2. CASE result # "crash"
  <2>1. Next /\ Crash
    BY <1>2, ResultSet DEF vars, Refuse, End
  <2> QED BY <2>1, CrashCause DEF BadChallenge, Crash, msgvars, clientvars
<1> QED BY <1>1, <1>2

\* Without a challenge that is bare or broken, or missing where Digest is forced,
\* the authentication code never follows a null pointer.
THEOREM CrashFromChallenge == Spec => []CrashNeedsBadChallenge
<1>1. Init => CrashNeedsBadChallenge
  BY DEF Init, CrashNeedsBadChallenge
<1> QED BY <1>1, TypeInit, TypeStep, PathInit, PathStep, CrashStep, PTL DEF Spec
-----------------------------------------------------------------------------
(* How often the request is repeated.                                     *)

\* Digest and NTLM take two rounds with the proxy and two with the server.
ExchangesBounded == sent.all <= 5 /\ sent.own <= 3

\* How many exchanges there were at most when the sender gets somewhere.
Cap(p) ==
    CASE p = "begin" -> 0
      [] p = "head" -> 1
      [] p = "head_own" -> 2
      [] p = "proxy" -> IF ForceProxyHead \/ ForceProxyBasic THEN 0 ELSE 2
      [] p = "proxy_head" -> 1
      [] p \in {"proxy_check", "http"} -> IF ForceProxyHead THEN 2 ELSE 3
      [] p = "http_head" -> 3
      [] p = "http_own" -> 4
      [] OTHER -> 5

\* In how many of them the message itself was sent.
OwnCap(p) ==
    CASE p \in {"begin", "head", "proxy_head"} -> 0
      [] p \in {"head_own", "http_head"} -> 1
      [] p = "proxy" -> IF ForceProxyHead \/ ForceProxyBasic THEN 0 ELSE 1
      [] p \in {"proxy_check", "http"} -> IF ForceProxyHead THEN 1 ELSE 2
      [] p = "http_own" -> 2
      [] OTHER -> 3

\* These bounds are kept, with room for the exchange under way.
CapInv ==
    /\ sent.all <= Cap(Place) /\ sent.own <= OwnCap(Place)
    /\ pc = "send" => sent.all < Cap(Place)
    /\ pc = "send" /\ method = "own" => sent.own < OwnCap(Place)

\* Nothing is sent before the first section.
LEMMA CapInit == Init => CapInv
  BY DEF Init, CapInv, Cap, OwnCap, Place

\* Each section sends at most once and no section is entered twice.
LEMMA CapStep == TypeOK /\ PathInv /\ CapInv /\ [Next]_vars => CapInv'
<1> SUFFICES ASSUME TypeOK, PathInv, CapInv, [Next]_vars PROVE CapInv'
  OBVIOUS
<1> USE DEF CapInv, PathInv, Place, clientvars, TypeOK, msgvars, Stay, Exchange, Goto
<1>0. ForceProxyHead' = ForceProxyHead /\ ForceProxyBasic' = ForceProxyBasic
  BY CallKept
<1>1. CASE UNCHANGED vars
  BY <1>0, <1>1 DEF vars, clientvars, Cap, OwnCap
<1>2. CASE Send
  <2>1. sent'.all = sent.all + 1
    BY <1>2 DEF Send
  <2>2. sent'.own = IF method = "own" /\ connected' THEN sent.own + 1 ELSE sent.own
    BY <1>2 DEF Send
  <2>3. Place' = Place /\ pc' = "receive" /\ pc = "send"
    BY <1>2 DEF Send
  <2>4. Cap(Place)' = Cap(Place) /\ OwnCap(Place)' = OwnCap(Place)
    BY <1>0, <2>3 DEF Cap, OwnCap
  <2>5. Cap(Place) \in Nat /\ OwnCap(Place) \in Nat
    BY DEF Cap, OwnCap
  <2> QED BY <2>1, <2>2, <2>3, <2>4, <2>5
<1>3. CASE NoAnswer
  BY <1>3, <1>0, Codes DEF NoAnswer, Received, Cap, OwnCap
<1>4. CASE PeerCloses
  BY <1>4, <1>0, Codes DEF PeerCloses, Received, Cap, OwnCap
<1>5. CASE SkipLine
  BY <1>5, <1>0, Codes DEF SkipLine, Cap, OwnCap
<1>6. CASE Answer
  BY <1>6, <1>0, Codes DEF Answer, Received, Cap, OwnCap
<1>7. CASE HeadersEnd
  BY <1>7, <1>0, Codes DEF HeadersEnd, Cap, OwnCap
<1>8. CASE Next /\ Crash
  BY <1>8, <1>0, Codes, CrashPlace DEF Crash, Cap, OwnCap
<1>9. CASE Refuse
  BY <1>9, <1>0, Codes DEF Refuse, Cap, OwnCap
<1>10. CASE End
  BY <1>10, <1>0, Codes DEF End, Cap, OwnCap
<1>11. CASE Begin
  BY <1>11, <1>0, Codes DEF Begin, Cap, OwnCap
<1>12. CASE AfterHead /\ ~Crash
  BY <1>12, <1>0, Codes DEF AfterHead, Cap, OwnCap
<1>13. CASE AfterHeadOwn
  BY <1>13, <1>0, Codes DEF AfterHeadOwn, Cap, OwnCap
<1>14. CASE Proxy /\ ~Crash
  <2>1. sent' = sent /\ pc = "proxy"
    BY Zenon, <1>14 DEF Proxy
  <2>2. \/ pc' \in {"http", "proxy_check"}
        \/ pc' = "send" /\ then' = "proxy_head" /\ method' = "HEAD" /\ ForceProxyHead
        \/ pc' = "send" /\ then' = "proxy_check" /\ ~ForceProxyHead
    BY <1>14 DEF Proxy, AfterProxyConfigured
  <2> QED BY <1>0, <2>1, <2>2 DEF Cap, OwnCap
<1>15. CASE ProxyHead
  BY <1>15, <1>0, Codes DEF ProxyHead, AfterProxyConfigured, Cap, OwnCap
<1>16. CASE ProxyCheck
  BY <1>16, <1>0, Codes DEF ProxyCheck, Cap, OwnCap
<1>17. CASE Http /\ ~Crash
  <2>1. sent' = sent /\ pc = "http"
    BY Zenon, <1>17 DEF Http
  <2>2. \/ pc' = "end"
        \/ pc' = "send" /\ then' = "http_head" /\ method' = "HEAD" /\ ForceProxyHead
        \/ pc' = "send" /\ then' = "http_check" /\ ~ForceProxyHead
    BY <1>17 DEF Http
  <2> QED BY <1>0, <2>1, <2>2 DEF Cap, OwnCap
<1>18. CASE HttpHead /\ ~Crash
  BY <1>18, <1>0, Codes DEF HttpHead, HttpAgain, Cap, OwnCap
<1>19. CASE HttpOwn /\ ~Crash
  BY <1>19, <1>0, Codes DEF HttpOwn, HttpAgain, Cap, OwnCap
<1>20. CASE HttpCheck
  BY <1>20, <1>0, Codes DEF HttpCheck, Cap, OwnCap
<1> QED BY <1>1, <1>2, <1>3, <1>4, <1>5, <1>6, <1>7, <1>8, <1>9, <1>10, <1>11, <1>12, <1>13,
           <1>14, <1>15, <1>16, <1>17, <1>18, <1>19, <1>20 DEF Next, Code, Peer

\* However many schemes are configured, a call takes at most five exchanges and
\* sends the message itself in at most three of them.
THEOREM ExchangesAreBounded == Spec => []ExchangesBounded
<1>1. TypeOK /\ CapInv => ExchangesBounded
  BY DEF TypeOK, CapInv, ExchangesBounded, Cap, OwnCap
<1> QED BY <1>1, TypeInit, TypeStep, PathInit, PathStep, CapInit, CapStep, PTL DEF Spec
=============================================================================
