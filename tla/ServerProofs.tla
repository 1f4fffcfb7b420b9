---------------------------- MODULE ServerProofs ----------------------------
(***************************************************************************)
(* Proofs about Server for any set of requests.                            *)
(***************************************************************************)
EXTENDS Server, FiniteSetTheorems, TLAPS

\* A request as it comes in has the type of a request.
LEMMA NewRequestType ==
    ASSUME NEW m \in Methods
    PROVE  [NewRequest EXCEPT !.method = m] \in RequestType
  BY Zenon DEF NewRequest, RequestType

\* The server starts with its variables in their types.
LEMMA TypeInit == Init => TypeOK
<1> SUFFICES ASSUME Init PROVE TypeOK
  OBVIOUS
<1>1. req \in [Requests -> RequestType]
  BY NewRequestType DEF Init
<1>2. svc \in SvcType
  BY DEF Init, SvcType, DllStates
<1> QED BY <1>1, <1>2 DEF Init, TypeOK


\* Assigning a record to a request.
LEMMA RecordType ==
    ASSUME TypeOK, NEW r \in Requests, NEW f \in RequestType
    PROVE  [req EXCEPT ![r] = f] \in [Requests -> RequestType]
  BY DEF TypeOK

\* Going to the worker's answer.
LEMMA ReturnType ==
    ASSUME TypeOK, NEW r \in Requests, NEW f \in RequestType, NEW failed \in BOOLEAN,
           Return(r, f, failed), Local
    PROVE  TypeOK'
<1>1. [f EXCEPT !.status = ~failed, !.wrong = @ \/ failed] \in RequestType
  <2>1. \A a, b \in BOOLEAN : [f EXCEPT !.status = a, !.wrong = b] \in RequestType
    BY Zenon DEF RequestType
  <2>2. (~failed) \in BOOLEAN /\ (f.wrong \/ failed) \in BOOLEAN
    OBVIOUS
  <2> QED BY Zenon, <2>1, <2>2
<1>2. req' \in [Requests -> RequestType]
  BY <1>1, RecordType DEF Return
<1> QED BY <1>2 DEF TypeOK, Return, Goto, Local

\* The end of the worker.
LEMMA CleanupType ==
    ASSUME TypeOK, NEW r \in Requests, NEW f \in RequestType, Cleanup(r, f)
    PROVE  TypeOK'
<1>1. NewRequest \in RequestType
  BY Zenon DEF NewRequest, RequestType, Methods
<1>2. Freed(f) \in RequestType
  BY Zenon, <1>1 DEF Freed, RequestType
<1>3. req' \in [Requests -> RequestType]
  BY <1>2, RecordType DEF Cleanup
<1> QED BY <1>3 DEF TypeOK, Cleanup, Goto

\* Writing an answer keeps the types.
LEMMA WriteType ==
    ASSUME TypeOK, NEW r \in Requests, NEW code \in Nat, Write(r, code)
    PROVE  TypeOK'
<1>1. req[r] \in RequestType
  BY DEF TypeOK
<1>2. req[r].writes + 1 \in Nat
  BY <1>1 DEF RequestType
<1>3. Written(req[r], code) \in RequestType
  BY Zenon, <1>1, <1>2 DEF Written, RequestType
<1> QED BY <1>3, CleanupType DEF Write

\* Codes are numbers.
LEMMA CodeTypes ==
    /\ ServiceCodes \subseteq Nat
    /\ \A c \in Nat : FailureCodes(c) \subseteq Nat
  BY DEF ServiceCodes, FailureCodes, Conflict, NotModified, NotFound, NotAllowed, InternalError

\* Objecting to the reply writes between one and three answers.
LEMMA ObjectionCount ==
    ASSUME NEW r, NEW s \in (SUBSET Objections(r)) \ {{}}
    PROVE  Cardinality(s) \in 1..3
<1>1. s \subseteq {"type", "charset", "language"} /\ s # {}
  <2>1. Objections(r) \subseteq {"type", "charset", "language"}
    BY Zenon DEF Objections
  <2> QED BY Zenon, <2>1
<1>2. /\ IsFiniteSet({"type", "charset", "language"})
      /\ Cardinality({"type", "charset", "language"}) = 3
  <2> DEFINE one == {"type"}
             two == one \cup {"charset"}
             three == two \cup {"language"}
  <2>1. IsFiniteSet(one) /\ Cardinality(one) = 1
    BY FS_Singleton
  <2>2. "charset" \notin one /\ "language" \notin two
    OBVIOUS
  <2>3. three = {"type", "charset", "language"}
    OBVIOUS
  <2>4. IsFiniteSet(two) /\ Cardinality(two) = 2
    <3> HIDE DEF one
    <3> QED BY <2>1, <2>2, FS_AddElement
  <2>5. IsFiniteSet(three) /\ Cardinality(three) = 3
    <3> HIDE DEF two
    <3> QED BY <2>2, <2>4, FS_AddElement
  <2> QED BY <2>3, <2>5
<1>3. IsFiniteSet(s) /\ Cardinality(s) <= Cardinality({"type", "charset", "language"})
  BY <1>1, <1>2, FS_Subset
<1>4. Cardinality(s) \in Nat
  BY <1>3, FS_CardinalityType
<1>5. Cardinality(s) # 0
  BY <1>1, <1>3, FS_EmptySet
<1> QED BY <1>2, <1>3, <1>4, <1>5

\* Every action keeps the types.
LEMMA TypeStep == TypeOK /\ [Next]_vars => TypeOK'
<1> SUFFICES ASSUME TypeOK, [Next]_vars PROVE TypeOK'
  OBVIOUS
<1>1. CASE UNCHANGED vars
  BY <1>1 DEF TypeOK, vars
<1>2. ASSUME NEW r \in Requests, Worker(r) PROVE TypeOK'
  <2>1. req[r] \in RequestType
    BY DEF TypeOK
  <2> DEFINE f == req[r]
  <2> f \in RequestType
    BY <2>1
  <2>2. CASE Drop(r)
    BY <2>2 DEF Drop, Goto, Local, TypeOK
  <2>3. CASE Reject(r)
    BY <2>3, WriteType DEF Reject, LengthRequired, BadRequest
  <2>4. CASE Unimplemented(r)
    BY <2>1, <2>4, ReturnType DEF Unimplemented
  <2>5. CASE UnprocessedGet(r)
    <3>1. PICK page \in BOOLEAN : Return(r, [f EXCEPT !.page = page], ~page)
      BY <2>5 DEF UnprocessedGet
    <3>2. [f EXCEPT !.page = page] \in RequestType
      BY Zenon DEF RequestType
    <3>3. Local /\ (~page) \in BOOLEAN
      BY <2>5 DEF UnprocessedGet
    <3> QED BY ONLY TypeOK, r \in Requests, <3>1, <3>2, <3>3, ReturnType
  <2>6. CASE UnprocessedBody(r)
    <3>1. PICK b \in BOOLEAN : Return(r, [f EXCEPT !.httpError = b], TRUE)
      BY <2>6 DEF UnprocessedBody
    <3>2. [f EXCEPT !.httpError = b] \in RequestType
      BY Zenon DEF RequestType
    <3>3. Local
      BY <2>6 DEF UnprocessedBody
    <3> QED BY <3>1, <3>2, <3>3, ReturnType
  <2>7. CASE Parse(r)
    <3>1. [f EXCEPT !.processed = TRUE] \in RequestType
      BY Zenon DEF RequestType
    <3>2. req' \in [Requests -> RequestType]
      BY <2>7, <3>1, RecordType DEF Parse
    <3> QED BY <2>7, <3>2 DEF Parse, Goto, Local, TypeOK
  <2>8. CASE DispatchFails(r) \/ Pauses(r)
    BY <2>1, <2>8, ReturnType DEF DispatchFails, Pauses
  <2>31. CASE NoBuilder(r)
    BY <2>31 DEF NoBuilder, Crash, TypeOK
  <2>32. CASE NoSvcCtx(r)
    <3>1. [f EXCEPT !.opCtx = TRUE] \in RequestType
      BY Zenon DEF RequestType
    <3> QED BY <2>32, <3>1, ReturnType DEF NoSvcCtx
  <2>9. CASE LookupGroup(r)
    <3>1. [f EXCEPT !.opCtx = TRUE, !.group = groupCtx] \in RequestType
      <4>1. groupCtx \in Requests \cup {None}
        BY DEF TypeOK
      <4> QED BY Zenon, <4>1 DEF RequestType
    <3>2. req' \in [Requests -> RequestType]
      <4>1. req' = [req EXCEPT ![r] = [f EXCEPT !.opCtx = TRUE, !.group = groupCtx]]
        BY Zenon, <2>9 DEF LookupGroup
      <4> QED BY <3>1, <4>1, RecordType
    <3> QED BY <2>9, <3>2 DEF LookupGroup, Goto, TypeOK
  <2>10. CASE RegisterGroup(r)
    <3>1. [f EXCEPT !.group = r] \in RequestType
      BY Zenon DEF RequestType
    <3>2. req' \in [Requests -> RequestType]
      BY <2>10, <3>1, RecordType DEF RegisterGroup
    <3> QED BY <2>10, <3>2 DEF RegisterGroup, GroupAfter, Goto, TypeOK
  <2>11. CASE PhaseFails(r)
    BY <2>1, <2>11, ReturnType DEF PhaseFails
  <2>12. CASE Receive(r)
    <3>1. [f EXCEPT !.out = "live"] \in RequestType
      BY Zenon DEF RequestType
    <3>2. req' \in [Requests -> RequestType]
      BY <2>12, <3>1, RecordType DEF Receive
    <3> QED BY <2>12, <3>2 DEF Receive, Goto, Local, TypeOK
  <2>13. ASSUME NEW b \in BOOLEAN PROVE [f EXCEPT !.obj = b] \in RequestType
    BY Zenon, <2>13 DEF RequestType
  <2>14. CASE GetImpl(r)
    <3>1. svc.impl \in BOOLEAN
      BY DEF TypeOK, SvcType
    <3>2. req' \in [Requests -> RequestType]
      BY <2>13, <2>14, <3>1, RecordType DEF GetImpl
    <3> QED BY <2>14, <3>2 DEF GetImpl, Goto, Local, TypeOK
  <2>15. CASE Lock(r)
    <3>1. svc.impl \in BOOLEAN
      BY DEF TypeOK, SvcType
    <3>2. req' \in [Requests -> RequestType]
      BY <2>13, <2>15, <3>1, RecordType DEF Lock, LoadedMeanwhile, TypeOK
    <3>3. [svc EXCEPT !.mutex = r] \in SvcType
      BY Zenon DEF TypeOK, SvcType
    <3> QED BY <2>15, <3>2, <3>3 DEF Lock, Goto, TypeOK
  <2>16. CASE LoadLibrary(r) \/ LoadAgain(r)
    <3>1. \A dll \in DllStates : NotLoaded(r, dll) => TypeOK'
      <4> SUFFICES ASSUME NEW dll \in DllStates, NotLoaded(r, dll) PROVE TypeOK'
        OBVIOUS
      <4>1. [svc EXCEPT !.dll = dll] \in SvcType
        BY Zenon DEF TypeOK, SvcType
      <4> QED BY <4>1 DEF NotLoaded, Goto, TypeOK
    <3>2. Create(r) => TypeOK'
      <4> SUFFICES ASSUME Create(r) PROVE TypeOK'
        OBVIOUS
      <4>1. CASE NotLoaded(r, "closed")
        BY <3>1, <4>1 DEF DllStates
      <4>2. CASE ~NotLoaded(r, "closed")
        <5>1. req' \in [Requests -> RequestType]
          BY <2>13, <4>2, RecordType DEF Create
        <5>2. [svc EXCEPT !.dll = "loaded"] \in SvcType
          BY Zenon DEF TypeOK, SvcType, DllStates
        <5> QED BY <4>2, <5>1, <5>2 DEF Create, Goto, TypeOK
      <4> QED BY <4>1, <4>2
    <3>3. Crash("unloaded library") => TypeOK'
      BY DEF Crash, TypeOK
    <3> QED BY <2>16, <3>1, <3>2, <3>3 DEF LoadLibrary, LoadAgain, DllStates
  <2>17. CASE InitSvc(r)
    <3>1. svc.inits + 1 \in Nat
      <4>1. svc \in SvcType
        BY DEF TypeOK
      <4> QED BY <4>1 DEF SvcType
    <3>2. [svc EXCEPT !.inits = @ + 1] \in SvcType
      BY Zenon, <3>1 DEF TypeOK, SvcType
    <3> QED BY <2>17, <3>2 DEF InitSvc, Goto, TypeOK
  <2>18. CASE Publish(r)
    <3>1. f.obj \in BOOLEAN
      BY DEF RequestType
    <3>2. [svc EXCEPT !.impl = f.obj, !.mutex = Unlocked(r)] \in SvcType
      BY Zenon, <3>1 DEF TypeOK, SvcType, Unlocked
    <3> QED BY <2>18, <3>2 DEF Publish, Goto, TypeOK
  <2>19. CASE Invoke(r)
    <3>1. PICK own \in {"none", "reply", "fault"}, result \in BOOLEAN, oneWay \in BOOLEAN,
               error \in BOOLEAN, c \in ServiceCodes :
               req' = [req EXCEPT ![r] = Served(req[r], own, result, oneWay, error, c)]
      BY Zenon, <2>19 DEF Invoke
    <3>2. Envelope(own, result, oneWay, error) \in {"none", "reply", "fault"}
      BY DEF Envelope
    <3>3. (~result /\ ~error) \in BOOLEAN
      OBVIOUS
    <3>4. (IF ~result /\ error THEN c ELSE f.code) \in Nat
      BY CodeTypes DEF RequestType
    <3>5. \A e \in {"none", "reply", "fault"}, b \in BOOLEAN, m, n \in Nat :
              [f EXCEPT !.body = e, !.outCode = m, !.noContent = b, !.code = n] \in RequestType
      BY Zenon DEF RequestType
    <3>6. Served(f, own, result, oneWay, error, c) \in RequestType
      BY Zenon, <3>2, <3>3, <3>4, <3>5, CodeTypes DEF Served
    <3>7. req' \in [Requests -> RequestType]
      BY <3>1, <3>6, RecordType
    <3> QED BY <2>19, <3>7 DEF Invoke, Goto, Local, TypeOK
  <2>20. CASE NoObject(r)
    <3>1. [f EXCEPT !.body = "fault"] \in RequestType
      BY Zenon DEF RequestType
    <3>2. req' \in [Requests -> RequestType]
      BY <2>20, <3>1, RecordType DEF NoObject
    <3> QED BY <2>20, <3>2 DEF NoObject, Goto, Local, TypeOK
  <2>21. CASE InvokeFails(r)
    <3>1. [f EXCEPT !.out = "freed"] \in RequestType
      BY Zenon DEF RequestType
    <3> QED BY <2>21, <3>1, ReturnType DEF InvokeFails
  <2>22. CASE Fault(r)
    <3>1. AfterFault([f EXCEPT !.wrong = TRUE]) \in RequestType
      BY Zenon DEF AfterFault, RequestType
    <3> QED BY <2>22, <3>1, ReturnType DEF Fault, FaultFails
  <2>23. CASE SendReply(r)
    <3>1. \A b \in BOOLEAN : [f EXCEPT !.written = b] \in RequestType
      BY Zenon DEF RequestType
    <3> QED BY <2>23, <3>1, ReturnType DEF SendReply
  <2>24. CASE NoReply(r)
    BY <2>24, ReturnType DEF NoReply
  <2>25. f.code \in Nat /\ f.outCode \in Nat /\ f.writes \in Nat
    BY DEF RequestType
  <2>26. CASE AnswerGet(r) \/ AnswerRestFailure(r)
    BY <2>25, <2>26, CodeTypes, WriteType DEF AnswerGet, AnswerRestFailure, OK
  <2>27. CASE AnswerSoapFailure(r) \/ AnswerNotImplemented(r)
    BY <2>27, WriteType
    DEF AnswerSoapFailure, AnswerNotImplemented, Unsupported, InternalError, NotImplemented
  <2>28. CASE AnswerNotAcceptable(r)
    <3>1. PICK s \in (SUBSET Objections(r)) \ {{}} : Cleanup(r, NotAccepted(f, s))
      BY <2>28 DEF AnswerNotAcceptable
    <3>2. f.writes + Cardinality(s) \in Nat
      BY <2>25, ObjectionCount
    <3>3. NotAcceptable \in Nat
      BY DEF NotAcceptable
    <3>4. NotAccepted(f, s) \in RequestType
      BY Zenon, <3>2, <3>3 DEF NotAccepted, RequestType
    <3> QED BY <3>1, <3>4, CleanupType
  <2>29. CASE Answer(r)
    <3>1. WrittenCode(r) \in Nat /\ UnwrittenCode(r) \in Nat
      BY <2>25 DEF WrittenCode, UnwrittenCode, OK, Accepted, NoContent, NotModified, Conflict
    <3> QED BY <2>29, <3>1, WriteType DEF Answer
  <2>30. CASE AnswerFreed(r)
    BY <2>30 DEF AnswerFreed, Crash, TypeOK
  <2> QED BY <1>2, <2>2, <2>3, <2>4, <2>5, <2>6, <2>7, <2>8, <2>9, <2>10, <2>11, <2>12, <2>14,
             <2>15, <2>16, <2>17, <2>18, <2>19, <2>20, <2>21, <2>22, <2>23, <2>24, <2>26, <2>27,
             <2>28, <2>29, <2>30, <2>31, <2>32 DEF Worker
<1> QED BY <1>1, <1>2 DEF Next

\* The state of the worker threads, of the message contexts they hold and of
\* what they share keeps its type.
THEOREM TypeCorrect == Spec => []TypeOK
  BY TypeInit, TypeStep, PTL DEF Spec
-----------------------------------------------------------------------------
(* What the three ways of going on do to the fields.                       *)

\* A step of one request leaves the others alone.
Others(r) ==
    \A q \in Requests \ {r} : pc'[q] = pc[q] /\ req'[q] = req[q] /\ before'[q] = before[q]

\* Return changes the status of the request and whether it went wrong.
LEMMA ReturnEffect ==
    ASSUME TypeOK, NEW r \in Requests, NEW f \in RequestType, NEW failed \in BOOLEAN,
           Return(r, f, failed), Local
    PROVE  /\ Others(r)
           /\ pc'[r] = "respond"
           /\ req'[r].status <=> ~failed
           /\ req'[r].wrong <=> f.wrong \/ failed
           /\ req'[r].method = f.method
           /\ req'[r].group = f.group /\ req'[r].out = f.out /\ req'[r].body = f.body
           /\ req'[r].answer = f.answer /\ req'[r].writes = f.writes
           /\ UNCHANGED <<groupCtx, svc, before, process>>
<1>1. req'[r] = [f EXCEPT !.status = ~failed, !.wrong = f.wrong \/ failed]
  BY DEF TypeOK, Return
<1>2. /\ req'[r].status = ~failed /\ req'[r].wrong = (f.wrong \/ failed)
      /\ req'[r].method = f.method
      /\ req'[r].group = f.group /\ req'[r].out = f.out /\ req'[r].body = f.body
      /\ req'[r].answer = f.answer /\ req'[r].writes = f.writes
  BY <1>1 DEF RequestType
<1>3. Others(r) /\ pc'[r] = "respond" /\ UNCHANGED <<groupCtx, svc, before, process>>
  BY DEF TypeOK, Return, Goto, Local, Others
<1> QED BY <1>2, <1>3

\* Cleanup keeps what happened to the request, and an out message context that
\* was freed already costs the process.
LEMMA CleanupEffect ==
    ASSUME TypeOK, NEW r \in Requests, NEW f \in RequestType, Cleanup(r, f)
    PROVE  /\ Others(r)
           /\ pc'[r] = "done"
           /\ req'[r].wrong = f.wrong
           /\ req'[r].method = f.method
           /\ req'[r].group = f.group
           /\ req'[r].answer = f.answer /\ req'[r].writes = f.writes
           /\ f.out = "freed" =>
                  req'[r].out = "freed" /\ req'[r].body = f.body /\ process' = "freed context"
           /\ f.out # "freed" => req'[r].out = "none" /\ process' = process
           /\ UNCHANGED <<groupCtx, svc, before>>
<1>1. req'[r] = IF f.out = "freed" THEN f ELSE Freed(f)
  BY DEF TypeOK, Cleanup
<1>2. /\ Freed(f).wrong = f.wrong /\ Freed(f).method = f.method /\ Freed(f).group = f.group
      /\ Freed(f).answer = f.answer /\ Freed(f).writes = f.writes /\ Freed(f).out = "none"
  BY DEF Freed, NewRequest
<1>3. /\ Others(r) /\ pc'[r] = "done" /\ UNCHANGED <<groupCtx, svc, before>>
      /\ f.out = "freed" => process' = "freed context"
      /\ f.out # "freed" => process' = process
  BY DEF TypeOK, Cleanup, Goto, Others
<1> QED BY <1>1, <1>2, <1>3

\* Write is Cleanup after one answer.
LEMMA WriteEffect ==
    ASSUME TypeOK, NEW r \in Requests, NEW code \in Nat, Write(r, code)
    PROVE  /\ Others(r)
           /\ pc'[r] = "done"
           /\ req'[r].wrong = req[r].wrong
           /\ req'[r].method = req[r].method
           /\ req'[r].group = req[r].group
           /\ req'[r].answer = code /\ req'[r].writes = req[r].writes + 1
           /\ req[r].out = "freed" =>
                  req'[r].out = "freed" /\ req'[r].body = req[r].body /\ process' = "freed context"
           /\ req[r].out # "freed" => req'[r].out = "none" /\ process' = process
           /\ UNCHANGED <<groupCtx, svc, before>>
<1> DEFINE f == Written(req[r], code)
<1>1. req[r] \in RequestType
  BY DEF TypeOK
<1>2. req[r].writes + 1 \in Nat
  BY <1>1 DEF RequestType
<1>3. f \in RequestType
  BY Zenon, <1>1, <1>2 DEF Written, RequestType
<1>4. /\ f.wrong = req[r].wrong /\ f.method = req[r].method /\ f.group = req[r].group
      /\ f.answer = code /\ f.writes = req[r].writes + 1 /\ f.out = req[r].out
      /\ f.body = req[r].body
  BY <1>1 DEF Written, RequestType
<1>5. Cleanup(r, f)
  BY DEF Write
<1>6. /\ Others(r) /\ pc'[r] = "done" /\ req'[r].wrong = f.wrong
      /\ req'[r].method = f.method /\ req'[r].group = f.group
      /\ req'[r].answer = f.answer /\ req'[r].writes = f.writes
      /\ f.out = "freed" =>
             req'[r].out = "freed" /\ req'[r].body = f.body /\ process' = "freed context"
      /\ f.out # "freed" => req'[r].out = "none" /\ process' = process
      /\ UNCHANGED <<groupCtx, svc, before>>
  <2> HIDE DEF f
  <2> QED BY <1>3, <1>5, CleanupEffect
<1> HIDE DEF f
<1> QED BY <1>4, <1>6

\* The steps with which a request leaves the engine.
Leaves(r) ==
    \/ Unimplemented(r) \/ UnprocessedGet(r) \/ UnprocessedBody(r) \/ DispatchFails(r)
    \/ Pauses(r) \/ NoSvcCtx(r) \/ PhaseFails(r) \/ InvokeFails(r) \/ Fault(r) \/ SendReply(r)
    \/ NoReply(r)

\* What every way back from the engine to the worker does.
LEMMA LeaveEffect ==
    ASSUME TypeOK, NEW r \in Requests, Leaves(r)
    PROVE  /\ Others(r)
           /\ pc[r] \in {"parse", "engine", "register", "phases", "invoke", "reply"}
           /\ pc'[r] = "respond"
           /\ ~req[r].wrong => (req'[r].wrong <=> ~req'[r].status)
           /\ req'[r].method = req[r].method
           /\ req'[r].group = req[r].group /\ req'[r].body = req[r].body
           /\ req'[r].out = req[r].out \/ (req'[r].out = "freed" /\ pc[r] = "invoke")
           /\ req'[r].answer = req[r].answer /\ req'[r].writes = req[r].writes
           /\ UNCHANGED <<groupCtx, svc, before, process>>
<1> DEFINE f == req[r]
           same(g) == /\ g.wrong = f.wrong /\ g.method = f.method /\ g.group = f.group
                      /\ g.body = f.body /\ g.answer = f.answer /\ g.writes = f.writes
<1>1. f \in RequestType
  BY DEF TypeOK
<1>2. Local /\ process = "up" /\ pc[r] \in {"parse", "engine", "register", "phases", "invoke", "reply"}
  BY DEF Leaves, Unimplemented, UnprocessedGet, UnprocessedBody, DispatchFails, Pauses, NoSvcCtx,
         PhaseFails, InvokeFails, Fault, SendReply, NoReply, At
<1>3. \E g \in RequestType, failed \in BOOLEAN :
          /\ Return(r, g, failed)
          /\ same(g) \/ (same([g EXCEPT !.wrong = f.wrong]) /\ g.wrong = TRUE /\ failed)
          /\ g.out = f.out \/ (g.out = "freed" /\ pc[r] = "invoke")
  <2>1. CASE \E failed \in BOOLEAN : Return(r, f, failed)
    BY <1>1, <2>1
  <2>2. CASE UnprocessedGet(r)
    <3>1. PICK page \in BOOLEAN : Return(r, [f EXCEPT !.page = page], ~page)
      BY <2>2 DEF UnprocessedGet
    <3> DEFINE g == [f EXCEPT !.page = page]
               failed == ~page
    <3>2. g \in RequestType
      BY Zenon, <1>1 DEF RequestType
    <3>3. same(g) /\ g.out = f.out
      BY <1>1 DEF RequestType
    <3>4. failed \in BOOLEAN
      OBVIOUS
    <3>5. Return(r, g, failed)
      BY <3>1
    <3> HIDE DEF g, failed
    <3> QED BY <3>2, <3>3, <3>4, <3>5
  <2>3. CASE UnprocessedBody(r)
    <3>1. PICK b \in BOOLEAN : Return(r, [f EXCEPT !.httpError = b], TRUE)
      BY <2>3 DEF UnprocessedBody
    <3> DEFINE g == [f EXCEPT !.httpError = b]
    <3>2. g \in RequestType
      BY Zenon, <1>1 DEF RequestType
    <3>3. same(g) /\ g.out = f.out
      BY <1>1 DEF RequestType
    <3>4. Return(r, g, TRUE)
      BY <3>1
    <3> HIDE DEF g
    <3> QED BY <3>2, <3>3, <3>4
  <2>4. CASE InvokeFails(r)
    <3> DEFINE g == [f EXCEPT !.out = "freed"]
    <3>1. g \in RequestType
      BY Zenon, <1>1 DEF RequestType
    <3>2. same(g) /\ g.out = "freed"
      BY <1>1 DEF RequestType
    <3>3. Return(r, g, TRUE) /\ pc[r] = "invoke"
      BY <2>4 DEF InvokeFails, At
    <3> HIDE DEF g
    <3> QED BY <3>1, <3>2, <3>3
  <2>5. CASE Fault(r)
    <3> DEFINE g == AfterFault([f EXCEPT !.wrong = TRUE])
    <3>1. g \in RequestType
      BY Zenon, <1>1 DEF AfterFault, RequestType
    <3>2. same([g EXCEPT !.wrong = f.wrong]) /\ g.wrong = TRUE /\ g.out = f.out
      BY <1>1 DEF AfterFault, RequestType
    <3>3. Return(r, g, TRUE)
      BY <2>5 DEF Fault, FaultFails
    <3> HIDE DEF g
    <3> QED BY <3>1, <3>2, <3>3
  <2>6. CASE \E b \in BOOLEAN : Return(r, [f EXCEPT !.written = b], FALSE)
    <3>1. PICK b \in BOOLEAN : Return(r, [f EXCEPT !.written = b], FALSE)
      BY <2>6
    <3> DEFINE g == [f EXCEPT !.written = b]
    <3>2. g \in RequestType
      BY Zenon, <1>1 DEF RequestType
    <3>3. same(g) /\ g.out = f.out
      BY <1>1 DEF RequestType
    <3>4. Return(r, g, FALSE)
      BY <3>1
    <3> HIDE DEF g
    <3> QED BY <3>2, <3>3, <3>4
  <2>7. CASE NoSvcCtx(r)
    <3> DEFINE g == [f EXCEPT !.opCtx = TRUE]
    <3>1. g \in RequestType
      BY Zenon, <1>1 DEF RequestType
    <3>2. same(g) /\ g.out = f.out
      BY <1>1 DEF RequestType
    <3>3. Return(r, g, TRUE)
      BY <2>7 DEF NoSvcCtx
    <3> HIDE DEF g
    <3> QED BY <3>1, <3>2, <3>3
  <2> QED BY <2>1, <2>2, <2>3, <2>4, <2>5, <2>6, <2>7
          DEF Leaves, Unimplemented, DispatchFails, Pauses, PhaseFails, SendReply, NoReply
<1>4. PICK g \in RequestType, failed \in BOOLEAN :
          /\ Return(r, g, failed)
          /\ same(g) \/ (same([g EXCEPT !.wrong = f.wrong]) /\ g.wrong = TRUE /\ failed)
          /\ g.out = f.out \/ (g.out = "freed" /\ pc[r] = "invoke")
  BY <1>3
<1>5. /\ Others(r) /\ pc'[r] = "respond"
      /\ req'[r].status <=> ~failed
      /\ req'[r].wrong <=> g.wrong \/ failed
      /\ req'[r].method = g.method
      /\ req'[r].group = g.group /\ req'[r].out = g.out /\ req'[r].body = g.body
      /\ req'[r].answer = g.answer /\ req'[r].writes = g.writes
      /\ UNCHANGED <<groupCtx, svc, before, process>>
  BY <1>2, <1>4, ReturnEffect
<1>6. /\ g.method = f.method /\ g.group = f.group /\ g.body = f.body
      /\ g.answer = f.answer /\ g.writes = f.writes
      /\ g.wrong = f.wrong \/ (g.wrong = TRUE /\ failed)
  BY <1>4 DEF RequestType
<1>7. ~f.wrong => (req'[r].wrong <=> ~req'[r].status)
  BY <1>5, <1>6
<1> QED BY <1>2, <1>4, <1>5, <1>6, <1>7

\* The steps that answer a request.
Answers(r) ==
    \/ Reject(r) \/ AnswerGet(r) \/ AnswerRestFailure(r) \/ AnswerSoapFailure(r)
    \/ AnswerNotImplemented(r) \/ AnswerNotAcceptable(r) \/ Answer(r)

\* Each of them ends the request with one to three answers, of which only those
\* with a failure code go to a PUT or POST that the engine failed.
LEMMA AnswerEffect ==
    ASSUME TypeOK, NEW r \in Requests, Answers(r)
    PROVE  /\ Others(r)
           /\ pc[r] \in {"parse", "respond"}
           /\ pc'[r] = "done"
           /\ req'[r].wrong = req[r].wrong
           /\ req'[r].method = req[r].method
           /\ req'[r].group = req[r].group
           /\ \/ req'[r].writes = req[r].writes + 1
              \/ /\ req'[r].writes \in (req[r].writes + 1)..(req[r].writes + 3)
                 /\ req'[r].answer = NotAcceptable
           /\ \/ req'[r].answer >= BadRequest
              \/ req[r].method = "GET"
              \/ pc[r] = "respond" /\ req[r].status
           /\ req[r].out = "freed" =>
                  req'[r].out = "freed" /\ req'[r].body = req[r].body /\ process' = "freed context"
           /\ req[r].out # "freed" => req'[r].out = "none" /\ process' = process
           /\ UNCHANGED <<groupCtx, svc, before>>
<1> DEFINE f == req[r]
<1>1. f \in RequestType
  BY DEF TypeOK
<1>2. f.writes \in Nat /\ f.code \in Nat /\ f.outCode \in Nat
  BY <1>1 DEF RequestType
<1>3. pc[r] \in {"parse", "respond"}
  BY DEF Answers, Reject, AnswerGet, AnswerRestFailure, AnswerSoapFailure, AnswerNotImplemented,
         AnswerNotAcceptable, Answer, Unanswered, At
<1>4. CASE AnswerNotAcceptable(r)
  <2>1. PICK s \in (SUBSET Objections(r)) \ {{}} : Cleanup(r, NotAccepted(f, s))
    BY <1>4 DEF AnswerNotAcceptable
  <2> DEFINE n == Cardinality(s)
             g == NotAccepted(f, s)
  <2>2. n \in 1..3
    BY ObjectionCount
  <2>3. f.writes + n \in Nat /\ NotAcceptable \in Nat
    BY <1>2, <2>2 DEF NotAcceptable
  <2>4. g \in RequestType
    BY Zenon, <1>1, <2>3 DEF NotAccepted, RequestType
  <2>5. /\ g.wrong = f.wrong /\ g.method = f.method /\ g.group = f.group
        /\ g.answer = NotAcceptable /\ g.writes = f.writes + n /\ g.out = f.out
        /\ g.body = f.body
    BY <1>1 DEF NotAccepted, RequestType
  <2>6. Cleanup(r, g)
    BY <2>1
  <2>7. /\ Others(r) /\ pc'[r] = "done" /\ req'[r].wrong = g.wrong
        /\ req'[r].method = g.method /\ req'[r].group = g.group
        /\ req'[r].answer = g.answer /\ req'[r].writes = g.writes
        /\ g.out = "freed" =>
               req'[r].out = "freed" /\ req'[r].body = g.body /\ process' = "freed context"
        /\ g.out # "freed" => req'[r].out = "none" /\ process' = process
        /\ UNCHANGED <<groupCtx, svc, before>>
    <3> HIDE DEF g
    <3> QED BY <2>4, <2>6, CleanupEffect
  <2>8. req'[r].writes \in (f.writes + 1)..(f.writes + 3) /\ req'[r].answer = NotAcceptable
    <3>1. \A k \in Nat, m \in 1..3 : k + m \in (k + 1)..(k + 3)
      OBVIOUS
    <3>2. f.writes + n \in (f.writes + 1)..(f.writes + 3)
      <4> HIDE DEF f, n
      <4> QED BY <1>2, <2>2, <3>1
    <3>3. req'[r].writes = f.writes + n /\ req'[r].answer = NotAcceptable
      BY Zenon, <2>5, <2>7
    <3> QED BY Zenon, <3>2, <3>3
  <2>9. NotAcceptable >= BadRequest
    BY DEF NotAcceptable, BadRequest
  <2> HIDE DEF g, n
  <2> QED BY <1>3, <2>5, <2>7, <2>8, <2>9
<1>5. CASE ~AnswerNotAcceptable(r)
  <2>1. \E code \in Nat :
            /\ Write(r, code)
            /\ \/ code >= BadRequest
               \/ f.method = "GET"
               \/ pc[r] = "respond" /\ f.status
    <3>1. CASE Reject(r)
      BY <3>1 DEF Reject, LengthRequired, BadRequest
    <3>2. CASE AnswerGet(r)
      BY <1>2, <3>2, CodeTypes DEF AnswerGet, OK
    <3>3. CASE AnswerRestFailure(r)
      <4>1. PICK code \in FailureCodes(f.code) : Write(r, code)
        BY <3>3 DEF AnswerRestFailure
      <4>2. code \in Nat /\ code >= BadRequest
        BY DEF FailureCodes, NotFound, NotAllowed, Conflict, InternalError, BadRequest
      <4> QED BY <4>1, <4>2
    <3>4. CASE AnswerSoapFailure(r)
      BY <3>4 DEF AnswerSoapFailure, Unsupported, InternalError, BadRequest
    <3>5. CASE AnswerNotImplemented(r)
      BY <3>5 DEF AnswerNotImplemented, NotImplemented, BadRequest
    <3>6. CASE Answer(r)
      <4>1. WrittenCode(r) \in Nat /\ UnwrittenCode(r) \in Nat
        BY <1>2 DEF WrittenCode, UnwrittenCode, OK, Accepted, NoContent, NotModified, Conflict
      <4>2. pc[r] = "respond" /\ (f.method = "GET" \/ f.status)
        BY <3>6 DEF Answer, Unanswered, At
      <4> QED BY <3>6, <4>1, <4>2 DEF Answer
    <3> QED BY <1>5, <3>1, <3>2, <3>3, <3>4, <3>5, <3>6 DEF Answers
  <2>2. PICK code \in Nat :
            /\ Write(r, code)
            /\ \/ code >= BadRequest
               \/ f.method = "GET"
               \/ pc[r] = "respond" /\ f.status
    BY <2>1
  <2> QED BY <1>3, <2>2, WriteEffect
<1> QED BY <1>4, <1>5

\* The steps within the engine and the receiver.
Moves(r) ==
    \/ Drop(r) \/ NoBuilder(r) \/ Parse(r) \/ LookupGroup(r) \/ RegisterGroup(r) \/ Receive(r)
    \/ GetImpl(r) \/ Lock(r) \/ LoadLibrary(r) \/ LoadAgain(r) \/ InitSvc(r) \/ Publish(r)
    \/ Invoke(r) \/ NoObject(r) \/ AnswerFreed(r)

\* They write no answer and report no failure.
LEMMA MoveEffect ==
    ASSUME TypeOK, NEW r \in Requests, Moves(r)
    PROVE  /\ Others(r)
           /\ pc'[r] # "respond" \/ pc'[r] = pc[r]
           /\ req'[r].status = req[r].status
           /\ req'[r].wrong = req[r].wrong
           /\ req'[r].method = req[r].method
           /\ req'[r].answer = req[r].answer /\ req'[r].writes = req[r].writes
<1> DEFINE f == req[r]
           same(g) == /\ g.status = f.status /\ g.wrong = f.wrong /\ g.method = f.method
                      /\ g.answer = f.answer /\ g.writes = f.writes
<1>1. f \in RequestType
  BY DEF TypeOK
<1>2. Others(r)
  BY DEF Others, Moves, Drop, NoBuilder, Parse, LookupGroup, RegisterGroup, Receive, GetImpl, Lock,
         LoadLibrary, LoadAgain, NotLoaded, Create, Crash, InitSvc, Publish, Invoke, NoObject,
         AnswerFreed, Goto, Local, TypeOK
<1>3. pc'[r] # "respond" \/ pc'[r] = pc[r]
  BY DEF Moves, Drop, NoBuilder, Parse, LookupGroup, RegisterGroup, Receive, GetImpl, Lock,
         LoadLibrary, LoadAgain, NotLoaded, Create, Crash, InitSvc, Publish, Invoke, NoObject,
         AnswerFreed, Goto, Local, TypeOK
<1>4. same(req'[r])
  <2>1. CASE req' = req
    BY <2>1
  <2>2. CASE Parse(r)
    BY <1>1, <2>2 DEF Parse, TypeOK, RequestType
  <2>3. CASE LookupGroup(r)
    BY <1>1, <2>3 DEF LookupGroup, TypeOK, RequestType
  <2>4. CASE RegisterGroup(r)
    BY <1>1, <2>4 DEF RegisterGroup, TypeOK, RequestType
  <2>5. CASE Receive(r)
    BY <1>1, <2>5 DEF Receive, TypeOK, RequestType
  <2>6. CASE \E b : req' = [req EXCEPT ![r].obj = b]
    BY <1>1, <2>6 DEF TypeOK, RequestType
  <2>7. CASE Invoke(r)
    <3>1. PICK own \in {"none", "reply", "fault"}, result \in BOOLEAN, oneWay \in BOOLEAN,
               error \in BOOLEAN, c \in ServiceCodes :
               req' = [req EXCEPT ![r] = Served(req[r], own, result, oneWay, error, c)]
      BY Zenon, <2>7 DEF Invoke
    <3>2. req'[r] = Served(f, own, result, oneWay, error, c)
      BY <3>1 DEF TypeOK
    <3>3. same(Served(f, own, result, oneWay, error, c))
      BY <1>1 DEF Served, RequestType
    <3> QED BY Zenon, <3>2, <3>3
  <2>8. CASE NoObject(r)
    BY <1>1, <2>8 DEF NoObject, TypeOK, RequestType
  <2> QED BY Zenon, <2>1, <2>2, <2>3, <2>4, <2>5, <2>6, <2>7, <2>8
          DEF Moves, Drop, NoBuilder, GetImpl, Lock, LoadLibrary, LoadAgain, NotLoaded, Create, Crash,
              InitSvc, Publish, AnswerFreed
<1> QED BY <1>2, <1>3, <1>4

\* Every step of a request is one of these.
LEMMA WorkerCases ==
    ASSUME NEW r \in Requests, Worker(r)
    PROVE  Leaves(r) \/ Answers(r) \/ Moves(r)
  BY DEF Worker, Leaves, Answers, Moves

-----------------------------------------------------------------------------
(* The service is loaded and initialized once.                             *)

\* Who is inside the mutex, and what is known there: nothing is published and
\* the service is initialized exactly if this thread did it.  Outside, the
\* service is initialized exactly if it is published.  An object stands for an
\* open library.
ServiceInv ==
    /\ \A r \in Requests :
           /\ pc[r] \in {"load", "init", "publish"} => svc.mutex = r /\ ~svc.impl
           /\ pc[r] \in {"lock", "load"} => ~req[r].obj
           /\ pc[r] = "load" => svc.inits = 0
           /\ pc[r] = "init" => svc.inits = 0 /\ req[r].obj
           /\ pc[r] \in {"init", "publish"} /\ req[r].obj => svc.dll = "loaded"
           /\ pc[r] = "publish" => svc.inits = IF req[r].obj THEN 1 ELSE 0
           /\ pc[r] = "invoke" /\ req[r].obj => svc.inits = 1 /\ svc.dll = "loaded"
    /\ svc.impl => svc.inits = 1 /\ svc.dll = "loaded"
    /\ svc.mutex = None /\ ~svc.impl => svc.inits = 0
    /\ svc.mutex # None => svc.mutex \in Requests /\ pc[svc.mutex] \in {"load", "init", "publish"}

\* Nobody is in the mutex and nothing is published at the start.
LEMMA ServiceInit == Init => ServiceInv
  BY DEF Init, ServiceInv, NewRequest

\* A request that is not at one of the positions the invariant speaks of.
LEMMA ServiceAway ==
    ASSUME TypeOK, ServiceInv, NEW r \in Requests, Others(r), svc' = svc,
           pc[r] \notin {"load", "init", "publish"},
           pc'[r] \notin {"lock", "load", "init", "publish", "invoke"}
    PROVE  ServiceInv'
<1>1. \A q \in Requests \ {r} : pc'[q] = pc[q] /\ req'[q].obj = req[q].obj
  BY DEF Others
<1>2. svc.mutex # r
  <2> SUFFICES ASSUME svc.mutex = r PROVE FALSE
    OBVIOUS
  <2>1. svc.mutex # None => pc[svc.mutex] \in {"load", "init", "publish"}
    BY DEF ServiceInv
  <2>2. r # None
    BY ServerAssumption
  <2> QED BY <2>1, <2>2
<1> QED BY <1>1, <1>2 DEF ServiceInv

\* Every step keeps this: the mutex and the second test of impl_class make the
\* thread inside the only one to initialize.
LEMMA ServiceStep == TypeOK /\ ServiceInv /\ [Next]_vars => ServiceInv'
<1> SUFFICES ASSUME TypeOK, ServiceInv, [Next]_vars PROVE ServiceInv'
  OBVIOUS
<1>1. CASE UNCHANGED vars
  BY <1>1 DEF ServiceInv, vars
<1>2. ASSUME NEW r \in Requests, Worker(r) PROVE ServiceInv'
  <2>1. CASE Leaves(r)
    BY <2>1, LeaveEffect, ServiceAway
  <2>2. CASE Answers(r)
    BY <2>2, AnswerEffect, ServiceAway
  <2>3. CASE Moves(r)
    <3>1. Others(r)
      BY <2>3, MoveEffect
    <3>2. CASE Drop(r) \/ Parse(r) \/ LookupGroup(r) \/ RegisterGroup(r) \/ Receive(r)
               \/ Invoke(r) \/ NoObject(r)
      <4>1. /\ svc' = svc
            /\ pc[r] \notin {"load", "init", "publish"}
            /\ pc'[r] \notin {"lock", "load", "init", "publish", "invoke"}
        BY <3>2 DEF Drop, NoBuilder, Parse, LookupGroup, RegisterGroup, Receive, Invoke, NoObject,
                    At, Goto, Local, TypeOK
      <4> QED BY <3>1, <4>1, ServiceAway
    <3>a. req[r] \in RequestType /\ svc \in SvcType
      BY DEF TypeOK
    <3>b. /\ svc.impl \in BOOLEAN /\ req[r].obj \in BOOLEAN
          /\ svc.inits \in Nat /\ svc.mutex \in Requests \cup {None}
      BY <3>a DEF RequestType, SvcType
    <3>3. CASE GetImpl(r)
      <4>1. /\ svc' = svc /\ req'[r].obj = svc.impl
            /\ pc[r] = "get impl" /\ pc'[r] = IF svc.impl THEN "invoke" ELSE "lock"
        BY <3>3, <3>a DEF GetImpl, At, Goto, Local, TypeOK, RequestType
      <4> QED BY <3>1, <3>b, <4>1 DEF ServiceInv, Others
    <3>4. CASE Lock(r)
      <4>1. CASE svc.impl
        <5>1. svc' = svc /\ req'[r].obj = svc.impl /\ pc[r] = "lock" /\ pc'[r] = "invoke"
          <6>1. req' = [req EXCEPT ![r].obj = svc.impl] /\ svc' = svc
            BY Zenon, <3>4, <4>1 DEF Lock, LoadedMeanwhile
          <6>2. pc[r] = "lock" /\ pc'[r] = "invoke"
            BY <3>4, <4>1 DEF Lock, LoadedMeanwhile, At, Goto, TypeOK
          <6> QED BY <3>a, <6>1, <6>2 DEF TypeOK, RequestType
        <5> QED BY <3>1, <3>b, <4>1, <5>1 DEF ServiceInv, Others
      <4>2. CASE ~svc.impl /\ ~svc.param
        <5>1. svc' = svc /\ req'[r].obj = svc.impl /\ pc[r] = "lock" /\ pc'[r] = "invoke"
          <6>1. req' = [req EXCEPT ![r].obj = svc.impl] /\ svc' = svc
            BY Zenon, <3>4, <4>2 DEF Lock, LoadedMeanwhile
          <6>2. pc[r] = "lock" /\ pc'[r] = "invoke"
            BY <3>4, <4>2 DEF Lock, LoadedMeanwhile, At, Goto, TypeOK
          <6> QED BY <3>a, <6>1, <6>2 DEF TypeOK, RequestType
        <5> QED BY <3>1, <3>b, <4>2, <5>1 DEF ServiceInv, Others
      <4>3. CASE ~svc.impl /\ svc.param
        <5>1. /\ svc' = [svc EXCEPT !.mutex = r]
              /\ req' = req /\ pc[r] = "lock" /\ pc'[r] = "load" /\ svc.mutex = None
          BY <3>4, <4>3 DEF Lock, LoadedMeanwhile, At, Goto, TypeOK
        <5>2. /\ svc'.impl = svc.impl /\ svc'.inits = svc.inits /\ svc'.mutex = r
              /\ svc'.dll = svc.dll
          BY <3>a, <5>1 DEF SvcType
        <5>3. \A q \in Requests : pc[q] \notin {"load", "init", "publish"}
          BY <5>1, ServerAssumption DEF ServiceInv
        <5>4. svc.inits = 0 /\ ~req[r].obj
          BY <4>3, <5>1 DEF ServiceInv
        <5> QED BY <3>1, <3>b, <4>3, <5>1, <5>2, <5>3, <5>4 DEF ServiceInv, Others
      <4> QED BY <4>1, <4>2, <4>3
    <3>5. CASE \E dll : pc[r] = "load" /\ NotLoaded(r, dll)
      <4>1. req' = req /\ pc'[r] = "publish" /\ pc[r] = "load"
        BY <3>5 DEF NotLoaded, Goto, TypeOK
      <4>2. svc'.impl = svc.impl /\ svc'.inits = svc.inits /\ svc'.mutex = svc.mutex
        BY <3>5, <3>a DEF NotLoaded, SvcType
      <4>3. ~req[r].obj /\ svc.inits = 0 /\ svc.mutex = r /\ ~svc.impl
        BY <4>1 DEF ServiceInv
      <4> QED BY <3>1, <3>b, <4>1, <4>2, <4>3, ServerAssumption DEF ServiceInv, Others
    <3>6. CASE pc[r] = "load" /\ Create(r) /\ ~NotLoaded(r, "closed")
      <4>1. req'[r].obj = TRUE /\ pc'[r] = "init"
        <5>1. req' = [req EXCEPT ![r].obj = TRUE] /\ pc'[r] = "init"
          BY <3>6 DEF Create, Goto, TypeOK
        <5> QED BY <3>a, <5>1 DEF TypeOK, RequestType
      <4>2. /\ svc'.impl = svc.impl /\ svc'.inits = svc.inits /\ svc'.mutex = svc.mutex
            /\ svc'.dll = "loaded"
        BY <3>6, <3>a DEF Create, SvcType
      <4>3. svc.inits = 0 /\ svc.mutex = r /\ ~svc.impl
        BY <3>6 DEF ServiceInv
      <4> QED BY <3>1, <3>b, <3>6, <4>1, <4>2, <4>3, ServerAssumption DEF ServiceInv, Others
    <3>7. CASE \E how : Crash(how)
      BY <3>7 DEF Crash, ServiceInv
    <3>8. CASE InitSvc(r)
      <4>1. req' = req /\ pc[r] = "init" /\ pc'[r] = "publish"
        BY <3>8 DEF InitSvc, At, Goto, TypeOK
      <4>2. /\ svc'.impl = svc.impl /\ svc'.inits = svc.inits + 1 /\ svc'.mutex = svc.mutex
            /\ svc'.dll = svc.dll
        BY <3>8, <3>a DEF InitSvc, SvcType
      <4>3. svc.inits = 0 /\ svc.mutex = r /\ ~svc.impl /\ req[r].obj
        BY <4>1 DEF ServiceInv
      <4>4. \A q \in Requests \ {r} : pc[q] \notin {"load", "init", "publish"}
        BY <4>3 DEF ServiceInv
      <4>5. \A q \in Requests \ {r} : ~(pc[q] = "invoke" /\ req[q].obj)
        BY <4>3 DEF ServiceInv
      <4> QED BY <3>1, <3>b, <4>1, <4>2, <4>3, <4>4, <4>5, ServerAssumption
              DEF ServiceInv, Others
    <3>9. CASE Publish(r)
      <4>1. req' = req /\ pc[r] = "publish" /\ pc'[r] = "invoke"
        BY <3>9 DEF Publish, At, Goto, TypeOK
      <4>2. /\ svc'.impl = req[r].obj /\ svc'.inits = svc.inits /\ svc'.mutex = None
            /\ svc'.dll = svc.dll
        BY <3>9, <3>a DEF Publish, Unlocked, SvcType
      <4>3. svc.mutex = r /\ svc.inits = IF req[r].obj THEN 1 ELSE 0
        BY <4>1 DEF ServiceInv
      <4>4. \A q \in Requests \ {r} : pc[q] \notin {"load", "init", "publish"}
        BY <4>3 DEF ServiceInv
      <4> QED BY <3>1, <3>b, <4>1, <4>2, <4>3, <4>4 DEF ServiceInv, Others
    <3> QED BY Zenon, <2>3, <3>2, <3>3, <3>4, <3>5, <3>6, <3>7, <3>8, <3>9
            DEF Moves, NoBuilder, LoadLibrary, LoadAgain, Create, AnswerFreed, At
  <2> QED BY <1>2, <2>1, <2>2, <2>3, WorkerCases
<1> QED BY <1>1, <1>2 DEF Next

\* However many requests find the service not loaded, it is initialized once,
\* and none calls it before (axis2_msg_recv_load_and_init_svc_impl).
THEOREM ServiceInitializedOnce == Spec => []ServiceReady
<1>1. TypeOK /\ ServiceInv => ServiceReady
  <2> SUFFICES ASSUME TypeOK, ServiceInv PROVE ServiceReady
    OBVIOUS
  <2>1. \A r \in Requests : pc[r] = "invoke" /\ req[r].obj => svc.inits = 1
    BY DEF ServiceInv
  <2>2. CASE svc.impl \/ svc.mutex = None
    BY <2>1, <2>2 DEF ServiceInv, ServiceReady
  <2>3. CASE svc.mutex # None
    <3>1. PICK r \in Requests : pc[r] \in {"load", "init", "publish"}
      BY <2>3 DEF ServiceInv
    <3>2. svc.inits \in {0, 1}
      BY <3>1 DEF ServiceInv
    <3> QED BY <2>1, <3>2 DEF ServiceReady
  <2> QED BY <2>2, <2>3
<1> QED BY <1>1, TypeInit, TypeStep, ServiceInit, ServiceStep, PTL DEF Spec

\* The library of a service stays open under every object made from it: the
\* constructor that fails is one that runs inside the mutex before any object
\* was published (axutil_class_loader_create_dll).
THEOREM LibraryStaysOpen == Spec => []LibraryOutlivesObject
<1>1. TypeOK /\ ServiceInv => LibraryOutlivesObject
  BY DEF ServiceInv, LibraryOutlivesObject
<1> QED BY <1>1, TypeInit, TypeStep, ServiceInit, ServiceStep, PTL DEF Spec

-----------------------------------------------------------------------------
(* Service group contexts are shared by requests that do not overlap.      *)

Early == {"parse", "engine", "register"}

\* A request that holds a group context did so after one came into the map; a
\* request that has not passed the register step holds none, saw none, and did
\* not make the one in the map.
ContextInv ==
    \A r \in Requests :
        /\ req[r].group # None => groupCtx # None
        /\ pc[r] \in Early => req[r].group = None /\ before[r] = {} /\ groupCtx # r
        /\ before[r] # {} => req[r].group # r

\* No request holds a group context at the start.
LEMMA ContextInit == Init => ContextInv
<1> SUFFICES ASSUME Init, NEW r \in Requests
             PROVE  /\ req[r].group = None /\ before[r] = {} /\ groupCtx # r
  BY DEF ContextInv
<1> QED BY ServerAssumption DEF Init, NewRequest

\* A step that does not touch the group contexts.
LEMMA ContextAway ==
    ASSUME TypeOK, ContextInv, NEW r \in Requests, Others(r), UNCHANGED <<groupCtx, before>>,
           req'[r].group = req[r].group, pc'[r] \in Early => pc[r] \in Early
    PROVE  ContextInv'
  BY DEF ContextInv, Others

\* Every step keeps what is known of group contexts.
LEMMA ContextStep == TypeOK /\ ContextInv /\ [Next]_vars => ContextInv'
<1> SUFFICES ASSUME TypeOK, ContextInv, [Next]_vars PROVE ContextInv'
  OBVIOUS
<1>1. CASE UNCHANGED vars
  BY <1>1 DEF ContextInv, vars
<1>2. ASSUME NEW r \in Requests, Worker(r) PROVE ContextInv'
  <2>1. req[r] \in RequestType
    BY DEF TypeOK
  <2>2. CASE Leaves(r)
    BY <2>2, LeaveEffect, ContextAway DEF Early
  <2>3. CASE Answers(r)
    BY <2>3, AnswerEffect, ContextAway DEF Early
  <2>4. CASE Moves(r)
    <3>1. Others(r)
      BY <2>4, MoveEffect
    <3>2. CASE LookupGroup(r)
      <4>1. /\ req'[r].group = groupCtx /\ groupCtx' = groupCtx /\ pc[r] = "engine"
            /\ pc'[r] = IF groupCtx = None THEN "register" ELSE "phases"
        BY <2>1, <3>2 DEF LookupGroup, At, Goto, TypeOK, RequestType
      <4>2. before'[r] = {q \in Requests : req[q].group # None}
        BY <3>2 DEF LookupGroup, TypeOK
      <4>3. groupCtx # r
        BY <4>1 DEF ContextInv, Early
      <4>4. groupCtx = None => before'[r] = {}
        BY <4>2 DEF ContextInv
      <4> QED BY <3>1, <4>1, <4>3, <4>4, ServerAssumption DEF ContextInv, Others, Early
    <3>3. CASE RegisterGroup(r)
      <4>1. /\ req'[r].group = r /\ groupCtx' = r /\ before' = before
            /\ pc[r] = "register" /\ pc'[r] = "phases"
        BY <2>1, <3>3 DEF RegisterGroup, GroupAfter, At, Goto, TypeOK, RequestType
      <4>2. before[r] = {}
        BY <4>1 DEF ContextInv, Early
      <4> QED BY <3>1, <4>1, <4>2, ServerAssumption DEF ContextInv, Others, Early
    <3>4. CASE ~LookupGroup(r) /\ ~RegisterGroup(r)
      <4>1. UNCHANGED <<groupCtx, before>>
        BY <2>4, <3>4
        DEF Moves, Drop, NoBuilder, Parse, Receive, GetImpl, Lock, LoadLibrary, LoadAgain, NotLoaded, Create,
            Crash, InitSvc, Publish, Invoke, NoObject, AnswerFreed, Local
      <4>2. pc'[r] \in Early => pc[r] \in Early
        BY <2>4, <3>4
        DEF Moves, Drop, NoBuilder, Parse, Receive, GetImpl, Lock, LoadLibrary, LoadAgain, NotLoaded, Create,
            Crash, InitSvc, Publish, Invoke, NoObject, AnswerFreed, At, Goto, TypeOK, Early
      <4>3. req'[r].group = req[r].group
        <5>1. CASE req' = req
          BY <5>1
        <5>2. CASE Parse(r)
          BY <2>1, <5>2 DEF Parse, TypeOK, RequestType
        <5>3. CASE Receive(r)
          BY <2>1, <5>3 DEF Receive, TypeOK, RequestType
        <5>4. CASE \E b : req' = [req EXCEPT ![r].obj = b]
          BY <2>1, <5>4 DEF TypeOK, RequestType
        <5>5. CASE Invoke(r)
          <6>1. PICK own \in {"none", "reply", "fault"}, result \in BOOLEAN, oneWay \in BOOLEAN,
                     error \in BOOLEAN, c \in ServiceCodes :
                     req' = [req EXCEPT ![r] = Served(req[r], own, result, oneWay, error, c)]
            BY Zenon, <5>5 DEF Invoke
          <6>2. req'[r] = Served(req[r], own, result, oneWay, error, c)
            BY <6>1 DEF TypeOK
          <6> QED BY <2>1, <6>2 DEF Served, RequestType
        <5>6. CASE NoObject(r)
          BY <2>1, <5>6 DEF NoObject, TypeOK, RequestType
        <5> QED BY Zenon, <2>4, <3>4, <5>1, <5>2, <5>3, <5>4, <5>5, <5>6
                DEF Moves, Drop, NoBuilder, GetImpl, Lock, LoadLibrary, LoadAgain, NotLoaded, Create,
                    Crash, InitSvc, Publish, AnswerFreed
      <4> QED BY <3>1, <4>1, <4>2, <4>3, ContextAway
    <3> QED BY <3>2, <3>3, <3>4
  <2> QED BY <1>2, <2>2, <2>3, <2>4, WorkerCases
<1> QED BY <1>1, <1>2 DEF Next

\* A request that looks for its contexts after another one got them shares
\* them, although the map is read and written without one lock around both
\* (axis2_conf_ctx_fill_ctxs).
THEOREM ContextsShared == Spec => []LaterRequestsShare
<1>1. ContextInv => LaterRequestsShare
  BY DEF ContextInv, LaterRequestsShare
<1> QED BY <1>1, TypeInit, TypeStep, ContextInit, ContextStep, PTL DEF Spec
-----------------------------------------------------------------------------
(* Answers.                                                                *)

\* What is known of a request before its answer: nothing was written, and a
\* request that the engine has not returned, or returned with success, has not
\* gone wrong.
AnswerInv ==
    \A r \in Requests :
        /\ pc[r] # "done" => req[r].writes = 0 /\ req[r].answer = 0
        /\ pc[r] \notin {"respond", "done"} => ~req[r].wrong
        /\ pc[r] = "respond" => (req[r].wrong <=> ~req[r].status)

\* No request is answered at the start.
LEMMA AnswerInit == Init => AnswerInv /\ AnsweredOnce /\ FailureReported
  BY DEF Init, AnswerInv, AnsweredOnce, FailureReported, NewRequest

\* Every way through the ladder of status codes answers once, and with a
\* failure when the request failed.
LEMMA AnswerStep ==
    TypeOK /\ ContextInv /\ AnswerInv /\ AnsweredOnce /\ FailureReported /\ [Next]_vars
        => AnswerInv' /\ AnsweredOnce' /\ FailureReported'
<1> SUFFICES ASSUME TypeOK, ContextInv, AnswerInv, AnsweredOnce, FailureReported, [Next]_vars
             PROVE  AnswerInv' /\ AnsweredOnce' /\ FailureReported'
  OBVIOUS
<1>1. CASE UNCHANGED vars
  BY <1>1 DEF AnswerInv, AnsweredOnce, FailureReported, vars
<1>2. ASSUME NEW r \in Requests, Worker(r)
      PROVE  AnswerInv' /\ AnsweredOnce' /\ FailureReported'
  <2>1. CASE Leaves(r)
    <3>1. /\ Others(r) /\ pc[r] \in {"parse", "engine", "register", "phases", "invoke", "reply"}
          /\ pc'[r] = "respond"
          /\ ~req[r].wrong => (req'[r].wrong <=> ~req'[r].status)
          /\ req'[r].answer = req[r].answer /\ req'[r].writes = req[r].writes
      BY <2>1, LeaveEffect
    <3>2. ~req[r].wrong /\ req[r].answer = 0 /\ req[r].writes = 0
      BY <3>1 DEF AnswerInv
    <3>3. AnswerInv'
      BY <3>1, <3>2 DEF AnswerInv, Others
    <3>4. AnsweredOnce' /\ FailureReported'
      BY <3>1, <3>2 DEF AnsweredOnce, FailureReported, Others
    <3> QED BY <3>3, <3>4
  <2>2. CASE Answers(r)
    <3>1. /\ Others(r) /\ pc[r] \in {"parse", "respond"} /\ pc'[r] = "done"
          /\ req'[r].wrong = req[r].wrong /\ req'[r].method = req[r].method
          /\ \/ req'[r].writes = req[r].writes + 1
             \/ /\ req'[r].writes \in (req[r].writes + 1)..(req[r].writes + 3)
                /\ req'[r].answer = NotAcceptable
          /\ \/ req'[r].answer >= BadRequest
             \/ req[r].method = "GET"
             \/ pc[r] = "respond" /\ req[r].status
      BY <2>2, AnswerEffect
    <3>2. req[r].writes = 0
      BY <3>1 DEF AnswerInv
    <3>3. AnswerInv'
      BY <3>1 DEF AnswerInv, Others
    <3>4. req'[r].writes = 1 \/ (req'[r].writes \in 2..3 /\ req'[r].answer = NotAcceptable)
      BY <3>1, <3>2
    <3>5. AnsweredOnce'
      BY <3>1, <3>4 DEF AnsweredOnce, Others
    <3>6. req[r].method # "GET" /\ req[r].wrong => req'[r].answer >= BadRequest
      BY <3>1 DEF AnswerInv
    <3>7. FailureReported'
      BY <3>1, <3>6 DEF FailureReported, Others
    <3> QED BY <3>3, <3>5, <3>7
  <2>3. CASE Moves(r)
    <3>1. /\ Others(r)
          /\ pc'[r] # "respond" \/ pc'[r] = pc[r]
          /\ req'[r].status = req[r].status /\ req'[r].wrong = req[r].wrong
          /\ req'[r].method = req[r].method
          /\ req'[r].answer = req[r].answer /\ req'[r].writes = req[r].writes
      BY <2>3, MoveEffect
    <3>2. pc[r] # "done"
      BY <2>3 DEF Moves, Drop, NoBuilder, Parse, LookupGroup, RegisterGroup, Receive, GetImpl, Lock,
                  LoadLibrary, LoadAgain, InitSvc, Publish, Invoke, NoObject, AnswerFreed,
                  Unanswered, At
    <3>3. pc'[r] = "done" => Drop(r)
      BY <2>3, <3>2
      DEF Moves, NoBuilder, Parse, LookupGroup, RegisterGroup, Receive, GetImpl, Lock, LoadLibrary, LoadAgain,
          NotLoaded, Create, Crash, InitSvc, Publish, Invoke, NoObject, AnswerFreed, Goto, TypeOK
    <3>4. pc[r] = "respond" => pc'[r] = "respond"
      BY <2>3
      DEF Moves, Drop, NoBuilder, Parse, LookupGroup, RegisterGroup, Receive, GetImpl, Lock, LoadLibrary,
          LoadAgain, InitSvc, Publish, Invoke, NoObject, AnswerFreed, Crash, At
    <3>5. AnswerInv'
      BY <3>1, <3>2, <3>4 DEF AnswerInv, Others
    <3>6. CASE pc'[r] = "done"
      <4>1. req' = req /\ pc[r] = "parse"
        BY <3>3, <3>6 DEF Drop, At
      <4>2. req[r].writes = 0 /\ req[r].group = None /\ ~req[r].wrong
        BY <4>1 DEF AnswerInv, ContextInv, Early
      <4> QED BY <3>1, <3>5, <4>1, <4>2 DEF AnsweredOnce, FailureReported, Others
    <3>7. CASE pc'[r] # "done"
      BY <3>1, <3>5, <3>7 DEF AnsweredOnce, FailureReported, Others
    <3> QED BY <3>6, <3>7
  <2> QED BY <1>2, <2>1, <2>2, <2>3, WorkerCases
<1> QED BY <1>1, <1>2 DEF Next

\* Both hold throughout; they share their inductive invariant.
LEMMA AnswersRight == Spec => [](AnsweredOnce /\ FailureReported)
<1> DEFINE IInv == TypeOK /\ ContextInv /\ AnswerInv /\ AnsweredOnce /\ FailureReported
<1>1. Init => IInv
  BY TypeInit, ContextInit, AnswerInit
<1>2. IInv /\ [Next]_vars => IInv'
  BY TypeStep, ContextStep, AnswerStep
<1>3. IInv => AnsweredOnce /\ FailureReported
  OBVIOUS
<1> HIDE DEF IInv
<1> QED BY <1>1, <1>2, <1>3, PTL DEF Spec

\* No path through the worker leaves a request without an answer or falls
\* through to a second one (axis2_http_worker_process_request).
THEOREM RequestsAnsweredOnce == Spec => []AnsweredOnce
  BY AnswersRight, PTL

\* A PUT or POST that went wrong anywhere is not answered as a success.
THEOREM FailuresReported == Spec => []FailureReported
  BY AnswersRight, PTL
=============================================================================
