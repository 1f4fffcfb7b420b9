---------------------------- MODULE EngineProofs ----------------------------
(***************************************************************************)
(* Proofs about Engine for every choice of phase lists, message kinds and  *)
(* number of engine calls.                                                 *)
(***************************************************************************)
EXTENDS Engine, TLAPS

\* A list index within bounds denotes a phase record.
LEMMA PhaseIsPhase ==
    ASSUME NEW l \in FlowNames, NEW k \in 1..Len(Flow[l])
    PROVE  Flow[l][k] \in PhaseType
  BY FlowAssumption

\* Membership in Slots, written without the nested unions.
LEMMA SlotIntro ==
    ASSUME NEW l \in FlowNames, NEW k \in 1..Len(Flow[l]),
           NEW p \in Positions(Flow[l][k])
    PROVE  <<l, k, p>> \in Slots
  BY DEF Slots

\* The scan of axis2_phase_invoke goes from a position to a position of the
\* phase or past its end, never to a handler that is not there.
LEMMA NextPosType ==
    ASSUME NEW P \in PhaseType, NEW p \in Int, p >= -1
    PROVE  NextPos(P, p) \in Positions(P) \cup {End(P)}
<1>1. P.size \in Nat /\ P.first \in BOOLEAN /\ P.last \in BOOLEAN
  BY DEF PhaseType
<1>2. CASE p < 0 /\ P.first
  <2>1. NextPos(P, p) = 0
    BY <1>2 DEF NextPos
  <2>2. 0 \in Positions(P)
    BY <1>1, <1>2 DEF Positions, Present
  <2> QED BY <2>1, <2>2
<1> DEFINE entry == IF p < 1 THEN 1 ELSE p + 1
<1>3. CASE ~(p < 0 /\ P.first) /\ entry <= P.size
  <2>1. NextPos(P, p) \in 1..P.size
    BY <1>1, <1>3 DEF NextPos
  <2>2. 1..P.size \subseteq Positions(P)
    BY <1>1 DEF Positions, Present
  <2> QED BY <2>1, <2>2
<1>4. CASE ~(p < 0 /\ P.first) /\ ~(entry <= P.size) /\ p < P.size + 1 /\ P.last
  <2>1. NextPos(P, p) = P.size + 1
    BY <1>4 DEF NextPos
  <2>2. P.size + 1 \in Positions(P)
    BY <1>1, <1>4 DEF Positions, Present
  <2> QED BY <2>1, <2>2
<1>5. CASE ~(p < 0 /\ P.first) /\ ~(entry <= P.size) /\ ~(p < P.size + 1 /\ P.last)
  BY <1>5 DEF NextPos
<1> QED BY <1>2, <1>3, <1>4, <1>5

\* The handler positions of a phase are natural numbers.
LEMMA PositionsNat ==
    ASSUME NEW P \in PhaseType
    PROVE  /\ Positions(P) \subseteq Nat
           /\ End(P) \in Nat
  BY DEF Positions, Present, End, PhaseType

\* The flows named below are phase lists.
LEMMA ListTypes ==
    /\ OpFlows \subseteq FlowNames
    /\ {"pre", "global_out", "global_out_fault"} \subseteq FlowNames
  BY DEF OpFlows, FlowNames

\* What a call of a phase list function does to the types.
LEMMA StartListType ==
    ASSUME TypeOK, NEW l \in FlowNames, NEW m \in {"invoke", "resume"},
           StartList(l, m)
    PROVE  /\ list' \in FlowNames /\ mode' \in {"invoke", "resume"}
           /\ i' \in Nat \ {0} /\ h' \in Nat /\ found_match' \in BOOLEAN
           /\ rv' \in Status /\ paused' \in BOOLEAN
           /\ pc' \in {"phases", "returned"}
<1>1. paused' \in BOOLEAN
  BY Zenon DEF TypeOK, StartList
<1>2. found_match' \in BOOLEAN
  BY Zenon DEF StartList
<1> QED BY <1>1, <1>2 DEF TypeOK, StartList, Status

\* The effect of one handler invocation on the types.
LEMMA InvokeType ==
    ASSUME TypeOK, NEW o \in Outcome, NEW d \in BOOLEAN, Invoke(o, d),
           <<list, i, h>> \in Slots
    PROVE  /\ ran' \in [Slots -> Nat]
           /\ failed' \in BOOLEAN /\ paused' \in BOOLEAN /\ op_ctx' \in BOOLEAN
           /\ pauser' \in Slots \cup {NoSlot}
<1>1. ran' \in [Slots -> Nat]
  BY DEF TypeOK, Invoke
<1>2. failed' \in BOOLEAN /\ paused' \in BOOLEAN /\ op_ctx' \in BOOLEAN
  BY Zenon DEF TypeOK, Invoke
<1>3. pauser' \in Slots \cup {NoSlot}
  BY DEF TypeOK, Invoke
<1> QED BY <1>1, <1>2, <1>3

\* Return, Goto and Deliver, the three ways an engine function goes on.
LEMMA ReturnType ==
    ASSUME TypeOK, NEW r \in Status, Return(r),
           UNCHANGED <<kind, server_side, fn, calls, history>>, delivered' \in Nat
    PROVE  TypeOK'
  BY DEF TypeOK, Return, ctx, walk, history, Status, Phase

\* Going on with another phase list keeps the types.
LEMMA GotoType ==
    ASSUME TypeOK, NEW l \in FlowNames, NEW m \in {"invoke", "resume"},
           NEW s \in Status, Goto(l, m, s),
           UNCHANGED <<kind, server_side, fn, calls, history, delivered>>
    PROVE  TypeOK'
<1>1. StartList(l, m)
  BY DEF Goto
<1> QED BY <1>1, StartListType DEF TypeOK, Goto, history, Status, Phase

\* Going on to the receiver or the sender keeps the types.
LEMMA DeliverType ==
    ASSUME TypeOK, NEW s \in Status, Deliver(s),
           UNCHANGED <<kind, server_side, fn, calls, history, delivered>>
    PROVE  TypeOK'
  BY DEF TypeOK, Deliver, ctx, walk, history, Status, Phase

\* A fresh message context has the types.
LEMMA TypeInit ==
    ASSUME Init
    PROVE  TypeOK
<1>1. ran \in [Slots -> Nat]
  BY DEF Init
<1>2. /\ server_side \in BOOLEAN /\ paused \in BOOLEAN /\ op_ctx \in BOOLEAN
      /\ found_match \in BOOLEAN /\ failed \in BOOLEAN
  BY Zenon DEF Init
<1>3. kind \in Kinds /\ paused_phase_name = "NULL"
  BY Zenon DEF Init
<1>4. /\ current_handler_index \in Nat \cup {-1} /\ i \in Nat \ {0} /\ h \in Nat
      /\ calls \in Nat /\ delivered \in Nat
  BY DEF Init
<1>5. /\ pc = "idle" /\ fn = "none" /\ list = "pre" /\ mode = "invoke"
      /\ rv = "SUCCESS" /\ status = "FAILURE" /\ result = "none" /\ pauser = NoSlot
  BY Zenon DEF Init
<1> QED BY <1>1, <1>2, <1>3, <1>4, <1>5 DEF TypeOK, Status, FlowNames

\* One step per action of Engine.
LEMMA TypeStep ==
    ASSUME TypeOK, [Next]_vars
    PROVE  TypeOK'
<1>1. CASE UNCHANGED vars
  BY <1>1 DEF TypeOK, vars, ctx, walk, history, Phase
<1>2. ASSUME NEW f \in {"receive", "send", "receive_fault", "send_fault",
                        "resume_receive", "resume_send"},
             NEW m \in {"invoke", "resume"}, Enter(f, m)
      PROVE  TypeOK'
  <2>1. EntryList(f) \in FlowNames
    BY DEF EntryList, FlowNames
  <2>2. StartList(EntryList(f), m)
    BY <1>2 DEF Enter
  <2> QED BY <1>2, <2>1, <2>2, StartListType
        DEF TypeOK, Enter, Status, history, Phase
<1>3. CASE Call
  <2>1. EntryPoint[kind] \in {"receive", "send", "receive_fault", "send_fault"}
    BY FlowAssumption DEF EntryPoint, TypeOK, KindNames
  <2> QED BY <1>2, <1>3, <2>1 DEF Call
<1>4. CASE ResumeCall
  BY <1>2, <1>4 DEF ResumeCall
<1>5. CASE PhasesEnd
  BY <1>5 DEF TypeOK, PhasesEnd, unmoved, ctx, history, Status, Phase
<1>6. CASE PhaseInvoke
  <2>1. i \in 1..Len(Flow[list]) /\ Phase \in PhaseType /\ Phase' = Phase
    BY <1>6, PhaseIsPhase, FlowAssumption
       DEF PhaseInvoke, TypeOK, Phase, unmoved
  <2>2. h' \in Positions(Phase) \cup {End(Phase)} /\ h' \in Nat
    BY <1>6, <2>1, NextPosType, PositionsNat DEF PhaseInvoke
  <2>3. paused_phase_name' \in UNION {Names(l) : l \in FlowNames}
    BY <1>6, <2>1 DEF PhaseInvoke, Phase, Names, TypeOK
  <2> QED BY <1>6, <2>1, <2>2, <2>3
        DEF TypeOK, PhaseInvoke, unmoved, history
<1>7. CASE PhaseMatch
  BY <1>7 DEF TypeOK, PhaseMatch, unmoved, ctx, history, Status, Phase
<1>8. CASE PhaseSkip
  BY <1>8 DEF TypeOK, PhaseSkip, NextPhase, unmoved, ctx, history, Status, Phase
<1>9. CASE PhaseLeave
  BY <1>9 DEF TypeOK, PhaseLeave, NextPhase, unmoved, ctx, history, Status, Phase
<1>10. ASSUME NEW o \in Outcome, NEW d \in BOOLEAN, InvokeHandler(o, d)
       PROVE  TypeOK'
  <2>1. i \in 1..Len(Flow[list]) /\ Phase \in PhaseType
    BY <1>10, PhaseIsPhase, FlowAssumption DEF InvokeHandler, TypeOK, Phase
  <2>2. h \in Positions(Phase) /\ h \in Nat
    BY <1>10 DEF InvokeHandler, TypeOK
  <2>3. <<list, i, h>> \in Slots
    BY <2>1, <2>2, SlotIntro DEF Phase, TypeOK
  <2>4. Invoke(o, d)
    BY <1>10 DEF InvokeHandler
  <2>5. /\ ran' \in [Slots -> Nat]
        /\ failed' \in BOOLEAN /\ paused' \in BOOLEAN /\ op_ctx' \in BOOLEAN
        /\ pauser' \in Slots \cup {NoSlot}
    BY <2>3, <2>4, InvokeType
  <2>6. CASE o = "fail"
    BY <1>10, <2>5, <2>6
       DEF TypeOK, InvokeHandler, PhaseFailed, unmoved, Phase, Status
  <2>7. CASE o # "fail"
    <3>1. h' \in Positions(Phase) \cup {End(Phase)} /\ h' \in Nat /\ Phase' = Phase
      BY <1>10, <2>1, <2>2, <2>7, NextPosType, PositionsNat
         DEF InvokeHandler, unmoved, Phase
    <3>2. current_handler_index' \in Nat \cup {-1}
      BY <1>10, <2>1, <2>7 DEF InvokeHandler, IndexAfter, TypeOK, PhaseType
    <3> QED BY <1>10, <2>5, <2>7, <3>1, <3>2
          DEF TypeOK, InvokeHandler, unmoved
  <2> QED BY <2>6, <2>7
<1>11. ASSUME NEW o \in Outcome, NEW d \in BOOLEAN, ResumeHandler(o, d)
       PROVE  TypeOK'
  <2>1. i \in 1..Len(Flow[list]) /\ Phase \in PhaseType
    BY <1>11, PhaseIsPhase, FlowAssumption DEF ResumeHandler, TypeOK, Phase
  <2>2. h \in 1..Phase.size
    BY <1>11, <2>1 DEF ResumeHandler, TypeOK, PhaseType
  <2>3. h \in Positions(Phase)
    BY <2>1, <2>2 DEF Positions, Present, PhaseType
  <2>4. <<list, i, h>> \in Slots
    BY <2>1, <2>3, SlotIntro DEF Phase, TypeOK
  <2>5. Invoke(o, d)
    BY <1>11 DEF ResumeHandler
  <2>6. /\ ran' \in [Slots -> Nat]
        /\ failed' \in BOOLEAN /\ paused' \in BOOLEAN /\ op_ctx' \in BOOLEAN
        /\ pauser' \in Slots \cup {NoSlot}
    BY <2>4, <2>5, InvokeType
  <2> QED BY <1>11, <2>6 DEF TypeOK, ResumeHandler, unmoved, Phase
<1>12. CASE ReceiveContinue
  BY <1>12, ReturnType, GotoType, DeliverType, ListTypes
     DEF ReceiveContinue, TypeOK, Status, OpFlows
<1>13. CASE ResumeReceiveContinue
  BY <1>13, ReturnType, DeliverType DEF ResumeReceiveContinue, TypeOK
<1>14. CASE SendContinue \/ SendFaultContinue
  BY <1>14, ReturnType, GotoType, DeliverType, ListTypes
     DEF SendContinue, SendFaultContinue, TypeOK, Status
<1>15. CASE ResumeSendContinue
  BY <1>15, ReturnType, DeliverType DEF ResumeSendContinue, TypeOK
<1>16. CASE ReceiveFaultContinue
  BY <1>16, ReturnType, GotoType, ListTypes
     DEF ReceiveFaultContinue, TypeOK, Status, OpFlows
<1>17. ASSUME NEW s \in Status, ReceiverInvoke(s)
       PROVE  TypeOK'
  BY <1>17, ReturnType DEF ReceiverInvoke, TypeOK, Status
<1>18. ASSUME NEW s \in Status, SenderInvoke(s)
       PROVE  TypeOK'
  BY <1>18, ReturnType DEF SenderInvoke, TypeOK, Status
<1> QED BY <1>1, <1>3, <1>4, <1>5, <1>6, <1>7, <1>8, <1>9, <1>10, <1>11,
           <1>12, <1>13, <1>14, <1>15, <1>16, <1>17, <1>18 DEF Next, Step

\* TypeOK is an invariant of Engine for all phase lists: in particular the
\* loops of engine.c and phase.c never index a phase or handler list out of
\* bounds.
THEOREM TypeCorrect == Spec => []TypeOK
  BY TypeInit, TypeStep, PTL DEF Spec

-----------------------------------------------------------------------------
(* Hand-over: the strengthening of DeliveredAtMostOnce.  A context that is  *)
(* still open has not been handed over, and one that is about to be handed  *)
(* over is not paused, so that the call closes it.                          *)
HandOverInv ==
    /\ pc \in {"idle", "phases", "phase", "from", "returned", "deliver", "closed"}
    /\ pc = "deliver" => ~paused
    /\ pc # "closed" => delivered = 0
    /\ delivered \in {0, 1}

\* A step that changes delivered is the tail of an engine function and leaves
\* the context closed, hence cannot be repeated.
LEMMA HandOverStep ==
    ASSUME HandOverInv, [Next]_vars
    PROVE  /\ HandOverInv'
           /\ delivered' # delivered => ~paused /\ ~paused'
<1>1. CASE UNCHANGED vars
  BY <1>1 DEF HandOverInv, vars, ctx
<1>2. ASSUME NEW f, NEW m, Enter(f, m)
      PROVE  HandOverInv' /\ delivered' = delivered
  BY <1>2 DEF HandOverInv, Enter, StartList
<1>3. CASE Call \/ ResumeCall
  BY <1>2, <1>3 DEF Call, ResumeCall
<1>4. CASE PhasesEnd \/ PhaseInvoke \/ PhaseMatch \/ PhaseSkip \/ PhaseLeave
  BY <1>4 DEF HandOverInv, PhasesEnd, PhaseInvoke, PhaseMatch, PhaseSkip,
              PhaseLeave, unmoved
<1>5. ASSUME NEW o, NEW d, InvokeHandler(o, d) \/ ResumeHandler(o, d)
      PROVE  HandOverInv' /\ delivered' = delivered
  BY <1>5 DEF HandOverInv, InvokeHandler, ResumeHandler, PhaseFailed, unmoved
<1>6. CASE ReceiveContinue \/ ResumeReceiveContinue \/ SendContinue
           \/ SendFaultContinue \/ ResumeSendContinue \/ ReceiveFaultContinue
  BY <1>6 DEF HandOverInv, ReceiveContinue, ResumeReceiveContinue, SendContinue,
              SendFaultContinue, ResumeSendContinue, ReceiveFaultContinue, Return, Goto, Deliver,
              StartList, HeldBack, ctx
<1>7. ASSUME NEW s, ReceiverInvoke(s) \/ SenderInvoke(s)
      PROVE  HandOverInv' /\ ~paused /\ ~paused'
  BY <1>7 DEF HandOverInv, ReceiverInvoke, SenderInvoke, Return, ctx
<1> QED BY <1>1, <1>3, <1>4, <1>5, <1>6, <1>7 DEF Next, Step

\* However often a message is paused and handed in again, and whatever its
\* phases, the receiver or the sender is invoked at most once for it.
THEOREM HandedOverAtMostOnce == Spec => []DeliveredAtMostOnce
<1>1. Init => HandOverInv
  BY DEF Init, HandOverInv
<1>2. HandOverInv /\ [Next]_vars => HandOverInv'
  BY HandOverStep
<1>3. HandOverInv => DeliveredAtMostOnce
  BY DEF HandOverInv, DeliveredAtMostOnce
<1> QED BY <1>1, <1>2, <1>3, PTL DEF Spec

\* No engine function hands over a message that one of its handlers paused.
THEOREM PausedNeverHandedOver == Spec => NoDeliveryWhilePaused
<1>1. Init => HandOverInv
  BY DEF Init, HandOverInv
<1>2. HandOverInv /\ [Next]_vars => HandOverInv'
  BY HandOverStep
<1>3. HandOverInv /\ [Next]_vars => [delivered' # delivered => ~paused /\ ~paused']_vars
  BY HandOverStep
<1> QED BY <1>1, <1>2, <1>3, PTL DEF Spec, NoDeliveryWhilePaused

-----------------------------------------------------------------------------
(* The walk of a message that no handler paused.  WalkInv says which        *)
(* handlers have run at every point of the walk; the two invariants the     *)
(* runs check follow from it.                                               *)

\* No handler, or every handler exactly once, of list l has run.
Untouched(l) == \A t \in Slots : t[1] = l => ran[t] = 0
Done(l) == \A t \in Slots : t[1] = l => ran[t] = 1

\* Exactly the handlers of the list before position (k, p) have run, once.
UpTo(k, p) == \A t \in Slots :
    t[1] = list => ran[t] = IF NotBefore(t, k, p) THEN 0 ELSE 1

\* The lists an engine function may start after list l.
Follows(l) == CASE l = "pre" -> {"in", "in_fault"}
                [] l = "out" -> {"global_out"}
                [] l = "out_fault" -> {"global_out_fault"}
                [] OTHER -> {}

\* The lists engine function f walks.
ListsOf(f) == CASE f = "receive" -> {"pre", "in"}
                [] f = "send" -> {"out", "global_out"}
                [] f = "send_fault" -> {"out_fault", "global_out_fault"}
                [] f = "receive_fault" -> {"pre", "in_fault"}

\* Where the walk of the current list is, the handlers before it have run.
PositionInv ==
    /\ ~paused /\ mode = "invoke" /\ pc # "from"
    /\ pc = "idle" => \A t \in Slots : ran[t] = 0
    /\ pc # "idle" => fn = EntryPoint[kind] /\ list \in ListsOf(fn)
    /\ \A l \in Follows(list) : Untouched(l)
    /\ pc = "phases" => UpTo(i, 0)
    /\ pc = "phase" => UpTo(i, h)
    /\ pc = "returned" /\ rv = "SUCCESS" => Done(list)

\* What axis2_engine_receive knows of the lists it has left behind.
ReceiveInv ==
    /\ pc = "idle" => ~failed
    /\ (kind = "in" /\ server_side /\ failed) =>
          pc = "closed" \/ (pc = "returned" /\ rv = "FAILURE")
    /\ (kind = "in" /\ server_side /\ list = "in" /\ pc # "idle") => Done("pre")
    /\ (kind = "in" /\ server_side /\ op_ctx /\ pc = "deliver") =>
          list = "in" /\ Done("in")

\* The strengthening: as long as no handler has paused the message, the
\* history agrees with the position of the walk.
WalkInv ==
    /\ TypeOK
    /\ HandOverInv
    /\ NoHandlerSkipped
    /\ ReceiverSeesProcessedMessage
    /\ pauser = NoSlot => PositionInv /\ ReceiveInv

\* A slot taken apart: its list, its phase and a position of that phase.
LEMMA SlotElim ==
    ASSUME NEW t \in Slots
    PROVE  /\ t[1] \in FlowNames /\ t[2] \in 1..Len(Flow[t[1]])
           /\ t[3] \in Positions(Flow[t[1]][t[2]])
           /\ t[2] \in Nat /\ t[3] \in Nat /\ t[3] < End(Flow[t[1]][t[2]])
           /\ t = <<t[1], t[2], t[3]>>
<1>1. PICK l \in FlowNames :
          t \in UNION {{<<l, k, p>> : p \in Positions(Flow[l][k])} : k \in 1..Len(Flow[l])}
  BY DEF Slots
<1>2. PICK k \in 1..Len(Flow[l]) : t \in {<<l, k, p>> : p \in Positions(Flow[l][k])}
  BY <1>1
<1>3. PICK p \in Positions(Flow[l][k]) : t = <<l, k, p>>
  BY <1>2
<1>4. Len(Flow[l]) \in Nat /\ Flow[l][k] \in PhaseType
  BY FlowAssumption, PhaseIsPhase
<1>5. p \in Nat /\ p < End(Flow[l][k])
  BY <1>4 DEF Positions, End, PhaseType
<1> QED BY <1>3, <1>4, <1>5

\* The value for `nobody paused' is no invocation point.
LEMMA NoSlotIsNone == NoSlot \notin Slots
  BY SlotElim DEF NoSlot, FlowNames

\* The scan skips no handler: nothing lies between p and the next position.
LEMMA NextPosLeast ==
    ASSUME NEW P \in PhaseType, NEW p \in Int, p >= -1, NEW q \in Positions(P)
    PROVE  q < NextPos(P, p) <=> q <= p
<1>1. P.size \in Nat /\ q \in Nat /\ q <= P.size + 1
  BY DEF PhaseType, Positions
<1>2. q = 0 => P.first
  BY <1>1 DEF Positions, Present
<1>3. q = P.size + 1 => P.last
  BY <1>1 DEF Positions, Present
<1> QED BY <1>1, <1>2, <1>3 DEF NextPos, End

\* The body of WalkInv for a message that was not paused.
WalkCore ==
    /\ \A s, t \in Slots :
          s[1] = t[1] /\ ran[t] > 0 /\ ~NotBefore(s, t[2], t[3]) => ran[s] > 0
    /\ (delivered > 0 /\ kind = "in") =>
          ~failed /\ Done("pre") /\ Done("in")
    /\ PositionInv
    /\ ReceiveInv

\* A fresh context satisfies the strengthening.
LEMMA WalkInit ==
    ASSUME Init
    PROVE  WalkInv
<1>1. TypeOK /\ HandOverInv
  BY TypeInit DEF Init, HandOverInv
<1>2. \A t \in Slots : ran[t] = 0
  BY DEF Init
<1>3. ~paused /\ ~failed
  BY Zenon DEF Init
<1>4. mode = "invoke" /\ pc = "idle" /\ delivered = 0
  BY DEF Init
<1>5. PositionInv
  BY <1>2, <1>3, <1>4 DEF PositionInv, Untouched
<1>6. ReceiveInv
  BY <1>3, <1>4 DEF ReceiveInv
<1> QED BY <1>1, <1>2, <1>4, <1>5, <1>6
       DEF WalkInv, NoHandlerSkipped, ReceiverSeesProcessedMessage

\* The first two parts of WalkCore only depend on the history.
LEMMA HistoryUnchanged ==
    ASSUME WalkCore, UNCHANGED <<kind, delivered, ran, failed>>
    PROVE  /\ (\A s, t \in Slots :
                  s[1] = t[1] /\ ran[t] > 0 /\ ~NotBefore(s, t[2], t[3]) => ran[s] > 0)'
           /\ ((delivered > 0 /\ kind = "in") => ~failed /\ Done("pre") /\ Done("in"))'
  BY DEF WalkCore, Done, NotBefore

\* A step after which no handler has paused the message preserves WalkCore.
LEMMA WalkStep ==
    ASSUME TypeOK, TypeOK', HandOverInv, WalkCore, [Next]_vars,
           pauser = NoSlot, pauser' = NoSlot
    PROVE  WalkCore'
<1> USE DEF Untouched, Done, UpTo
<1>1. CASE UNCHANGED vars
  BY <1>1 DEF WalkCore, PositionInv, ReceiveInv, NotBefore, vars, ctx, walk, history
<1>a. PositionInv /\ ReceiveInv
  BY DEF WalkCore
<1>2. CASE Call \/ ResumeCall
  <2>1. Enter(EntryPoint[kind], "invoke")
    BY <1>2, <1>a DEF Call, ResumeCall, PositionInv
  <2>2. kind \in KindNames
    BY FlowAssumption DEF TypeOK
  <2>3. EntryList(EntryPoint[kind]) \in ListsOf(EntryPoint[kind])
    BY <2>2 DEF EntryList, EntryPoint, ListsOf, KindNames
  <2>4. /\ ran' = ran /\ ~paused' /\ ~failed' /\ kind' = kind /\ delivered' = delivered
        /\ pc' \in {"phases", "returned"} /\ (pc' = "returned" => rv' = "FAILURE")
        /\ mode' = "invoke" /\ fn' = EntryPoint[kind] /\ i' = 1
        /\ list' = EntryList(EntryPoint[kind])
        /\ \A t \in Slots : ran[t] = 0
    BY <2>1, <1>a DEF Enter, StartList, PositionInv, ReceiveInv, history
  <2>5. PositionInv'
    <3>1. UpTo(1, 0)'
      BY <2>4, SlotElim DEF NotBefore
    <3> QED BY <2>3, <2>4, <3>1 DEF PositionInv
  <2>6. ReceiveInv'
    BY <2>4 DEF ReceiveInv, EntryList, EntryPoint, KindNames
  <2> QED BY <2>1, <2>4, <2>5, <2>6, HistoryUnchanged DEF WalkCore, Enter, history
<1>3. CASE PhasesEnd
  <2>1. UNCHANGED <<kind, server_side, delivered, ran, failed, paused, op_ctx, mode, fn, list,
                    i, h>>
    BY <1>3 DEF PhasesEnd, unmoved, ctx, history
  <2>2. pc = "phases" /\ pc' = "returned" /\ rv' = "SUCCESS" /\ i > Len(Flow[list])
    BY <1>3, <1>a DEF PhasesEnd, PositionInv
  <2>3. Done(list)
    BY <2>2, <1>a, SlotElim DEF PositionInv, NotBefore, TypeOK
  <2>4. PositionInv'
    BY <1>a, <2>1, <2>2, <2>3 DEF PositionInv
  <2>5. ReceiveInv'
    BY <1>a, <2>1, <2>2 DEF ReceiveInv
  <2> QED BY <2>1, <2>4, <2>5, HistoryUnchanged DEF WalkCore
<1>4. CASE PhaseInvoke
  <2>1. UNCHANGED <<kind, server_side, delivered, ran, failed, paused, op_ctx, mode, fn, list, i>>
    BY <1>4 DEF PhaseInvoke, unmoved, history
  <2>2. /\ pc = "phases" /\ pc' = "phase" /\ h' = NextPos(Phase, -1)
        /\ i \in 1..Len(Flow[list]) /\ Phase \in PhaseType
    BY <1>4, PhaseIsPhase, FlowAssumption DEF PhaseInvoke, TypeOK, Phase
  <2>3. UpTo(i, 0)
    BY <1>a, <2>2 DEF PositionInv
  <2>4. ASSUME NEW t \in Slots, t[1] = list
        PROVE  NotBefore(t, i, h') <=> NotBefore(t, i, 0)
    <3>1. t[2] = i => ~(t[3] < h')
      BY <2>2, <2>4, SlotElim, NextPosLeast DEF Phase
    <3>2. h' \in Nat
      BY DEF TypeOK
    <3> QED BY <3>1, <3>2, SlotElim DEF NotBefore
  <2>5. UpTo(i, h)'
    BY <2>1, <2>3, <2>4 DEF NotBefore
  <2>6. PositionInv'
    BY <1>a, <2>1, <2>2, <2>5 DEF PositionInv
  <2>7. ReceiveInv'
    BY <1>a, <2>1, <2>2 DEF ReceiveInv
  <2> QED BY <2>1, <2>6, <2>7, HistoryUnchanged DEF WalkCore
<1>5. CASE PhaseMatch \/ PhaseSkip
  BY <1>5, <1>a DEF PhaseMatch, PhaseSkip, PositionInv
<1>6. CASE PhaseLeave
  <2>1. UNCHANGED <<kind, server_side, delivered, ran, failed, paused, op_ctx, mode, fn, list, h>>
    BY <1>6 DEF PhaseLeave, unmoved, ctx, history
  <2>2. /\ pc = "phase" /\ pc' = "phases" /\ i' = i + 1 /\ h = End(Phase)
        /\ i \in Nat
    BY <1>6, <1>a DEF PhaseLeave, NextPhase, PositionInv, TypeOK
  <2>3. UpTo(i, h)
    BY <1>a, <2>2 DEF PositionInv
  <2>4. ASSUME NEW t \in Slots, t[1] = list
        PROVE  NotBefore(t, i, h) <=> NotBefore(t, i + 1, 0)
    <3>1. t[2] \in Nat /\ t[3] \in Nat /\ h \in Nat
      BY SlotElim DEF TypeOK
    <3>2. t[2] = i => t[3] < h
      BY <2>2, <2>4, SlotElim DEF Phase
    <3> QED BY <2>2, <3>1, <3>2 DEF NotBefore
  <2>5. UpTo(i, 0)'
    BY <2>1, <2>2, <2>3, <2>4 DEF NotBefore
  <2>6. PositionInv'
    BY <1>a, <2>1, <2>2, <2>5 DEF PositionInv
  <2>7. ReceiveInv'
    BY <1>a, <2>1, <2>2 DEF ReceiveInv
  <2> QED BY <2>1, <2>6, <2>7, HistoryUnchanged DEF WalkCore
<1>7. ASSUME NEW o \in Outcome, NEW d \in BOOLEAN, InvokeHandler(o, d)
      PROVE  WalkCore'
  <2>1. /\ pc = "phase" /\ Invoke(o, d) /\ h # End(Phase)
        /\ UNCHANGED <<kind, server_side, delivered, mode, fn, list>>
    BY <1>7 DEF InvokeHandler, unmoved
  <2>2. i \in 1..Len(Flow[list]) /\ Phase \in PhaseType /\ h \in Nat
        /\ h \in Positions(Phase)
    BY <2>1, PhaseIsPhase, FlowAssumption DEF TypeOK, Phase
  <2>3. <<list, i, h>> \in Slots
    BY <2>2, SlotIntro DEF Phase, TypeOK
  <2>4. o # "pause" /\ ~paused'
    BY <1>a, <2>1, <2>3, NoSlotIsNone DEF Invoke, PositionInv
  <2>5. UpTo(i, h)
    BY <1>a, <2>1 DEF PositionInv
  <2>6. ran[<<list, i, h>>] = 0
    BY <2>2, <2>3, <2>5 DEF NotBefore
  <2>7. \A t \in Slots : ran'[t] = IF t = <<list, i, h>> THEN 1 ELSE ran[t]
    BY <2>1, <2>6 DEF Invoke, TypeOK
  <2>8. (\A s, t \in Slots :
            s[1] = t[1] /\ ran[t] > 0 /\ ~NotBefore(s, t[2], t[3]) => ran[s] > 0)'
    <3> SUFFICES ASSUME NEW s \in Slots, NEW t \in Slots,
                        s[1] = t[1], ran'[t] > 0, ~NotBefore(s, t[2], t[3])
                 PROVE  ran'[s] > 0
      BY DEF NotBefore
    <3>1. ran[s] \in Nat /\ ran[t] \in Nat
      BY DEF TypeOK
    <3>2. CASE t = <<list, i, h>>
      BY <2>5, <2>7, <3>1, <3>2
    <3>3. CASE t # <<list, i, h>>
      BY <2>7, <3>1, <3>3 DEF WalkCore
    <3> QED BY <3>2, <3>3
  <2>9. delivered' = 0
    BY <2>1 DEF HandOverInv
  <2>10. \A l \in Follows(list) : Untouched(l)'
    BY <1>a, <2>1, <2>7 DEF PositionInv, Follows
  <2>11. CASE o = "fail"
    <3>1. pc' = "returned" /\ rv' = "FAILURE"
      BY <1>7, <1>a, <2>11 DEF InvokeHandler, PhaseFailed, PositionInv
    <3>2. PositionInv'
      BY <1>a, <2>1, <2>4, <2>10, <3>1 DEF PositionInv
    <3>3. ReceiveInv'
      BY <1>a, <2>1, <2>7, <3>1 DEF ReceiveInv
    <3> QED BY <2>8, <2>9, <3>2, <3>3 DEF WalkCore
  <2>12. CASE o # "fail"
    <3>1. pc' = pc /\ rv' = rv /\ i' = i /\ h' = NextPos(Phase, h)
      BY <1>7, <2>12 DEF InvokeHandler
    <3>2. failed' <=> failed
      BY <2>1, <2>12, Zenon DEF Invoke, TypeOK
    <3>3. ASSUME NEW t \in Slots, t[1] = list
          PROVE  NotBefore(t, i, h') <=> NotBefore(t, i, h) /\ t # <<list, i, h>>
      <4>1. t[2] = i => (t[3] < h' <=> t[3] <= h)
        BY <2>2, <3>1, <3>3, SlotElim, NextPosLeast DEF Phase
      <4>2. h' \in Nat
        BY DEF TypeOK
      <4>3. t = <<list, i, h>> <=> t[2] = i /\ t[3] = h
        BY <3>3, SlotElim
      <4> QED BY <2>2, <4>1, <4>2, <4>3, SlotElim DEF NotBefore
    <3>4. UpTo(i, h)'
      BY <2>1, <2>3, <2>5, <2>7, <3>1, <3>3 DEF NotBefore
    <3>5. PositionInv'
      BY <1>a, <2>1, <2>4, <2>10, <3>1, <3>4 DEF PositionInv
    <3>6. ReceiveInv'
      BY <1>a, <2>1, <2>7, <3>1, <3>2 DEF ReceiveInv
    <3> QED BY <2>8, <2>9, <3>5, <3>6 DEF WalkCore
  <2> QED BY <2>11, <2>12
<1>8. ASSUME NEW o, NEW d, ResumeHandler(o, d)
      PROVE  WalkCore'
  BY <1>8, <1>a DEF ResumeHandler, PositionInv
<1>9. ASSUME NEW r, Return(r), UNCHANGED <<kind, server_side, fn, history, delivered>>,
             pc \in {"returned", "deliver"}
      PROVE  WalkCore'
  <2>1. UNCHANGED <<ran, failed, paused, op_ctx, mode, list, i, h>> /\ pc' = "closed"
    BY <1>9, <1>a DEF Return, ctx, walk, history, PositionInv
  <2>2. PositionInv'
    BY <1>9, <1>a, <2>1 DEF PositionInv
  <2>3. ReceiveInv'
    BY <1>9, <1>a, <2>1 DEF ReceiveInv
  <2> QED BY <1>9, <2>1, <2>2, <2>3, HistoryUnchanged DEF WalkCore
<1>10. ASSUME NEW l, NEW s, Goto(l, "invoke", s), l \in Follows(list), l \in ListsOf(fn),
              UNCHANGED <<kind, server_side, fn, history, delivered>>,
              pc = "returned",
              (kind = "in" /\ server_side) => rv = "SUCCESS" /\ list = "pre"
       PROVE  WalkCore'
  <2>1. /\ UNCHANGED <<ran, failed, op_ctx>> /\ ~paused' /\ list' = l
        /\ mode' = "invoke" /\ i' = 1 /\ pc' \in {"phases", "returned"}
        /\ (pc' = "returned" => rv' = "FAILURE")
    BY <1>10, <1>a DEF Goto, StartList, history, PositionInv
  <2>2. UpTo(1, 0)'
    BY <1>10, <1>a, <2>1, SlotElim DEF PositionInv, NotBefore
  <2>3. Follows(l) = {}
    BY <1>10 DEF Follows
  <2>4. PositionInv'
    BY <1>10, <1>a, <2>1, <2>2, <2>3 DEF PositionInv
  <2>5. ReceiveInv'
    BY <1>10, <1>a, <2>1 DEF ReceiveInv, PositionInv
  <2> QED BY <1>10, <2>1, <2>4, <2>5, HistoryUnchanged DEF WalkCore
<1>11. ASSUME NEW s, Deliver(s), UNCHANGED <<kind, server_side, fn, history, delivered>>,
              pc = "returned",
              (kind = "in" /\ server_side) =>
                  rv = "SUCCESS" /\ (op_ctx => list = "in")
       PROVE  WalkCore'
  <2>1. UNCHANGED <<ran, failed, paused, op_ctx, mode, list, i, h>> /\ pc' = "deliver"
    BY <1>11 DEF Deliver, ctx, walk, history
  <2>2. PositionInv'
    BY <1>11, <1>a, <2>1 DEF PositionInv
  <2>3. ReceiveInv'
    BY <1>11, <1>a, <2>1 DEF ReceiveInv, PositionInv
  <2> QED BY <1>11, <2>1, <2>2, <2>3, HistoryUnchanged DEF WalkCore
<1>b. pc # "idle" => fn = EntryPoint[kind] /\ list \in ListsOf(fn) /\ kind \in KindNames
  BY <1>a, FlowAssumption DEF PositionInv, TypeOK
<1>12. CASE ReceiveContinue
  <2>1. kind = "in" /\ pc = "returned" /\ fn = "receive" /\ list \in {"pre", "in"}
    BY <1>12, <1>b DEF ReceiveContinue, EntryPoint, ListsOf, KindNames
  <2>2. UNCHANGED <<kind, server_side, fn, history, delivered>> /\ mode = "invoke" /\ ~paused
    BY <1>12, <1>a DEF ReceiveContinue, PositionInv
  <2>3. CASE ReceiveStops
    BY <1>9, <1>12, <2>1, <2>2, <2>3 DEF ReceiveContinue
  <2>4. CASE ~ReceiveStops
    <3>1. server_side \/ list = "in" => rv = "SUCCESS"
      BY <2>2, <2>4 DEF ReceiveStops, TypeOK, Status
    <3>2. CASE list = "pre" /\ op_ctx
      <4>1. PICK s : Goto("in", "invoke", s)
        BY <1>12, <2>2, <2>4, <3>2 DEF ReceiveContinue
      <4> QED BY <1>10, <2>1, <2>2, <3>1, <3>2, <4>1 DEF Follows, ListsOf
    <3>3. CASE ~(list = "pre" /\ op_ctx)
      <4>1. PICK s : Deliver(s)
        BY <1>12, <2>2, <2>4, <3>3 DEF ReceiveContinue
      <4> QED BY <1>11, <2>1, <2>2, <3>1, <3>3, <4>1
    <3> QED BY <3>2, <3>3
  <2> QED BY <2>3, <2>4
<1>13. CASE ResumeReceiveContinue \/ ResumeSendContinue
  BY <1>13, <1>b DEF ResumeReceiveContinue, ResumeSendContinue, EntryPoint, KindNames
<1>14. CASE SendContinue \/ SendFaultContinue
  <2>1. /\ kind # "in" /\ pc = "returned" /\ fn \in {"send", "send_fault"}
        /\ fn = "send" => list \in {"out", "global_out"}
        /\ fn = "send_fault" => list \in {"out_fault", "global_out_fault"}
    BY <1>14, <1>b DEF SendContinue, SendFaultContinue, EntryPoint, ListsOf, KindNames
  <2>2. UNCHANGED <<kind, server_side, fn, history, delivered>>
    BY <1>14 DEF SendContinue, SendFaultContinue
  <2>3. CASE \E r : Return(r)
    BY <1>9, <2>1, <2>2, <2>3
  <2>4. CASE \E s : Deliver(s)
    BY <1>11, <2>1, <2>2, <2>4
  <2>5. ASSUME NEW l, NEW s, Goto(l, "invoke", s), list \in OpFlows,
               l = IF fn = "send" THEN "global_out" ELSE "global_out_fault"
        PROVE  WalkCore'
    <3>1. l \in Follows(list) /\ l \in ListsOf(fn)
      BY <2>1, <2>5 DEF Follows, ListsOf, OpFlows
    <3> QED BY <1>10, <2>1, <2>2, <2>5, <3>1
  <2> QED BY <1>14, <2>3, <2>4, <2>5
       DEF SendContinue, SendFaultContinue, OpFlows
<1>15. CASE ReceiveFaultContinue
  <2>1. kind # "in" /\ pc = "returned" /\ fn = "receive_fault" /\ ~paused
    BY <1>15, <1>a, <1>b
       DEF ReceiveFaultContinue, EntryPoint, ListsOf, KindNames, PositionInv
  <2>2. UNCHANGED <<kind, server_side, fn, history, delivered>>
    BY <1>15 DEF ReceiveFaultContinue
  <2>3. CASE list = "pre" /\ op_ctx
    <3>1. Goto("in_fault", "invoke", status)
      BY <1>15, <2>1, <2>3 DEF ReceiveFaultContinue
    <3> QED BY <1>10, <2>1, <2>2, <2>3, <3>1 DEF Follows, ListsOf
  <2>4. CASE ~(list = "pre" /\ op_ctx)
    BY <1>9, <1>15, <2>1, <2>2, <2>4 DEF ReceiveFaultContinue
  <2> QED BY <2>3, <2>4
<1>16. ASSUME NEW s, ReceiverInvoke(s)
       PROVE  WalkCore'
  <2>1. pc = "deliver" /\ UNCHANGED <<kind, server_side, fn, history>> /\ \E r : Return(r)
    BY <1>16 DEF ReceiverInvoke
  <2>2. CASE delivered' = delivered
    BY <1>9, <2>1, <2>2
  <2>3. CASE delivered' # delivered
    <3>1. kind = "in" /\ server_side /\ op_ctx
      BY <1>16, <1>b, <2>3 DEF ReceiverInvoke, EntryPoint, KindNames
    <3>2. ~failed /\ Done("pre") /\ Done("in")
      BY <1>a, <2>1, <3>1 DEF ReceiveInv
    <3>3. UNCHANGED <<ran, failed, paused, op_ctx, mode, list, i, h>> /\ pc' = "closed"
      BY <1>a, <2>1 DEF Return, ctx, walk, history, PositionInv
    <3>4. PositionInv'
      BY <1>a, <2>1, <3>3 DEF PositionInv
    <3>5. ReceiveInv'
      BY <1>a, <2>1, <3>1, <3>2, <3>3 DEF ReceiveInv
    <3> QED BY <2>1, <3>2, <3>3, <3>4, <3>5 DEF WalkCore, NotBefore
  <2> QED BY <2>2, <2>3
<1>17. ASSUME NEW s, SenderInvoke(s)
       PROVE  WalkCore'
  <2>1. /\ pc = "deliver" /\ UNCHANGED <<kind, server_side, fn, history>> /\ \E r : Return(r)
        /\ kind # "in"
    BY <1>17, <1>b DEF SenderInvoke, EntryPoint, KindNames
  <2>2. UNCHANGED <<ran, failed, paused, op_ctx, mode, list, i, h>> /\ pc' = "closed"
    BY <1>a, <2>1 DEF Return, ctx, walk, history, PositionInv
  <2>3. PositionInv'
    BY <1>a, <2>1, <2>2 DEF PositionInv
  <2>4. ReceiveInv'
    BY <2>1, <2>2 DEF ReceiveInv
  <2> QED BY <2>1, <2>2, <2>3, <2>4 DEF WalkCore, NotBefore
<1> QED BY <1>1, <1>2, <1>3, <1>4, <1>5, <1>6, <1>7, <1>8, <1>12, <1>13, <1>14,
           <1>15, <1>16, <1>17 DEF Next, Step

\* Every step preserves the strengthening, a pause included.
LEMMA WalkInvStep ==
    ASSUME WalkInv, [Next]_vars
    PROVE  WalkInv'
<1>1. TypeOK' /\ HandOverInv'
  BY TypeStep, HandOverStep DEF WalkInv
<1>2. pauser' = NoSlot => pauser = NoSlot
  <2>1. <<list, i, h>> # NoSlot
    BY DEF WalkInv, TypeOK, NoSlot, FlowNames
  <2>2. pauser' = pauser \/ pauser' = <<list, i, h>>
    BY DEF Next, Step, Call, ResumeCall, Enter, PhasesEnd, PhaseInvoke, PhaseMatch,
           PhaseSkip, PhaseLeave, InvokeHandler, ResumeHandler, Invoke,
           ReceiveContinue, ResumeReceiveContinue, SendContinue, SendFaultContinue,
           ResumeSendContinue, ReceiveFaultContinue, ReceiverInvoke, SenderInvoke, history, vars
  <2> QED BY <2>1, <2>2
<1>3. CASE pauser' = NoSlot
  BY <1>1, <1>2, <1>3, WalkStep
     DEF WalkInv, WalkCore, NoHandlerSkipped, ReceiverSeesProcessedMessage, Done
<1>4. CASE pauser' # NoSlot
  BY <1>1, <1>4 DEF WalkInv, NoHandlerSkipped, ReceiverSeesProcessedMessage
<1> QED BY <1>3, <1>4

\* A message that is never paused reaches its receiver with every handler of
\* the global and of the operation's in flow invoked once, none failing.
THEOREM ReceiverGetsProcessedMessage == Spec => []ReceiverSeesProcessedMessage
<1>1. WalkInv => ReceiverSeesProcessedMessage
  BY DEF WalkInv
<1> QED BY <1>1, WalkInit, WalkInvStep, PTL DEF Spec

\* Without a pause no handler is ever reached before an earlier one of its list.
THEOREM HandlersRunInOrder == Spec => []NoHandlerSkipped
<1>1. WalkInv => NoHandlerSkipped
  BY DEF WalkInv
<1> QED BY <1>1, WalkInit, WalkInvStep, PTL DEF Spec
-----------------------------------------------------------------------------
(* A message that is paused and handed in again goes on where it stopped:   *)
(* the walk never goes backwards in a list without first handlers, and      *)
(* Engine implements the safety part of MessageLife.                        *)

\* By the history r, no handler of list l at or after (k, p) has run.
Fresh(r, l, k, p) == \A t \in Slots : t[1] = l /\ NotBefore(t, k, p) => r[t] = 0

\* By the history r, the name nm and the index x kept in the context describe
\* where to go on in list l: in the phase of that name all handlers behind the
\* index, unless they are done, and all phases behind it are fresh.
Stored(r, nm, x, l) ==
    \A k \in 1..Len(Flow[l]) : Flow[l][k].name = nm =>
        /\ Fresh(r, l, k + 1, 0)
        /\ Flow[l][k].size > 0 =>
              x >= 1 /\ (x < Flow[l][k].size => Fresh(r, l, k, x + 1))

\* The functions that may work on a message, by its kind.
FunctionsOf(k) == CASE k = "in" -> {"receive", "resume_receive"}
                    [] k = "out" -> {"send", "resume_send"}
                    [] OTHER -> {EntryPoint[k]}

\* Which function and list belong to which message, and when nothing was done.
RouteInv ==
    /\ fn = "none" => pc = "idle" /\ ~paused
    /\ pc = "idle" /\ ~paused => \A t \in Slots : ran[t] = 0
    /\ fn # "none" => fn \in FunctionsOf(kind) /\ list \in ListsOf(EntryPoint[kind])
    /\ list = "in_fault" => op_ctx

\* The context names the phase that is invoked, or one that was.
NameInv ==
    /\ pc \in {"phase", "from"} => paused_phase_name = Phase.name
    /\ pc = "from" \/ (pc = "phase" /\ mode = "resume") => found_match
    /\ pc = "phases" /\ found_match =>
          \E j \in 1..Len(Flow[list]) : j < i /\ Flow[list][j].name = paused_phase_name

\* The lists of a message that are gone through once, by its kind.
Own(k) == CASE k = "in" -> {"pre", "in"} [] k = "out" -> {"out"}
            [] k = "in_fault" -> {"pre"} [] OTHER -> {}

\* A paused context describes where to go on.
PauseInv ==
    \A l \in Own(kind) : NoFirst(l) /\ paused /\ list # "in_fault" =>
        Stored(ran, paused_phase_name, current_handler_index, l)

\* Where the walk of a list is, the handlers ahead have not run.
AheadInv == list \in Forward =>
    /\ pc = "phases" =>
          IF mode = "resume" /\ ~found_match
          THEN Stored(ran, paused_phase_name, current_handler_index, list)
          ELSE Fresh(ran, list, i, 0)
    /\ pc = "phase" =>
          /\ Fresh(ran, list, i, h)
          /\ \A p \in 1..Phase.size : p < h => current_handler_index >= p
    /\ pc = "from" =>
          /\ Fresh(ran, list, i + 1, 0)
          /\ Phase.size > 0 => current_handler_index + 1 = h
          /\ h <= Phase.size => Fresh(ran, list, i, h)

\* axis2_engine_receive goes on from the global in phases to the operation's.
SecondInv == kind = "in" /\ list = "pre" /\ pc # "idle" =>
    /\ mode = "invoke" => Untouched("in")
    /\ mode = "resume" /\ NoFirst("in") =>
          Stored(ran, paused_phase_name, current_handler_index, "in")

-----------------------------------------------------------------------------
(* What a history says after a handler was invoked.                         *)

\* What is fresh from a position on is fresh from a later one on.
LEMMA FreshLater ==
    ASSUME NEW r, NEW l, NEW k \in Int, NEW p \in Int, NEW q \in Int, q >= p, Fresh(r, l, k, p)
    PROVE  Fresh(r, l, k, q)
  BY SlotElim DEF Fresh, NotBefore

\* What is fresh from a phase on is fresh from the next one on.
LEMMA FreshNext ==
    ASSUME NEW r, NEW l, NEW k \in Int, NEW p \in Int, Fresh(r, l, k, p)
    PROVE  Fresh(r, l, k + 1, 0)
  BY SlotElim DEF Fresh, NotBefore

\* Invoking a handler leaves what is behind it fresh.
LEMMA FreshBehind ==
    ASSUME NEW r, NEW r2, NEW l, NEW k \in Int, NEW p \in Int, NEW q \in Int, q > p,
           Fresh(r, l, k, p), \A t \in Slots : t # <<l, k, p>> => r2[t] = r[t]
    PROVE  Fresh(r2, l, k, q)
  BY SlotElim DEF Fresh, NotBefore

\* It also leaves the phases behind it fresh.
LEMMA FreshPhases ==
    ASSUME NEW r, NEW r2, NEW l, NEW k \in Int, NEW p, NEW j \in Int, j > k,
           Fresh(r, l, j, 0), \A t \in Slots : t # <<l, k, p>> => r2[t] = r[t]
    PROVE  Fresh(r2, l, j, 0)
  BY SlotElim DEF Fresh, NotBefore

\* Another list is not disturbed.
LEMMA FreshElsewhere ==
    ASSUME NEW r, NEW r2, NEW l, NEW k, NEW p, Fresh(r, l, k, p),
           \A t \in Slots : t[1] = l => r2[t] = r[t]
    PROVE  Fresh(r2, l, k, p)
  BY DEF Fresh

\* A name that is not in the list matches no phase of it.
LEMMA StoredNowhere ==
    ASSUME NEW r, NEW nm, NEW x, NEW l, nm \notin Names(l)
    PROVE  Stored(r, nm, x, l)
  BY DEF Stored, Names

\* The place in a list is described by the position of axis2_phase_invoke.
LEMMA StoredPhase ==
    ASSUME NEW r, NEW x \in Int, NEW l \in FlowNames, NEW k \in 1..Len(Flow[l]),
           NEW q \in Int, q > 1, Fresh(r, l, k, q),
           \A p \in 1..Flow[l][k].size : p < q => x >= p
    PROVE  Stored(r, Flow[l][k].name, x, l)
<1>1. Flow[l][k] \in PhaseType /\ k \in Int
  BY PhaseIsPhase, FlowAssumption
<1>2. Flow[l][k].size \in Nat
  BY <1>1 DEF PhaseType
<1>3. Fresh(r, l, k + 1, 0)
  BY <1>1, FreshNext
<1>4. ASSUME Flow[l][k].size > 0
      PROVE  x >= 1 /\ (x < Flow[l][k].size => Fresh(r, l, k, x + 1))
  <2>1. x >= 1
    BY <1>2, <1>4
  <2>2. ASSUME x < Flow[l][k].size PROVE x + 1 >= q
    <3>1. x + 1 \in 1..Flow[l][k].size
      BY <1>2, <2>1, <2>2
    <3> QED BY <3>1
  <2>3. x + 1 \in Int
    OBVIOUS
  <2> QED BY <1>1, <2>1, <2>2, <2>3, FreshLater
<1>5. \A j \in 1..Len(Flow[l]) : Flow[l][j].name = Flow[l][k].name => j = k
  BY NameAssumption
<1> QED BY <1>3, <1>4, <1>5 DEF Stored

\* And by the position of axis2_phase_invoke_start_from_handler.
LEMMA StoredFrom ==
    ASSUME NEW r, NEW x \in Int, NEW l \in FlowNames, NEW k \in 1..Len(Flow[l]),
           NEW q \in Int, q > 1, Fresh(r, l, k + 1, 0),
           Flow[l][k].size > 0 => x + 1 = q,
           q <= Flow[l][k].size => Fresh(r, l, k, q)
    PROVE  Stored(r, Flow[l][k].name, x, l)
<1>1. Flow[l][k].size \in Nat
  BY PhaseIsPhase DEF PhaseType
<1>2. ASSUME Flow[l][k].size > 0
      PROVE  x >= 1 /\ (x < Flow[l][k].size => Fresh(r, l, k, x + 1))
  BY <1>1, <1>2
<1>3. \A j \in 1..Len(Flow[l]) : Flow[l][j].name = Flow[l][k].name => j = k
  BY NameAssumption
<1> QED BY <1>2, <1>3 DEF Stored

\* The handler being invoked is one of the invocation points, and no other
\* entry of the history changes.
LEMMA InvokedSlot ==
    ASSUME TypeOK, NEW o, NEW d, InvokeHandler(o, d) \/ ResumeHandler(o, d)
    PROVE  /\ i \in 1..Len(Flow[list]) /\ Phase \in PhaseType /\ h \in Nat
           /\ <<list, i, h>> \in Slots
           /\ \A t \in Slots : t # <<list, i, h>> => ran'[t] = ran[t]
           /\ ran'[<<list, i, h>>] = ran[<<list, i, h>>] + 1
<1>1. i \in 1..Len(Flow[list]) /\ Phase \in PhaseType /\ h \in Nat
  BY PhaseIsPhase, FlowAssumption DEF InvokeHandler, ResumeHandler, TypeOK, Phase
<1>2. h \in Positions(Phase)
  BY <1>1 DEF InvokeHandler, ResumeHandler, TypeOK, Positions, Present, PhaseType
<1>3. <<list, i, h>> \in Slots
  BY <1>1, <1>2, SlotIntro DEF Phase, TypeOK
<1>4. Invoke(o, d)
  BY DEF InvokeHandler, ResumeHandler
<1>5. ran' = [ran EXCEPT ![<<list, i, h>>] = ran[<<list, i, h>>] + 1]
  BY <1>4 DEF Invoke
<1> QED BY <1>1, <1>3, <1>5 DEF TypeOK

-----------------------------------------------------------------------------
(* Routes and names.                                                        *)

\* Starting a phase list, whichever function does it, keeps the routes.
LEMMA RouteStart ==
    ASSUME RouteInv, NEW l, NEW m, StartList(l, m), UNCHANGED <<kind, op_ctx>>,
           fn' \in FunctionsOf(kind) \ {"none"}, l \in ListsOf(EntryPoint[kind]),
           l = "in_fault" => op_ctx
    PROVE  RouteInv'
<1>1. list' = l /\ pc' # "idle"
  BY DEF StartList
<1> QED BY <1>1 DEF RouteInv

\* The routes hold initially.
LEMMA RouteInit == Init => RouteInv
  BY DEF Init, RouteInv

\* A step keeps function, list and kind together.
LEMMA RouteStep ==
    ASSUME TypeOK, RouteInv, [Next]_vars
    PROVE  RouteInv'
<1>0. kind \in KindNames
  BY FlowAssumption DEF TypeOK
<1>1. CASE UNCHANGED vars
  BY <1>1 DEF RouteInv, vars, ctx, walk, history
<1>2. ASSUME NEW f \in FunctionsOf(kind) \ {"none"}, NEW m, Enter(f, m)
      PROVE  RouteInv'
  <2>1. EntryList(f) \in ListsOf(EntryPoint[kind]) /\ (EntryList(f) = "in_fault" => op_ctx)
    BY <1>0, <1>2 DEF EntryList, ListsOf, EntryPoint, FunctionsOf, KindNames
  <2>2. StartList(EntryList(f), m) /\ UNCHANGED <<kind, op_ctx>> /\ fn' = f
    BY <1>2 DEF Enter
  <2> QED BY <1>2, <2>1, <2>2, RouteStart
<1>3. CASE Call
  <2>1. EntryPoint[kind] \in FunctionsOf(kind) \ {"none"}
    BY <1>0 DEF EntryPoint, FunctionsOf, KindNames
  <2> QED BY <1>2, <1>3, <2>1 DEF Call
<1>4. CASE ResumeCall
  <2>1. /\ kind = "in" => "resume_receive" \in FunctionsOf(kind) \ {"none"}
        /\ kind = "out" => "resume_send" \in FunctionsOf(kind) \ {"none"}
    BY DEF FunctionsOf
  <2> QED BY <1>2, <1>4, <2>1 DEF ResumeCall
<1>5. CASE PhasesEnd \/ PhaseInvoke \/ PhaseMatch \/ PhaseSkip \/ PhaseLeave
  <2>1. UNCHANGED <<kind, fn, list, op_ctx>> /\ pc # "idle" /\ pc' # "idle"
    BY <1>5 DEF PhasesEnd, PhaseInvoke, PhaseMatch, PhaseSkip, PhaseLeave, unmoved, ctx
  <2> QED BY <2>1 DEF RouteInv
<1>6. ASSUME NEW o, NEW d, InvokeHandler(o, d) \/ ResumeHandler(o, d)
      PROVE  RouteInv'
  <2>1. UNCHANGED <<kind, fn, list>> /\ pc # "idle" /\ pc' # "idle" /\ (op_ctx => op_ctx')
    BY <1>6 DEF InvokeHandler, ResumeHandler, PhaseFailed, Invoke, unmoved
  <2> QED BY <2>1 DEF RouteInv
<1>7. ASSUME NEW r, Return(r), pc # "idle", UNCHANGED <<kind, fn>>
      PROVE  RouteInv'
  <2>1. UNCHANGED <<list, op_ctx, paused>> /\ (pc' = "idle" => paused)
    BY <1>7 DEF Return, ctx, walk
  <2> QED BY <1>7, <2>1 DEF RouteInv
<1>8. ASSUME NEW s, Deliver(s), pc # "idle", UNCHANGED <<kind, fn>>
      PROVE  RouteInv'
  <2>1. UNCHANGED <<list, op_ctx, paused>> /\ pc' # "idle"
    BY <1>8 DEF Deliver, ctx, walk
  <2> QED BY <1>8, <2>1 DEF RouteInv
<1>9. ASSUME NEW l, NEW m, NEW s, Goto(l, m, s), UNCHANGED <<kind, fn>>, pc = "returned",
             l \in ListsOf(EntryPoint[kind]), l = "in_fault" => op_ctx
      PROVE  RouteInv'
  <2>1. StartList(l, m) /\ UNCHANGED op_ctx
    BY <1>9 DEF Goto
  <2>2. fn \in FunctionsOf(kind) \ {"none"}
    BY <1>9 DEF RouteInv
  <2> QED BY <1>9, <2>1, <2>2, RouteStart
<1>10. CASE ReceiveContinue
  <2>1. pc = "returned" /\ UNCHANGED <<kind, fn>> /\ "in" \in ListsOf(EntryPoint[kind])
    BY <1>0, <1>10 DEF ReceiveContinue, RouteInv, FunctionsOf, EntryPoint, ListsOf, KindNames
  <2> QED BY <1>7, <1>8, <1>9, <1>10, <2>1 DEF ReceiveContinue
<1>11. CASE ResumeReceiveContinue \/ ResumeSendContinue
  BY <1>7, <1>8, <1>11 DEF ResumeReceiveContinue, ResumeSendContinue
<1>12. CASE SendContinue
  <2>1. pc = "returned" /\ UNCHANGED <<kind, fn>> /\ "global_out" \in ListsOf(EntryPoint[kind])
    BY <1>0, <1>12 DEF SendContinue, RouteInv, FunctionsOf, EntryPoint, ListsOf, KindNames
  <2> QED BY <1>7, <1>8, <1>9, <1>12, <2>1 DEF SendContinue
<1>13. CASE SendFaultContinue
  <2>1. /\ pc = "returned" /\ UNCHANGED <<kind, fn>>
        /\ "global_out_fault" \in ListsOf(EntryPoint[kind])
    BY <1>0, <1>13 DEF SendFaultContinue, RouteInv, FunctionsOf, EntryPoint, ListsOf, KindNames
  <2> QED BY <1>7, <1>8, <1>9, <1>13, <2>1 DEF SendFaultContinue
<1>14. CASE ReceiveFaultContinue
  <2>1. pc = "returned" /\ UNCHANGED <<kind, fn>> /\ "in_fault" \in ListsOf(EntryPoint[kind])
    BY <1>0, <1>14 DEF ReceiveFaultContinue, RouteInv, FunctionsOf, EntryPoint, ListsOf, KindNames
  <2> QED BY <1>7, <1>9, <1>14, <2>1 DEF ReceiveFaultContinue
<1>15. ASSUME NEW s, ReceiverInvoke(s) \/ SenderInvoke(s)
       PROVE  RouteInv'
  BY <1>7, <1>15 DEF ReceiverInvoke, SenderInvoke
<1> QED BY <1>1, <1>3, <1>4, <1>5, <1>6, <1>10, <1>11, <1>12, <1>13, <1>14, <1>15 DEF Next, Step

\* The context names no phase before the first call.
LEMMA NameInit == Init => NameInv
  BY DEF Init, NameInv

\* A step keeps the name of the phase at work, and found_match tells that a
\* phase before the current one has the name.
LEMMA NameStep ==
    ASSUME TypeOK, NameInv, [Next]_vars
    PROVE  NameInv'
<1>1. CASE UNCHANGED vars
  BY <1>1 DEF NameInv, vars, ctx, walk, Phase
<1>2. ASSUME NEW f, NEW m, Enter(f, m)
      PROVE  NameInv'
  BY <1>2 DEF NameInv, Enter, StartList
<1>3. CASE Call \/ ResumeCall
  BY <1>2, <1>3 DEF Call, ResumeCall
<1>4. CASE PhasesEnd
  BY <1>4 DEF NameInv, PhasesEnd
<1>5. CASE PhaseInvoke
  BY <1>5 DEF NameInv, PhaseInvoke, Phase, unmoved
<1>6. CASE PhaseMatch
  BY <1>6 DEF NameInv, PhaseMatch, Phase, unmoved, ctx
<1>7. CASE PhaseSkip
  BY <1>7 DEF NameInv, PhaseSkip
<1>8. ASSUME pc \in {"phase", "from"}, i' = i + 1, pc' = "phases",
             UNCHANGED <<list, paused_phase_name>>
      PROVE  NameInv'
  <2>1. i \in 1..Len(Flow[list])
    BY <1>8, FlowAssumption DEF TypeOK
  <2>2. i < i' /\ Flow[list][i].name = paused_phase_name
    BY <1>8, <2>1 DEF NameInv, Phase
  <2> QED BY <1>8, <2>1, <2>2 DEF NameInv
<1>9. CASE PhaseLeave
  BY <1>8, <1>9 DEF PhaseLeave, NextPhase, unmoved, ctx
<1>10. ASSUME NEW o, NEW d, InvokeHandler(o, d)
       PROVE  NameInv'
  <2>1. pc = "phase" /\ UNCHANGED <<list, mode, paused_phase_name, found_match>>
    BY <1>10 DEF InvokeHandler, unmoved
  <2>2. CASE pc' = "phases"
    BY <1>8, <1>10, <2>1, <2>2 DEF InvokeHandler, PhaseFailed
  <2>3. CASE pc' # "phases"
    BY <1>10, <2>1, <2>3 DEF InvokeHandler, PhaseFailed, NameInv, Phase
  <2> QED BY <2>2, <2>3
<1>11. ASSUME NEW o, NEW d, ResumeHandler(o, d)
       PROVE  NameInv'
  BY <1>11 DEF ResumeHandler, NameInv, Phase, unmoved
<1>12. ASSUME pc' \in {"idle", "closed", "deliver", "returned"} \/ (pc' = "phases" /\ ~found_match')
       PROVE  NameInv'
  BY <1>12 DEF NameInv
<1>13. CASE ReceiveContinue \/ ResumeReceiveContinue \/ SendContinue
            \/ SendFaultContinue \/ ResumeSendContinue \/ ReceiveFaultContinue
  <2>1. pc' \in {"idle", "closed", "deliver", "returned"} \/ (pc' = "phases" /\ ~found_match')
    BY <1>13 DEF ReceiveContinue, ResumeReceiveContinue, SendContinue, SendFaultContinue,
                 ResumeSendContinue, ReceiveFaultContinue, Return, Goto, Deliver, StartList
  <2> QED BY <1>12, <2>1
<1>14. ASSUME NEW s, ReceiverInvoke(s) \/ SenderInvoke(s)
       PROVE  NameInv'
  BY <1>12, <1>14 DEF ReceiverInvoke, SenderInvoke, Return
<1> QED BY <1>1, <1>3, <1>4, <1>5, <1>6, <1>7, <1>9, <1>10, <1>11, <1>13, <1>14 DEF Next, Step

-----------------------------------------------------------------------------
(* The walk goes forward.                                                   *)

\* The lists that are gone through once are no other than these.
LEMMA OwnLists ==
    ASSUME TypeOK, NEW l \in Own(kind)
    PROVE  l \in {"pre", "in", "out"} /\ l \in FlowNames
  BY DEF Own, FlowNames

\* A list that is gone through once belongs to the kind of the message.
LEMMA OwnedList ==
    ASSUME TypeOK, NEW l \in ListsOf(EntryPoint[kind]), l \in Forward
    PROVE  l \in Own(kind) /\ NoFirst(l)
<1>1. kind \in KindNames /\ l \in {"pre", "in", "out"} /\ NoFirst(l)
  BY FlowAssumption DEF TypeOK, Forward
<1> QED BY <1>1 DEF Own, ListsOf, EntryPoint, KindNames

\* The name of a phase at work is not in the other lists of the message.
LEMMA OtherNames ==
    ASSUME TypeOK, RouteInv, NameInv, pc \in {"phase", "from"}, list # "in_fault",
           NEW l \in Own(kind), l # list
    PROVE  paused_phase_name \notin Names(l)
<1>1. paused_phase_name \in Names(list)
  <2>1. i \in 1..Len(Flow[list])
    BY FlowAssumption DEF TypeOK
  <2> QED BY <2>1 DEF NameInv, Phase, Names
<1>2. kind \in KindNames /\ list \in ListsOf(EntryPoint[kind])
  BY FlowAssumption DEF TypeOK, RouteInv
<1>3. \/ list = "pre" /\ l = "in"
      \/ list = "in" /\ l = "pre"
      \/ list = "global_out" /\ l = "out"
  <2>1. CASE kind = "in"
    <3>1. l \in {"pre", "in"} /\ list \in {"pre", "in"}
      BY <1>2, <2>1 DEF Own, ListsOf, EntryPoint, KindNames
    <3> QED BY <3>1
  <2>2. CASE kind = "out"
    <3>1. l = "out" /\ list \in {"out", "global_out"}
      BY <1>2, <2>2 DEF Own, ListsOf, EntryPoint, KindNames
    <3> QED BY <3>1
  <2>3. CASE kind = "in_fault"
    <3>1. l = "pre" /\ list \in {"pre", "in_fault"}
      BY <1>2, <2>3 DEF Own, ListsOf, EntryPoint, KindNames
    <3> QED BY <3>1
  <2>4. CASE kind = "out_fault"
    BY <2>4 DEF Own
  <2> QED BY <1>2, <2>1, <2>2, <2>3, <2>4 DEF KindNames
<1> QED BY <1>1, <1>3, NameAssumption, GlobalNameAssumption

\* The invariant of the walk.
ForwardInv == PauseInv /\ AheadInv /\ SecondInv

\* Nothing has run before the first call.
LEMMA ForwardInit == Init => ForwardInv
  BY DEF Init, ForwardInv, PauseInv, AheadInv, SecondInv

\* Starting a list that is fresh, or described by the context, keeps it.
LEMMA ForwardStart ==
    ASSUME TypeOK, ForwardInv, NEW l, NEW m \in {"invoke", "resume"}, StartList(l, m),
           UNCHANGED <<kind, ran, paused_phase_name, current_handler_index>>,
           paused /\ list = "in_fault" => l = "in_fault",
           l \in Forward /\ m = "invoke" => Untouched(l),
           l \in Forward /\ m = "resume" =>
               Stored(ran, paused_phase_name, current_handler_index, l),
           l = "pre" /\ kind = "in" /\ m = "invoke" => Untouched("in"),
           l = "pre" /\ kind = "in" /\ m = "resume" /\ NoFirst("in") =>
               Stored(ran, paused_phase_name, current_handler_index, "in")
    PROVE  ForwardInv'
<1>1. /\ list' = l /\ mode' = m /\ i' = 1 /\ ~found_match' /\ (paused' => paused)
      /\ pc' \in {"returned", "phases"}
  BY DEF StartList
<1>2. PauseInv'
  BY <1>1 DEF ForwardInv, PauseInv
<1>3. AheadInv'
  <2>1. ASSUME l \in Forward, m = "invoke" PROVE Fresh(ran, l, 1, 0)
    BY <2>1 DEF Fresh, Untouched
  <2> QED BY <1>1, <2>1 DEF AheadInv
<1>4. SecondInv'
  BY <1>1 DEF SecondInv, Untouched
<1> QED BY <1>2, <1>3, <1>4 DEF ForwardInv

\* Leaving the lists, for the caller or for the receiver, keeps it.
LEMMA ForwardLeave ==
    ASSUME ForwardInv, pc # "idle", pc' \in {"returned", "deliver", "idle", "closed"},
           UNCHANGED <<kind, list, mode, ran, paused, paused_phase_name, current_handler_index>>
    PROVE  ForwardInv'
<1>1. PauseInv'
  BY DEF ForwardInv, PauseInv
<1>2. AheadInv'
  BY DEF AheadInv
<1>3. SecondInv'
  BY DEF ForwardInv, SecondInv, Untouched
<1> QED BY <1>1, <1>2, <1>3 DEF ForwardInv

\* Invoking one handler keeps it.
LEMMA ForwardInvoke ==
    ASSUME TypeOK, TypeOK', RouteInv, NameInv, ForwardInv, NEW o \in Outcome, NEW d \in BOOLEAN,
           InvokeHandler(o, d)
    PROVE  ForwardInv'
<1>1. /\ i \in 1..Len(Flow[list]) /\ Phase \in PhaseType /\ h \in Nat
      /\ <<list, i, h>> \in Slots
      /\ \A t \in Slots : t # <<list, i, h>> => ran'[t] = ran[t]
  BY InvokedSlot
<1>2. /\ pc = "phase" /\ ~paused /\ paused_phase_name = Phase.name
      /\ UNCHANGED <<kind, list, mode, paused_phase_name, found_match>>
      /\ h \in Positions(Phase)
  BY DEF InvokeHandler, unmoved, NameInv, TypeOK
<1>3. list \in FlowNames /\ Phase.size \in Nat /\ current_handler_index \in Int
  BY <1>1 DEF TypeOK, PhaseType
<1>4. ASSUME list \in Forward
      PROVE  /\ Fresh(ran, list, i, h) /\ h >= 1
             /\ \A p \in 1..Phase.size : p < h => current_handler_index >= p
  <2>1. ~Phase.first
    BY <1>1, <1>4 DEF Forward, NoFirst, Phase
  <2>2. h # 0
    BY <1>2, <1>3, <2>1 DEF Positions, Present
  <2> QED BY <1>1, <1>2, <1>4, <2>2 DEF ForwardInv, AheadInv
<1>5. SecondInv'
  <2> SUFFICES ASSUME kind = "in", list = "pre"
               PROVE  /\ mode = "invoke" => \A t \in Slots : t[1] = "in" => ran'[t] = 0
                      /\ Stored(ran', paused_phase_name, current_handler_index', "in")
    BY <1>2 DEF SecondInv, Untouched
  <2>1. paused_phase_name \notin Names("in")
    BY <1>2, OtherNames DEF Own
  <2>2. mode = "invoke" => \A t \in Slots : t[1] = "in" => ran[t] = 0
    BY <1>2 DEF ForwardInv, SecondInv, Untouched
  <2> QED BY <1>1, <2>1, <2>2, StoredNowhere
<1>6. CASE o = "fail"
  <2>1. /\ ~paused' /\ pc' \in {"returned", "phases"}
        /\ pc' = "phases" => mode = "resume" /\ i' = i + 1
    BY <1>2, <1>6 DEF InvokeHandler, PhaseFailed, Invoke
  <2>2. PauseInv'
    BY <2>1 DEF PauseInv
  <2>3. ASSUME list \in Forward, pc' = "phases"
        PROVE  found_match' /\ Fresh(ran', list, i', 0)
    <3>1. Fresh(ran, list, i + 1, 0)
      BY <1>1, <1>3, <1>4, <2>3, FreshNext
    <3>2. i \in Int /\ i + 1 \in Int /\ i + 1 > i
      BY <1>1
    <3>3. Fresh(ran', list, i + 1, 0)
      BY <1>1, <3>1, <3>2, FreshPhases
    <3> QED BY <1>2, <2>1, <2>3, <3>3 DEF NameInv
  <2>4. AheadInv'
    BY <1>2, <2>1, <2>3 DEF AheadInv
  <2> QED BY <1>5, <2>2, <2>4 DEF ForwardInv
<1>7. CASE o # "fail"
  <2>1. /\ pc' = pc /\ i' = i /\ h' = NextPos(Phase, h)
        /\ current_handler_index' = IndexAfter /\ Phase' = Phase
    BY <1>2, <1>7 DEF InvokeHandler, Phase
  <2>2. h' \in Int /\ h' > h
    <3>1. h < NextPos(Phase, h)
      BY <1>1, <1>2, NextPosLeast
    <3> QED BY <2>1, <3>1 DEF TypeOK
  <2>3. ASSUME list \in Forward
        PROVE  /\ Fresh(ran', list, i, h') /\ h' > 1
               /\ \A p \in 1..Phase.size : p < h' => current_handler_index' >= p
    <3>1. Fresh(ran', list, i, h')
      BY <1>1, <1>4, <2>2, <2>3, FreshBehind
    <3>2. ASSUME NEW p \in 1..Phase.size, p < h' PROVE current_handler_index' >= p
      <4>1. p \in Positions(Phase)
        BY <1>3 DEF Positions, Present
      <4>2. p <= h
        BY <1>1, <2>1, <3>2, <4>1, NextPosLeast
      <4>3. CASE h \in 1..Phase.size
        BY <2>1, <4>2, <4>3 DEF IndexAfter
      <4>4. CASE h \notin 1..Phase.size
        BY <1>1, <1>3, <1>4, <2>1, <2>3, <4>2, <4>4 DEF IndexAfter
      <4> QED BY <4>3, <4>4
    <3> QED BY <1>1, <1>4, <2>2, <2>3, <3>1, <3>2
  <2>4. AheadInv'
    BY <1>2, <2>1, <2>3 DEF AheadInv
  <2>5. ASSUME NEW l \in Own(kind), NoFirst(l), list # "in_fault"
        PROVE  Stored(ran', paused_phase_name, current_handler_index', l)
    <3>1. CASE l = list
      <4>1. list \in Forward
        BY <2>5, <3>1, OwnLists DEF Forward
      <4>2. current_handler_index' \in Int
        BY DEF TypeOK
      <4> QED BY <1>1, <1>2, <1>3, <2>2, <2>3, <3>1, <4>1, <4>2, StoredPhase DEF Phase
    <3>2. CASE l # list
      BY <1>2, <2>5, <3>2, OtherNames, StoredNowhere
    <3> QED BY <3>1, <3>2
  <2>6. PauseInv'
    BY <1>2, <2>5 DEF PauseInv
  <2> QED BY <1>5, <2>4, <2>6 DEF ForwardInv
<1> QED BY <1>6, <1>7

\* So does invoking one handler of the phase that is resumed.
LEMMA ForwardResume ==
    ASSUME TypeOK, RouteInv, NameInv, ForwardInv, NEW o \in Outcome, NEW d \in BOOLEAN,
           ResumeHandler(o, d)
    PROVE  ForwardInv'
<1>1. /\ i \in 1..Len(Flow[list]) /\ Phase \in PhaseType /\ h \in Nat
      /\ <<list, i, h>> \in Slots
      /\ \A t \in Slots : t # <<list, i, h>> => ran'[t] = ran[t]
  BY InvokedSlot
<1>2. /\ pc = "from" /\ paused_phase_name = Phase.name /\ h <= Phase.size /\ h > 0
      /\ UNCHANGED <<kind, list, mode, paused_phase_name, found_match, pc, i>>
      /\ h' = h + 1 /\ current_handler_index' = current_handler_index + 1 /\ Phase' = Phase
  BY DEF ResumeHandler, unmoved, NameInv, TypeOK, Phase
<1>3. list \in FlowNames /\ Phase.size \in Nat /\ current_handler_index \in Int
  BY <1>1 DEF TypeOK, PhaseType
<1>4. SecondInv'
  <2> SUFFICES ASSUME kind = "in", list = "pre"
               PROVE  /\ mode = "invoke" => \A t \in Slots : t[1] = "in" => ran'[t] = 0
                      /\ Stored(ran', paused_phase_name, current_handler_index', "in")
    BY <1>2 DEF SecondInv, Untouched
  <2>1. paused_phase_name \notin Names("in")
    BY <1>2, OtherNames DEF Own
  <2>2. mode = "invoke" => \A t \in Slots : t[1] = "in" => ran[t] = 0
    BY <1>2 DEF ForwardInv, SecondInv, Untouched
  <2> QED BY <1>1, <2>1, <2>2, StoredNowhere
<1>5. ASSUME list \in Forward
      PROVE  /\ Fresh(ran', list, i + 1, 0)
             /\ current_handler_index' + 1 = h'
             /\ Fresh(ran', list, i, h')
  <2>1. /\ Fresh(ran, list, i + 1, 0) /\ Fresh(ran, list, i, h)
        /\ current_handler_index + 1 = h
    BY <1>1, <1>2, <1>3, <1>5 DEF ForwardInv, AheadInv
  <2>a. i \in Int /\ i + 1 \in Int /\ i + 1 > i
    BY <1>1
  <2>2. Fresh(ran', list, i + 1, 0)
    BY <1>1, <2>1, <2>a, FreshPhases
  <2>3. Fresh(ran', list, i, h + 1)
    BY <1>1, <2>1, FreshBehind
  <2> QED BY <1>1, <1>2, <1>3, <2>1, <2>2, <2>3
<1>6. AheadInv'
  BY <1>2, <1>5 DEF AheadInv
<1>7. ASSUME NEW l \in Own(kind), NoFirst(l), list # "in_fault"
      PROVE  Stored(ran', paused_phase_name, current_handler_index', l)
  <2>1. CASE l = list
    <3>1. list \in Forward
      BY <1>7, <2>1, OwnLists DEF Forward
    <3>2. h + 1 \in Int /\ h + 1 > 1 /\ current_handler_index + 1 \in Int
      BY <1>1, <1>2, <1>3
    <3> QED BY <1>1, <1>2, <1>3, <1>5, <2>1, <3>1, <3>2, StoredFrom DEF Phase
  <2>2. CASE l # list
    BY <1>2, <1>7, <2>2, OtherNames, StoredNowhere
  <2> QED BY <2>1, <2>2
<1>8. PauseInv'
  BY <1>2, <1>7 DEF PauseInv
<1> QED BY <1>4, <1>6, <1>8 DEF ForwardInv

\* One step per action of Engine.
LEMMA ForwardStep ==
    ASSUME TypeOK, RouteInv, NameInv, ForwardInv, [Next]_vars
    PROVE  ForwardInv'
<1>0. TypeOK' /\ RouteInv' /\ kind \in KindNames
  BY TypeStep, RouteStep, FlowAssumption DEF TypeOK
<1>1. CASE UNCHANGED vars
  <2>1. UNCHANGED <<kind, list, mode, ran, paused, paused_phase_name, current_handler_index,
                    pc, i, h, found_match>>
    BY <1>1 DEF vars, ctx, walk, history
  <2>2. Phase' = Phase
    BY <2>1 DEF Phase
  <2> QED BY <2>1, <2>2 DEF ForwardInv, PauseInv, AheadInv, SecondInv, Untouched
<1>2. ASSUME NEW f, NEW m \in {"invoke", "resume"}, Enter(f, m), paused <=> m = "resume",
             f \in FunctionsOf(kind)
      PROVE  ForwardInv'
  <2>1. /\ StartList(EntryList(f), m) /\ pc = "idle" /\ fn' = f
        /\ UNCHANGED <<kind, ran, paused_phase_name, current_handler_index, op_ctx>>
    BY <1>2 DEF Enter, history
  <2>2. ASSUME m = "invoke" PROVE \A t \in Slots : ran[t] = 0
    BY <1>2, <2>1, <2>2 DEF RouteInv
  <2>3. EntryList(f) \in ListsOf(EntryPoint[kind])
    BY <1>0, <1>2 DEF EntryList, ListsOf, EntryPoint, FunctionsOf, KindNames
  <2>4. ASSUME paused, list = "in_fault" PROVE EntryList(f) = "in_fault"
    <3>1. list \in ListsOf(EntryPoint[kind]) /\ op_ctx
      BY <2>4 DEF RouteInv
    <3>2. kind = "in_fault"
      BY <1>0, <2>4, <3>1 DEF ListsOf, EntryPoint, KindNames
    <3>3. f = "receive_fault"
      BY <1>2, <3>2 DEF FunctionsOf, EntryPoint, KindNames
    <3> QED BY <3>1, <3>3 DEF EntryList
  <2>5. ASSUME m = "resume", EntryList(f) # "in_fault", NEW l \in Own(kind), NoFirst(l)
        PROVE  Stored(ran, paused_phase_name, current_handler_index, l)
    BY <1>2, <2>4, <2>5 DEF ForwardInv, PauseInv
  <2>6. ASSUME m = "resume", EntryList(f) \in Forward
        PROVE  Stored(ran, paused_phase_name, current_handler_index, EntryList(f))
    <3>1. EntryList(f) \in Own(kind) /\ NoFirst(EntryList(f)) /\ EntryList(f) # "in_fault"
      BY <2>3, <2>6, OwnedList DEF Forward
    <3> QED BY <2>5, <2>6, <3>1
  <2>7. ASSUME m = "resume", EntryList(f) = "pre", kind = "in", NoFirst("in")
        PROVE  Stored(ran, paused_phase_name, current_handler_index, "in")
    <3>1. "in" \in Own(kind)
      BY <2>7 DEF Own
    <3> QED BY <2>5, <2>7, <3>1
  <2>8. m = "invoke" => Untouched(EntryList(f)) /\ Untouched("in")
    BY <2>2 DEF Untouched
  <2> QED BY <1>2, <2>1, <2>4, <2>6, <2>7, <2>8, ForwardStart
<1>3. CASE Call
  <2>1. EntryPoint[kind] \in FunctionsOf(kind)
    BY <1>0 DEF EntryPoint, FunctionsOf, KindNames
  <2>2. CASE paused
    BY <1>2, <1>3, <2>1, <2>2 DEF Call
  <2>3. CASE ~paused
    BY <1>2, <1>3, <2>1, <2>3 DEF Call
  <2> QED BY <2>2, <2>3
<1>4. CASE ResumeCall
  <2>1. /\ kind = "in" => "resume_receive" \in FunctionsOf(kind)
        /\ kind = "out" => "resume_send" \in FunctionsOf(kind)
    BY DEF FunctionsOf
  <2> QED BY <1>2, <1>4, <2>1 DEF ResumeCall
<1>5. CASE PhasesEnd
  BY <1>5, ForwardLeave DEF PhasesEnd, unmoved, ctx, history
<1>6. CASE PhaseInvoke
  <2>1. /\ i \in 1..Len(Flow[list]) /\ Phase \in PhaseType /\ Phase.size \in Nat
        /\ list \in FlowNames /\ h' \in Int
    BY <1>0, <1>6, PhaseIsPhase, FlowAssumption DEF PhaseInvoke, TypeOK, Phase, PhaseType
  <2>2. /\ pc = "phases" /\ pc' = "phase" /\ ~paused /\ ~paused' /\ h' = NextPos(Phase, -1)
        /\ paused_phase_name' = Phase.name /\ (mode = "invoke" \/ found_match)
        /\ UNCHANGED <<kind, list, mode, ran, current_handler_index, i>> /\ Phase' = Phase
    BY <1>6 DEF PhaseInvoke, unmoved, history, Phase
  <2>3. PauseInv'
    BY <2>2 DEF PauseInv
  <2>4. ASSUME list \in Forward
        PROVE  /\ Fresh(ran, list, i, h')
               /\ \A p \in 1..Phase.size : p < h' => current_handler_index >= p
    <3>1. ~Phase.first
      BY <2>1, <2>4 DEF Forward, NoFirst, Phase
    <3>2. h' >= 1 /\ (Phase.size > 0 => h' = 1)
      BY <2>1, <2>2, <3>1 DEF NextPos, End
    <3>3. Fresh(ran, list, i, 0)
      BY <2>2, <2>4 DEF ForwardInv, AheadInv
    <3>4. Fresh(ran, list, i, h')
      BY <2>1, <3>2, <3>3, FreshLater
    <3> QED BY <2>1, <3>2, <3>4
  <2>5. AheadInv'
    BY <2>2, <2>4 DEF AheadInv
  <2>6. SecondInv'
    <3>1. ASSUME list = "pre" PROVE Phase.name \notin Names("in")
      <4>1. Phase.name \in Names("pre")
        BY <2>1, <3>1 DEF Names, Phase
      <4> QED BY <4>1, NameAssumption
    <3> QED BY <2>2, <3>1, StoredNowhere DEF ForwardInv, SecondInv, Untouched
  <2> QED BY <2>3, <2>5, <2>6 DEF ForwardInv
<1>7. CASE PhaseMatch
  <2>1. /\ i \in 1..Len(Flow[list]) /\ Phase \in PhaseType /\ Phase.size \in Nat
        /\ list \in FlowNames /\ current_handler_index \in Int
    BY <1>7, PhaseIsPhase, FlowAssumption DEF PhaseMatch, TypeOK, Phase, PhaseType
  <2>2. /\ pc = "phases" /\ pc' = "from" /\ mode = "resume" /\ Phase.name = paused_phase_name
        /\ h' = (IF current_handler_index < 0 THEN 0 ELSE current_handler_index) + 1
        /\ UNCHANGED <<kind, list, mode, ran, paused, paused_phase_name,
                       current_handler_index, i>> /\ Phase' = Phase
    BY <1>7 DEF PhaseMatch, unmoved, ctx, history, Phase
  <2>3. ~found_match
    <3> SUFFICES ASSUME found_match PROVE FALSE
      OBVIOUS
    <3>1. PICK j \in 1..Len(Flow[list]) : j < i /\ Flow[list][j].name = paused_phase_name
      BY <2>2 DEF NameInv
    <3>2. j = i
      BY <2>1, <2>2, <3>1, NameAssumption DEF Phase
    <3> QED BY <2>1, <3>1, <3>2
  <2>4. ASSUME list \in Forward
        PROVE  /\ Fresh(ran, list, i + 1, 0)
               /\ Phase.size > 0 => current_handler_index + 1 = h'
               /\ h' <= Phase.size => Fresh(ran, list, i, h')
    <3>1. Stored(ran, paused_phase_name, current_handler_index, list)
      BY <2>2, <2>3, <2>4 DEF ForwardInv, AheadInv
    <3>2. /\ Fresh(ran, list, i + 1, 0)
          /\ Phase.size > 0 =>
                /\ current_handler_index >= 1
                /\ current_handler_index < Phase.size =>
                       Fresh(ran, list, i, current_handler_index + 1)
      BY <2>1, <2>2, <3>1 DEF Stored, Phase
    <3>3. Phase.size > 0 => current_handler_index + 1 = h'
      BY <2>1, <2>2, <3>2
    <3>4. h' <= Phase.size => Phase.size > 0 /\ current_handler_index < Phase.size
      BY <2>1, <2>2
    <3> QED BY <3>2, <3>3, <3>4
  <2>5. AheadInv'
    BY <2>2, <2>4 DEF AheadInv
  <2>6. PauseInv' /\ SecondInv'
    BY <2>2 DEF ForwardInv, PauseInv, SecondInv, Untouched
  <2> QED BY <2>5, <2>6 DEF ForwardInv
<1>8. CASE PhaseSkip
  <2>1. /\ pc = "phases" /\ pc' = "phases" /\ mode = "resume" /\ ~found_match
        /\ UNCHANGED <<kind, list, mode, ran, paused, paused_phase_name,
                       current_handler_index, found_match>>
    BY <1>8 DEF PhaseSkip, unmoved, ctx, history
  <2> QED BY <2>1 DEF ForwardInv, PauseInv, AheadInv, SecondInv, Untouched
<1>9. CASE PhaseLeave
  <2>1. /\ pc \in {"phase", "from"} /\ pc' = "phases" /\ i' = i + 1 /\ i \in Int /\ h \in Int
        /\ UNCHANGED <<kind, list, mode, ran, paused, paused_phase_name,
                       current_handler_index, found_match>>
    BY <1>9 DEF PhaseLeave, NextPhase, unmoved, ctx, history, TypeOK
  <2>2. mode = "resume" => found_match
    BY <2>1 DEF NameInv
  <2>3. ASSUME list \in Forward PROVE Fresh(ran, list, i + 1, 0)
    <3>1. CASE pc = "phase"
      <4>1. Fresh(ran, list, i, h)
        BY <2>3, <3>1 DEF ForwardInv, AheadInv
      <4> QED BY <2>1, <4>1, FreshNext
    <3>2. CASE pc = "from"
      BY <2>3, <3>2 DEF ForwardInv, AheadInv
    <3> QED BY <2>1, <3>1, <3>2
  <2>4. AheadInv'
    BY <2>1, <2>2, <2>3 DEF AheadInv
  <2>5. PauseInv' /\ SecondInv'
    BY <2>1 DEF ForwardInv, PauseInv, SecondInv, Untouched
  <2> QED BY <2>4, <2>5 DEF ForwardInv
<1>10. ASSUME NEW o \in Outcome, NEW d \in BOOLEAN, InvokeHandler(o, d) \/ ResumeHandler(o, d)
       PROVE  ForwardInv'
  BY <1>0, <1>10, ForwardInvoke, ForwardResume
<1>11. ASSUME NEW r, Return(r) \/ Deliver(r), pc \in {"returned", "deliver"},
              UNCHANGED <<kind, ran>>
       PROVE  ForwardInv'
  BY <1>11, ForwardLeave DEF Return, Deliver, ctx, walk
<1>12. ASSUME NEW l \in {"global_out", "global_out_fault", "in_fault"},
              NEW m \in {"invoke", "resume"}, NEW s, Goto(l, m, s), UNCHANGED <<kind, ran>>,
              list # "in_fault"
       PROVE  ForwardInv'
  <2>1. StartList(l, m) /\ UNCHANGED <<kind, ran, paused_phase_name, current_handler_index>>
    BY <1>12 DEF Goto
  <2>2. l \notin Forward /\ l # "pre"
    BY DEF Forward
  <2> QED BY <1>12, <2>1, <2>2, ForwardStart
<1>13. CASE ReceiveContinue
  <2>1. /\ pc = "returned" /\ UNCHANGED <<kind, ran>> /\ kind = "in"
        /\ mode \in {"invoke", "resume"}
    BY <1>0, <1>13 DEF ReceiveContinue, RouteInv, FunctionsOf, EntryPoint, KindNames, history,
                       TypeOK
  <2>2. ASSUME NEW s, Goto("in", mode, s), ~paused, list = "pre"
        PROVE  ForwardInv'
    <3>1. /\ StartList("in", mode)
          /\ UNCHANGED <<kind, ran, paused_phase_name, current_handler_index>>
      BY <2>1, <2>2 DEF Goto
    <3>2. /\ mode = "invoke" => Untouched("in")
          /\ mode = "resume" /\ "in" \in Forward =>
                Stored(ran, paused_phase_name, current_handler_index, "in")
      BY <2>1, <2>2 DEF ForwardInv, SecondInv, Forward
    <3> QED BY <2>1, <2>2, <3>1, <3>2, ForwardStart
  <2> QED BY <1>11, <1>13, <2>1, <2>2 DEF ReceiveContinue
<1>14. CASE ResumeReceiveContinue \/ ResumeSendContinue
  BY <1>11, <1>14 DEF ResumeReceiveContinue, ResumeSendContinue, history
<1>15. CASE SendContinue \/ SendFaultContinue
  BY <1>11, <1>12, <1>15 DEF SendContinue, SendFaultContinue, history
<1>16. CASE ReceiveFaultContinue
  BY <1>11, <1>12, <1>16 DEF ReceiveFaultContinue, history
<1>17. ASSUME NEW s, ReceiverInvoke(s) \/ SenderInvoke(s)
       PROVE  ForwardInv'
  BY <1>11, <1>17 DEF ReceiverInvoke, SenderInvoke, history
<1> QED BY <1>1, <1>3, <1>4, <1>5, <1>6, <1>7, <1>8, <1>9, <1>10, <1>13, <1>14, <1>15, <1>16,
           <1>17 DEF Next, Step

-----------------------------------------------------------------------------
\* A history entry changes only when the handler there is invoked.
LEMMA OnlyHandlersRun ==
    ASSUME TypeOK, [Next]_vars, NEW s \in Slots, ran'[s] # ran[s]
    PROVE  \E o \in Outcome, d \in BOOLEAN :
               (InvokeHandler(o, d) \/ ResumeHandler(o, d)) /\ s = <<list, i, h>>
<1>1. ran' # ran
  OBVIOUS
<1>2. \E o \in Outcome, d \in BOOLEAN : InvokeHandler(o, d) \/ ResumeHandler(o, d)
  BY <1>1 DEF Next, Step, Call, ResumeCall, Enter, PhasesEnd, PhaseInvoke, PhaseMatch,
        PhaseSkip, PhaseLeave, ReceiveContinue, ResumeReceiveContinue, SendContinue,
        SendFaultContinue, ResumeSendContinue, ReceiveFaultContinue, ReceiverInvoke,
        SenderInvoke, history, vars
<1> QED BY <1>2, InvokedSlot

\* When a handler of a forward list is invoked, it and all behind it are fresh.
LEMMA InvokedFresh ==
    ASSUME TypeOK, ForwardInv, list \in Forward, NEW o, NEW d,
           InvokeHandler(o, d) \/ ResumeHandler(o, d)
    PROVE  Fresh(ran, list, i, h)
  BY DEF ForwardInv, AheadInv, InvokeHandler, ResumeHandler

\* What NeverBackwards says of one step.
LEMMA StepForward ==
    ASSUME TypeOK, ForwardInv, [Next]_vars
    PROVE  \A s \in Slots :
              ran'[s] # ran[s] /\ s[1] \in {"pre", "in", "out"} /\ NoFirst(s[1]) =>
                  \A t \in Slots : t[1] = s[1] /\ NotBefore(t, s[2], s[3]) => ran[t] = 0
<1> SUFFICES ASSUME NEW s \in Slots, ran'[s] # ran[s], s[1] \in {"pre", "in", "out"},
                    NoFirst(s[1]), NEW t \in Slots, t[1] = s[1], NotBefore(t, s[2], s[3])
             PROVE  ran[t] = 0
  OBVIOUS
<1>1. PICK o \in Outcome, d \in BOOLEAN :
          (InvokeHandler(o, d) \/ ResumeHandler(o, d)) /\ s = <<list, i, h>>
  BY OnlyHandlersRun
<1>2. list \in Forward
  BY <1>1 DEF Forward
<1> QED BY <1>1, <1>2, InvokedFresh DEF Fresh

\* However often a message is paused and resumed, and by whichever entry point,
\* no handler of its in flows or of the operation's out flow runs twice or after
\* a later one, for all phase lists without first handlers.
THEOREM WalkNeverGoesBack == Spec => NeverBackwards
<1> DEFINE IInv == TypeOK /\ RouteInv /\ NameInv /\ ForwardInv
<1>1. Init => IInv
  BY TypeInit, RouteInit, NameInit, ForwardInit
<1>2. IInv /\ [Next]_vars => IInv'
  BY TypeStep, RouteStep, NameStep, ForwardStep
<1>3. IInv /\ [Next]_vars =>
        [\A s \in Slots :
            ran'[s] # ran[s] /\ s[1] \in {"pre", "in", "out"} /\ NoFirst(s[1]) =>
                \A t \in Slots : t[1] = s[1] /\ NotBefore(t, s[2], s[3]) => ran[t] = 0]_vars
  BY StepForward
<1> HIDE DEF IInv
<1> QED BY <1>1, <1>2, <1>3, PTL DEF Spec, NeverBackwards

-----------------------------------------------------------------------------
(* Engine implements the safety part of MessageLife.                        *)

\* The places of the forward lists, and those worked at, as Life's WITH has them.
PlacesOf == [l \in Forward |-> {<<s[2], s[3]>> : s \in {t \in Slots : t[1] = l}}]
DonePlaces ==
    [l \in Forward |-> {<<s[2], s[3]>> : s \in {t \in Slots : t[1] = l /\ ran[t] > 0}}]

\* A fresh message context is a message that belongs to its caller.
LEMMA LifeInit == Init => Life!Init
<1> SUFFICES ASSUME Init PROVE Life!Init
  OBVIOUS
<1>1. \A t \in Slots : ran[t] = 0
  BY DEF Init
<1>2. DonePlaces = [l \in Forward |-> {}]
  BY <1>1 DEF DonePlaces
<1>3. DOMAIN PlacesOf = Forward
  BY DEF PlacesOf
<1>4. pc = "idle" /\ paused = FALSE /\ delivered = 0
  BY DEF Init
<1> QED BY <1>2, <1>3, <1>4 DEF Life!Init, DonePlaces, PlacesOf

\* A step that runs no handler changes none of the places worked at.
LEMMA LifeQuiet ==
    ASSUME ran' = ran
    PROVE  DonePlaces' = DonePlaces
  BY DEF DonePlaces

\* A handler of a forward list works at one more place of it, beyond all others.
LEMMA LifeWork ==
    ASSUME TypeOK, ForwardInv, list \in Forward, NEW o, NEW d,
           InvokeHandler(o, d) \/ ResumeHandler(o, d)
    PROVE  /\ <<i, h>> \in PlacesOf[list]
           /\ \A t \in DonePlaces[list] : Life!Beyond(<<i, h>>, t)
           /\ DonePlaces' = [DonePlaces EXCEPT ![list] = @ \cup {<<i, h>>}]
<1>1. /\ i \in Nat /\ h \in Nat /\ <<list, i, h>> \in Slots
      /\ \A t \in Slots : t # <<list, i, h>> => ran'[t] = ran[t]
      /\ ran'[<<list, i, h>>] = ran[<<list, i, h>>] + 1
  BY InvokedSlot DEF TypeOK
<1>2. <<i, h>> \in PlacesOf[list]
  BY <1>1 DEF PlacesOf
<1>3. ASSUME NEW t \in DonePlaces[list] PROVE Life!Beyond(<<i, h>>, t)
  <2>1. PICK s \in Slots : s[1] = list /\ ran[s] > 0 /\ t = <<s[2], s[3]>>
    BY <1>3 DEF DonePlaces
  <2>2. ~NotBefore(s, i, h)
    BY <2>1, InvokedFresh DEF Fresh
  <2>3. s[2] \in Nat /\ s[3] \in Nat
    BY SlotElim
  <2> QED BY <1>1, <2>1, <2>2, <2>3 DEF Life!Beyond, NotBefore
<1>4. ASSUME NEW l \in Forward
      PROVE  DonePlaces'[l] = IF l = list THEN DonePlaces[l] \cup {<<i, h>>} ELSE DonePlaces[l]
  <2> DEFINE Ran(r) == {t \in Slots : t[1] = l /\ r[t] > 0}
  <2>1. DonePlaces[l] = {<<s[2], s[3]>> : s \in Ran(ran)}
    BY DEF DonePlaces
  <2>2. DonePlaces'[l] = {<<s[2], s[3]>> : s \in Ran(ran')}
    BY DEF DonePlaces
  <2>3. ran[<<list, i, h>>] \in Nat
    BY <1>1 DEF TypeOK
  <2>4. CASE l = list
    <3>1. Ran(ran') = Ran(ran) \cup {<<list, i, h>>}
      BY <1>1, <2>3, <2>4
    <3> HIDE DEF Ran
    <3>2. <<list, i, h>>[2] = i /\ <<list, i, h>>[3] = h
      OBVIOUS
    <3>3. ASSUME NEW z PROVE z \in DonePlaces'[l] <=> z \in DonePlaces[l] \cup {<<i, h>>}
      <4>1. z \in DonePlaces'[l] <=> \E s \in Ran(ran) \cup {<<list, i, h>>} : z = <<s[2], s[3]>>
        BY <2>2, <3>1
      <4>2. z \in DonePlaces[l] <=> \E s \in Ran(ran) : z = <<s[2], s[3]>>
        BY <2>1
      <4> QED BY <3>2, <4>1, <4>2
    <3> QED BY <2>4, <3>3
  <2>5. CASE l # list
    <3>1. Ran(ran') = Ran(ran)
      BY <1>1, <2>5
    <3> QED BY <2>1, <2>2, <2>5, <3>1
  <2> QED BY <2>4, <2>5
<1>5. DonePlaces' = [DonePlaces EXCEPT ![list] = @ \cup {<<i, h>>}]
  BY <1>4 DEF DonePlaces
<1> QED BY <1>2, <1>3, <1>5

\* A handler of another list changes none of the places worked at.
LEMMA LifeElsewhere ==
    ASSUME TypeOK, list \notin Forward, NEW o, NEW d,
           InvokeHandler(o, d) \/ ResumeHandler(o, d)
    PROVE  DonePlaces' = DonePlaces
<1>1. \A t \in Slots : t # <<list, i, h>> => ran'[t] = ran[t]
  BY InvokedSlot
<1>2. \A t \in Slots : t[1] \in Forward => ran'[t] = ran[t]
  BY <1>1
<1>3. ASSUME NEW l \in Forward
      PROVE  {t \in Slots : t[1] = l /\ ran'[t] > 0} = {t \in Slots : t[1] = l /\ ran[t] > 0}
  BY <1>2
<1> QED BY <1>3 DEF DonePlaces

\* Every step of Engine is a step of MessageLife, or changes nothing there.
LEMMA LifeStep ==
    ASSUME TypeOK, HandOverInv, ForwardInv, [Next]_vars
    PROVE  [Life!Next]_(Life!lifevars)
<1>0. /\ HandOverInv' /\ paused \in BOOLEAN /\ paused' \in BOOLEAN
      /\ (delivered' # delivered => ~paused /\ ~paused')
  BY TypeStep, HandOverStep DEF TypeOK
<1>2. ASSUME pc = "idle", pc' \notin {"idle", "closed"}, paused' => paused,
             UNCHANGED <<ran, delivered>>
      PROVE  Life!Take
  BY <1>0, <1>2, LifeQuiet DEF Life!Take, DonePlaces
<1>3. ASSUME pc \notin {"idle", "closed"}, pc' \notin {"idle", "closed"},
             DonePlaces' = DonePlaces, UNCHANGED delivered
      PROVE  Life!Hold \/ UNCHANGED Life!lifevars
  <2>1. CASE paused' = paused
    BY <1>3, <2>1 DEF Life!lifevars, DonePlaces
  <2>2. CASE paused' # paused
    <3>1. paused' = ~paused
      BY <1>0, <2>2
    <3> QED BY <1>3, <3>1 DEF Life!Hold, DonePlaces
  <2> QED BY <2>1, <2>2
<1>4. ASSUME pc \notin {"idle", "closed"}, pc' = (IF paused THEN "idle" ELSE "closed"),
             UNCHANGED <<ran, paused, delivered>>
      PROVE  Life!GiveBack
  BY <1>0, <1>4, LifeQuiet DEF Life!GiveBack, DonePlaces
<1>5. ASSUME pc \notin {"idle", "closed"}, pc' = (IF paused THEN "idle" ELSE "closed"),
             UNCHANGED <<ran, paused>>, delivered' = delivered + 1
      PROVE  Life!HandOver
  <2>1. ~paused /\ delivered = 0 /\ delivered' = 1 /\ pc' = "closed"
    BY <1>0, <1>5 DEF HandOverInv
  <2> QED BY <1>5, <2>1, LifeQuiet DEF Life!HandOver, DonePlaces
<1>6. ASSUME NEW o, NEW d, InvokeHandler(o, d) \/ ResumeHandler(o, d)
      PROVE  Life!Work \/ Life!Hold \/ UNCHANGED Life!lifevars
  <2>1. /\ pc \notin {"idle", "closed"} /\ pc' \notin {"idle", "closed"} /\ UNCHANGED delivered
        /\ (paused => paused')
    BY <1>6 DEF InvokeHandler, ResumeHandler, PhaseFailed, Invoke, unmoved
  <2>2. CASE list \in Forward
    <3>1. /\ <<i, h>> \in PlacesOf[list]
          /\ \A t \in DonePlaces[list] : Life!Beyond(<<i, h>>, t)
          /\ DonePlaces' = [DonePlaces EXCEPT ![list] = @ \cup {<<i, h>>}]
      BY <1>6, <2>2, LifeWork
    <3>2. list \in DOMAIN PlacesOf
      BY <2>2 DEF PlacesOf
    <3>3. paused' \in {paused, TRUE}
      BY <1>0, <2>1
    <3>4. \E l \in DOMAIN PlacesOf : \E s \in PlacesOf[l] :
              /\ \A t \in DonePlaces[l] : Life!Beyond(s, t)
              /\ DonePlaces' = [DonePlaces EXCEPT ![l] = @ \cup {s}]
      BY <3>1, <3>2
    <3> QED BY <2>1, <3>3, <3>4 DEF Life!Work, PlacesOf, DonePlaces
  <2>3. CASE list \notin Forward
    BY <1>3, <1>6, <2>1, <2>3, LifeElsewhere
  <2> QED BY <2>2, <2>3
<1>7. CASE UNCHANGED vars
  <2>1. UNCHANGED <<pc, ran, paused, delivered>>
    BY <1>7 DEF vars, ctx, history
  <2> QED BY <2>1, LifeQuiet DEF Life!lifevars, DonePlaces
<1>8. CASE Call \/ ResumeCall
  <2>1. /\ pc = "idle" /\ pc' \notin {"idle", "closed"} /\ (paused' => paused)
        /\ UNCHANGED <<ran, delivered>>
    BY <1>8 DEF Call, ResumeCall, Enter, StartList, history
  <2> QED BY <1>2, <2>1 DEF Life!Next
<1>9. CASE PhasesEnd \/ PhaseInvoke \/ PhaseMatch \/ PhaseSkip \/ PhaseLeave
  <2>1. /\ pc \notin {"idle", "closed"} /\ pc' \notin {"idle", "closed"}
        /\ UNCHANGED <<ran, delivered>>
    BY <1>9 DEF PhasesEnd, PhaseInvoke, PhaseMatch, PhaseSkip, PhaseLeave, unmoved, history
  <2> QED BY <1>3, <2>1, LifeQuiet DEF Life!Next
<1>10. CASE ReceiveContinue \/ ResumeReceiveContinue \/ SendContinue
            \/ SendFaultContinue \/ ResumeSendContinue \/ ReceiveFaultContinue
  <2>1. /\ pc \notin {"idle", "closed"} /\ UNCHANGED <<ran, delivered>>
        /\ \/ pc' \notin {"idle", "closed"}
           \/ pc' = (IF paused THEN "idle" ELSE "closed") /\ UNCHANGED paused
    BY <1>10 DEF ReceiveContinue, ResumeReceiveContinue, SendContinue, SendFaultContinue,
                 ResumeSendContinue, ReceiveFaultContinue, Return, Goto, Deliver, StartList,
                 ctx, history
  <2> QED BY <1>3, <1>4, <2>1, LifeQuiet DEF Life!Next
<1>11. ASSUME NEW s, ReceiverInvoke(s) \/ SenderInvoke(s)
       PROVE  Life!HandOver \/ Life!GiveBack
  <2>1. /\ pc \notin {"idle", "closed"} /\ UNCHANGED <<ran, paused>>
        /\ pc' = (IF paused THEN "idle" ELSE "closed")
        /\ delivered' = delivered \/ delivered' = delivered + 1
    BY <1>11 DEF ReceiverInvoke, SenderInvoke, Return, ctx, history
  <2> QED BY <1>4, <1>5, <2>1
<1> QED BY <1>6, <1>7, <1>8, <1>9, <1>10, <1>11 DEF Next, Step, Life!Next

\* The engine implements the life of a message, its fairness aside: a message
\* belongs to its caller or to the engine, which returns it only if it is paused,
\* hands it over at most once and never paused, and works forward through the
\* lists however often it is called.
THEOREM ImplementsLifeSafety == Spec => Life!Init /\ [][Life!Next]_(Life!lifevars)
<1> DEFINE IInv == TypeOK /\ HandOverInv /\ RouteInv /\ NameInv /\ ForwardInv
<1>1. Init => IInv /\ Life!Init
  BY TypeInit, RouteInit, NameInit, ForwardInit, LifeInit DEF Init, HandOverInv
<1>2. IInv /\ [Next]_vars => IInv'
  BY TypeStep, HandOverStep, RouteStep, NameStep, ForwardStep
<1>3. IInv /\ [Next]_vars => [Life!Next]_(Life!lifevars)
  BY LifeStep
<1> HIDE DEF IInv
<1> QED BY <1>1, <1>2, <1>3, PTL DEF Spec

=============================================================================
