-------------------------------- MODULE Phase --------------------------------
(***************************************************************************)
(* How a phase keeps its handlers in order: the building half of           *)
(* src/core/engine/phase.c.  The module is a library of operators on a     *)
(* phase record; PhaseBuild and PhaseResolver drive it.                    *)
(*                                                                         *)
(* A handler description is its name with the rules of its <order> element *)
(* (phase_rule.c).  Handlers are identified by name, as the code compares  *)
(* them.  Lists are indexed from 1 here and from 0 in the code.            *)
(***************************************************************************)
EXTENDS Integers, Sequences, SequencesExt

CONSTANT Names  \* handler names

\* No handler, and no name in a rule.
NULL == "NULL"

ASSUME NamesAssumption == NULL \notin Names

\* The phase rules of a handler: before, after, phaseFirst and phaseLast.
PhaseRule == [before : Names \cup {NULL}, after : Names \cup {NULL},
              first : BOOLEAN, last : BOOLEAN]

\* first_handler_set and last_handler_set hold exactly when the pointer is set.
PhaseState == [handlers : Seq(Names),
               first_handler : Names \cup {NULL},
               last_handler : Names \cup {NULL},
               is_one_handler : BOOLEAN]

EmptyPhase == [handlers |-> <<>>, first_handler |-> NULL,
               last_handler |-> NULL, is_one_handler |-> FALSE]

\* The handlers in the order axis2_phase_invoke calls them.
Chain(P) == (IF P.first_handler = NULL THEN <<>> ELSE <<P.first_handler>>)
            \o P.handlers
            \o (IF P.last_handler = NULL THEN <<>> ELSE <<P.last_handler>>)

InPhase(P, n) == \/ Contains(P.handlers, n)
                 \/ n # NULL /\ n \in {P.first_handler, P.last_handler}

\* What an operation returns: the phase it leaves and its status.
Done(P) == [phase |-> P, status |-> "SUCCESS"]
Refused(P) == [phase |-> P, status |-> "FAILURE"]
WithList(P, l) == Done([P EXCEPT !.handlers = l])

FirstIndex(l, n) == SelectInSeq(l, LAMBDA e : e = n)
LastIndexUpTo(l, n, k) == SelectLastInSeq(SubSeq(l, 1, k), LAMBDA e : e = n)
-----------------------------------------------------------------------------
(* axis2_phase_add_unique: success is reported even when a handler of that  *)
(* name is there already and nothing is added.                              *)
AddUnique(l, n) == IF Contains(l, n) THEN l ELSE Append(l, n)

(* axis2_phase_remove_unique: the first match only.                         *)
RemoveUnique(l, n) == RemoveFirst(l, n)

\* Mutant: the tail is shifted from one element too early.
AddAt_ShiftOffByOne(l, k, n) == SubSeq(l, 1, k) \o <<n>> \o SubSeq(l, k, Len(l))

(* axutil_array_list_add_at, which does not look for duplicates.            *)
AddAt(l, k, n) == InsertAt(l, k, n)
-----------------------------------------------------------------------------
(* _axis2_phase_get_before_after.  A handler whose before and after are the *)
(* same gets AXIS2_FAILURE, which is the value of                           *)
(* AXIS2_PHASE_BOTH_BEFORE_AFTER, so the caller goes on.                    *)
BeforeAfter(r) == CASE r.before # NULL /\ r.after # NULL -> "BOTH"
                    [] r.before # NULL /\ r.after = NULL -> "BEFORE"
                    [] r.before = NULL /\ r.after # NULL -> "AFTER"
                    [] OTHER -> "ANYWHERE"

(* axis2_phase_set_first_handler                                            *)
SetFirstHandler(P, n, r) ==
    IF P.first_handler # NULL \/ BeforeAfter(r) # "ANYWHERE"
    THEN Refused(P)
    ELSE Done([P EXCEPT !.first_handler = n])

(* axis2_phase_set_last_handler                                             *)
SetLastHandler(P, n, r) ==
    IF P.last_handler # NULL \/ BeforeAfter(r) # "ANYWHERE"
    THEN Refused(P)
    ELSE Done([P EXCEPT !.last_handler = n])

(* _axis2_phase_is_valid_before: nothing goes before the first handler.     *)
IsValidBefore(P, r) == r.before = NULL \/ r.before # P.first_handler

(* _axis2_phase_is_valid_after: nothing goes after the last handler.        *)
IsValidAfter(P, r) == r.after = NULL \/ r.after # P.last_handler
-----------------------------------------------------------------------------
\* Mutant: the handler goes behind the one it must precede.
InsertBefore_OffByOne(P, n, r) ==
    LET l == P.handlers
    IN  IF r.before # P.last_handler /\ Contains(l, r.before)
        THEN AddAt(l, FirstIndex(l, r.before) + 1, n)
        ELSE AddUnique(l, n)

(* axis2_phase_insert_before                                                *)
InsertBefore(P, n, r) ==
    LET l == P.handlers
    IN  IF r.before # P.last_handler /\ Contains(l, r.before)
        THEN AddAt(l, FirstIndex(l, r.before), n)
        ELSE AddUnique(l, n)

(* axis2_phase_insert_after                                                 *)
InsertAfter(P, n, r) ==
    LET l == P.handlers
        k == FirstIndex(l, r.after)
    IN  CASE r.after = P.first_handler -> AddAt(l, 1, n)
          [] r.after # P.first_handler /\ k > 0 /\ k < Len(l) ->
                AddAt(l, k + 1, n)
          [] r.after # P.first_handler /\ k = 0 /\ Len(l) > 0 ->
                AddAt(l, 1, n)
          [] OTHER -> AddUnique(l, n)

(* axis2_phase_insert_before_and_after: the scan stops where both names     *)
(* have been seen, with the last index of each seen so far.  Its special    *)
(* cases compare `before' with the first handler and `after' with the last  *)
(* one; IsValidBefore and IsValidAfter have refused exactly those rules, so *)
(* a handler that goes after the first handler, or before the last one, is  *)
(* simply appended.                                                         *)
InsertBeforeAndAfter(P, n, r) ==
    LET l == P.handlers
        stop == Max({FirstIndex(l, r.before), FirstIndex(l, r.after)})
        before == LastIndexUpTo(l, r.before, stop)
        after == LastIndexUpTo(l, r.after, stop)
    IN  IF ~Contains(l, r.before) \/ ~Contains(l, r.after)
        THEN WithList(P, AddUnique(l, n))
        ELSE CASE after > before -> Refused(P)
               [] after <= before /\ after < Len(l) ->
                     WithList(P, AddAt(l, after + 1, n))
               [] OTHER -> WithList(P, AddUnique(l, n))

(* axis2_phase_insert_handler_desc                                          *)
InsertHandlerDesc(P, n, r) ==
    IF ~IsValidAfter(P, r) \/ ~IsValidBefore(P, r)
    THEN Refused(P)
    ELSE CASE BeforeAfter(r) = "BOTH" -> InsertBeforeAndAfter(P, n, r)
           [] BeforeAfter(r) = "BEFORE" -> WithList(P, InsertBefore(P, n, r))
           [] BeforeAfter(r) = "AFTER" -> WithList(P, InsertAfter(P, n, r))
           [] BeforeAfter(r) = "ANYWHERE" ->
                 WithList(P, AddUnique(P.handlers, n))

(* axis2_phase_add_handler_desc                                             *)
AddHandlerDesc(P, n, r) ==
    CASE P.is_one_handler -> Refused(P)
      [] ~P.is_one_handler /\ r.first /\ r.last ->
            IF Len(P.handlers) > 0
            THEN Refused(P)
            ELSE Done([P EXCEPT !.handlers = AddUnique(P.handlers, n),
                                !.is_one_handler = TRUE])
      [] ~P.is_one_handler /\ r.first /\ ~r.last -> SetFirstHandler(P, n, r)
      [] ~P.is_one_handler /\ ~r.first /\ r.last -> SetLastHandler(P, n, r)
      [] OTHER -> InsertHandlerDesc(P, n, r)

(* axis2_phase_remove_handler_desc: only the list is searched, so a first   *)
(* or last handler stays.                                                   *)
RemoveHandlerDesc(P, n) == WithList(P, RemoveUnique(P.handlers, n))
=============================================================================
