---------------------------- MODULE MessageLife -----------------------------
(***************************************************************************)
(* What the engine promises to those who hand it a message: the message is *)
(* theirs until they call the engine, the engine works on it, and then it  *)
(* is over, handed over at most once, or theirs again because a handler    *)
(* paused it.  Work on a list of handlers only goes forward, from the      *)
(* first call to the last.  Module Engine implements this specification.   *)
(***************************************************************************)
EXTENDS Integers

CONSTANT Places    \* of each list, where a handler stands: phase and position

VARIABLES owner,     \* caller, engine, or over
          held,      \* paused by a handler
          done,      \* the places of each list that were worked at
          handed     \* handed to the receiver or the transport sender

lifevars == <<owner, held, done, handed>>

Init ==
    /\ owner = "caller"
    /\ held = FALSE
    /\ done = [l \in DOMAIN Places |-> {}]
    /\ handed = FALSE

Beyond(s, t) == s[1] > t[1] \/ (s[1] = t[1] /\ s[2] > t[2])

Take ==
    /\ owner = "caller"
    /\ owner' = "engine"
    /\ held' \in {held, FALSE}
    /\ UNCHANGED <<done, handed>>

\* A handler works on the message, at a place beyond all earlier ones: the one
\* that paused the message is not called again when it is resumed.
Work ==
    /\ owner = "engine"
    /\ \E l \in DOMAIN Places : \E s \in Places[l] :
           /\ \A t \in done[l] : Beyond(s, t)
           /\ done' = [done EXCEPT ![l] = @ \cup {s}]
    /\ held' \in {held, TRUE}
    /\ UNCHANGED <<owner, handed>>

\* A handler of a list that is not followed here pauses the message, or the
\* engine goes on with a paused one.
Hold ==
    /\ owner = "engine"
    /\ held' = ~held
    /\ UNCHANGED <<owner, done, handed>>

HandOver ==
    /\ owner = "engine" /\ ~held /\ ~handed
    /\ owner' = "over"
    /\ handed' = TRUE
    /\ UNCHANGED <<held, done>>

GiveBack ==
    /\ owner = "engine"
    /\ owner' = IF held THEN "caller" ELSE "over"
    /\ UNCHANGED <<held, done, handed>>

Next == Take \/ Work \/ Hold \/ HandOver \/ GiveBack

\* The engine does not keep a message for ever.
Spec == Init /\ [][Next]_lifevars /\ WF_lifevars(HandOver \/ GiveBack)
=============================================================================
