----------------------------- MODULE TurnContract -----------------------------
(***************************************************************************)
(* What a session promises its clients about turns, with no task, lock,    *)
(* token or process in it: one turn is open at a time, completion and      *)
(* abortion exclude each other, a turn is aborted completely before the    *)
(* next one opens, and the answer to a targeted interrupt is the truth.    *)
(* A turn that completes has let go of the session before its terminal     *)
(* event is out ("finishing"), so the next one may open meanwhile.         *)
(***************************************************************************)
CONSTANT Turns

VARIABLES phase,   \* phase[t]: how far turn t is
          acked,   \* targeted interrupts answered true
          nacked   \* targeted interrupts answered false

vars == <<phase, acked, nacked>>

Phases == {"none", "open", "finishing", "complete", "aborting", "aborted"}

Init ==
    /\ phase = [t \in Turns |-> "none"]
    /\ acked = {}
    /\ nacked = {}

Move(t, from, to) ==
    /\ phase[t] = from
    /\ phase' = [phase EXCEPT ![t] = to]
    /\ UNCHANGED <<acked, nacked>>

\* A turn opens once, alone, and never after a client was told it is not there.
Open(t) ==
    /\ \A u \in Turns : phase[u] \notin {"open", "aborting"}
    /\ t \notin nacked
    /\ Move(t, "none", "open")

Finish(t)   == Move(t, "open", "finishing")
Complete(t) == Move(t, "finishing", "complete")
Abort(t)    == Move(t, "open", "aborting")
Aborted(t)  == Move(t, "aborting", "aborted")

AnswerTrue(t) ==
    /\ phase[t] = "aborted"
    /\ acked' = acked \cup {t}
    /\ UNCHANGED <<phase, nacked>>

AnswerFalse(t) ==
    /\ phase[t] \notin {"open", "aborting"}
    /\ nacked' = nacked \cup {t}
    /\ UNCHANGED <<phase, acked>>

Next == \E t \in Turns :
            \/ Open(t) \/ Finish(t) \/ Complete(t) \/ Abort(t) \/ Aborted(t)
            \/ AnswerTrue(t) \/ AnswerFalse(t)

Spec == Init /\ [][Next]_vars
=============================================================================
