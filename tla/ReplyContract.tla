----------------------------- MODULE ReplyContract -----------------------------
(***************************************************************************)
(* What native replies promise about the messages of a stream, with no     *)
(* ledger, transaction, queue or fault in it: the messages are taken in    *)
(* their order; the model is asked at most once, and only for a mention;   *)
(* one reply is committed at most, to a message the model was asked about; *)
(* and a verdict is given once, is true, and ends what is done for the     *)
(* message: one that was settled as unknown is never replied to.           *)
(***************************************************************************)
EXTENDS Naturals, Sequences

CONSTANT MaxPos

VARIABLES stream,   \* stream[p] iff the message at p is a live mention of the Agent
          asked,    \* messages for which the model was asked
          replied,  \* messages with a reply on the Station
          verdict   \* verdict[p]: how p was settled, "none" before

vars == <<stream, asked, replied, verdict>>

Positions == 1..MaxPos

Init ==
    /\ stream = <<FALSE>>
    /\ asked = {}
    /\ replied = {}
    /\ verdict = [p \in Positions |-> "none"]

Post(mention) ==
    /\ Len(stream) < MaxPos
    /\ stream' = Append(stream, mention)
    /\ UNCHANGED <<asked, replied, verdict>>

\* p is the oldest message that is not settled.
Turn(p) ==
    /\ p <= Len(stream)
    /\ verdict[p] = "none"
    /\ \A q \in 1..(p - 1) : verdict[q] # "none"

Ask(p) ==
    /\ Turn(p)
    /\ stream[p]
    /\ p \notin asked
    /\ asked' = asked \cup {p}
    /\ UNCHANGED <<stream, replied, verdict>>

Reply(p) ==
    /\ Turn(p)
    /\ p \in asked
    /\ p \notin replied
    /\ replied' = replied \cup {p}
    /\ UNCHANGED <<stream, asked, verdict>>

\* What each verdict says.
Holds(p, v) ==
    CASE v = "skipped"    -> ~stream[p]
      [] v = "suppressed" -> stream[p] /\ p \notin asked
      [] v = "unknown"    -> stream[p] /\ p \notin replied
      [] v = "accepted"   -> p \in replied

Settle(p, v) ==
    /\ Turn(p)
    /\ Holds(p, v)
    /\ verdict' = [verdict EXCEPT ![p] = v]
    /\ UNCHANGED <<stream, asked, replied>>

Next ==
    \/ \E mention \in BOOLEAN : Post(mention)
    \/ \E p \in Positions :
          \/ Ask(p) \/ Reply(p)
          \/ \E v \in {"skipped", "suppressed", "unknown", "accepted"} : Settle(p, v)

Spec == Init /\ [][Next]_vars
=============================================================================
