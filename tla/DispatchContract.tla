--------------------------- MODULE DispatchContract ---------------------------
(***************************************************************************)
(* What the channel execution coordinator promises, with no actor, channel *)
(* or permit in it: one queue for each session, that outlives its actors.  *)
(* A task that was accepted is taken from its queue only to be executed,   *)
(* once, when it is the oldest one of its session and the budgets of the   *)
(* session and of the gateway have room.                                   *)
(***************************************************************************)
EXTENDS Naturals, Sequences, FiniteSets

CONSTANTS Tasks, Keys, Accepted, Executions, SessionExecutions

VARIABLES key,     \* key[t]: the session of task t
          stage,   \* stage[t]: "upstream", "waiting", "running" or "done"
          backlog  \* backlog[k]: tasks of session k that wait, oldest first

vars == <<key, stage, backlog>>

Init ==
    /\ key \in [Tasks -> Keys]
    /\ stage = [t \in Tasks |-> "upstream"]
    /\ backlog = [k \in Keys |-> <<>>]

At(S) == {t \in Tasks : stage[t] \in S}

Accept(t) ==
    /\ stage[t] = "upstream"
    /\ Cardinality(At({"waiting", "running"})) < Accepted
    /\ stage' = [stage EXCEPT ![t] = "waiting"]
    /\ backlog' = [backlog EXCEPT ![key[t]] = Append(@, t)]
    /\ UNCHANGED key

Start(k) ==
    /\ backlog[k] # <<>>
    /\ stage[Head(backlog[k])] = "waiting"
    /\ Cardinality(At({"running"})) < Executions
    /\ Cardinality({t \in At({"running"}) : key[t] = k}) < SessionExecutions
    /\ stage' = [stage EXCEPT ![Head(backlog[k])] = "running"]
    /\ backlog' = [backlog EXCEPT ![k] = Tail(@)]
    /\ UNCHANGED key

End(t) ==
    /\ stage[t] = "running"
    /\ stage' = [stage EXCEPT ![t] = "done"]
    /\ UNCHANGED <<key, backlog>>

Next ==
    \/ \E t \in Tasks : Accept(t) \/ End(t)
    \/ \E k \in Keys : Start(k)

Spec == Init /\ [][Next]_vars
=============================================================================
