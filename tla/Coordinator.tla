------------------------------ MODULE Coordinator ------------------------------
(***************************************************************************)
(* The channel execution coordinator of the gateway                        *)
(* (gateway-server/src/channels/runtime/coordinator.rs): inbound tasks are *)
(* admitted against a global budget and queued in the inbox of an actor of *)
(* their session; the actor starts at most SessionExecutions of them at a  *)
(* time, each with a permit of the global execution budget, and retires    *)
(* when it has nothing to do.                                              *)
(*                                                                         *)
(* The registry lock is held over no await, so what is done under it is    *)
(* one step.  An actor is named by the task it was spawned with.  Waiters  *)
(* for an execution permit are served first come, first served, as Tokio's *)
(* semaphore does.  A refused task goes back to its upstream inbox, which  *)
(* may dispatch it again.                                                  *)
(*                                                                         *)
(* Left out: the Closed branches of dispatch and run.  An actor's channel  *)
(* is closed only by retire_if_idle, which removes it from the registry    *)
(* under the same lock, and the actor itself holds a sender.               *)
(***************************************************************************)
EXTENDS Naturals, Sequences, FiniteSets

CONSTANTS Tasks,              \* inbound tasks
          Keys,               \* session keys
          Accepted,           \* MAX_ACCEPTED_TASKS, also max_actors
          Executions,         \* MAX_GATEWAY_EXECUTIONS
          SessionExecutions,  \* MAX_SESSION_EXECUTIONS
          Capacity,           \* SESSION_QUEUE_CAPACITY
          None                \* no actor, no task

ASSUME CoordinatorAssumption ==
    /\ {Accepted, Executions, SessionExecutions, Capacity} \subseteq Nat \ {0}
    /\ IsFiniteSet(Tasks) /\ IsFiniteSet(Keys)
    /\ None \notin Tasks

VARIABLES
    key,       \* key[t]: the session of task t
    pc,        \* where task t is
    inboxes,   \* inboxes[k]: the actor registered for session k
    apc,       \* where actor a is in run()
    queue,     \* queue[a]: its channel
    held,      \* held[a]: the task it waits to execute
    running,   \* running[a]: its JoinSet, with the executions not yet joined
    waiters,   \* actors waiting for an execution permit, oldest first
    admission, \* permits left
    execution, \* permits left
    accepted,  \* accepted[k]: the tasks of session k in the order of acceptance,
    started    \* started[k]: and in the order in which they were started

taskVars  == <<key, pc>>
actorVars == <<apc, queue, held, running, waiters>>
permits   == <<admission, execution>>
history   == <<accepted, started>>
vars == <<taskVars, inboxes, actorVars, permits, history>>

TaskPcs  == {"idle", "admitted", "queued", "held", "running", "finished", "joined"}
ActorPcs == {"none", "loop", "recv", "acquire", "over"}

Init ==
    /\ key \in [Tasks -> Keys]
    /\ pc = [t \in Tasks |-> "idle"]
    /\ inboxes = [k \in Keys |-> None]
    /\ apc = [a \in Tasks |-> "none"]
    /\ queue = [a \in Tasks |-> <<>>]
    /\ held = [a \in Tasks |-> None]
    /\ running = [a \in Tasks |-> {}]
    /\ waiters = <<>>
    /\ admission = Accepted
    /\ execution = Executions
    /\ accepted = [k \in Keys |-> <<>>]
    /\ started = [k \in Keys |-> <<>>]

Move(t, l) == pc' = [pc EXCEPT ![t] = l]

----------------------------------------------------------------------------
(* dispatch()                                                               *)

\* try_acquire_owned on the admission budget; without a permit the task is
\* refused and nothing changes.
Admit(t) ==
    /\ pc[t] = "idle"
    /\ admission > 0
    /\ admission' = admission - 1
    /\ Move(t, "admitted")
    /\ UNCHANGED <<key, inboxes, actorVars, execution, history>>

Registered == {k \in Keys : inboxes[k] # None}

\* The session has an actor and its channel has room.
Enqueue(t) ==
    LET a == inboxes[key[t]] IN
    /\ pc[t] = "admitted"
    /\ a # None
    /\ Len(queue[a]) < Capacity
    /\ queue' = [queue EXCEPT ![a] = Append(@, t)]
    /\ accepted' = [accepted EXCEPT ![key[t]] = Append(@, t)]
    /\ Move(t, "queued")
    /\ UNCHANGED <<key, inboxes, apc, held, running, waiters, permits, started>>

\* A new actor with a channel that holds the task.
Spawn(t) ==
    /\ pc[t] = "admitted"
    /\ inboxes[key[t]] = None
    /\ Cardinality(Registered) < Accepted
    /\ inboxes' = [inboxes EXCEPT ![key[t]] = t]
    /\ apc' = [apc EXCEPT ![t] = "loop"]
    /\ queue' = [queue EXCEPT ![t] = <<t>>]
    /\ accepted' = [accepted EXCEPT ![key[t]] = Append(@, t)]
    /\ Move(t, "queued")
    /\ UNCHANGED <<key, held, running, waiters, permits, started>>

\* The channel is full, or the registry is; the admission permit is dropped.
Refuse(t) ==
    LET a == inboxes[key[t]] IN
    /\ pc[t] = "admitted"
    /\ IF a = None THEN Cardinality(Registered) >= Accepted
                   ELSE Len(queue[a]) >= Capacity
    /\ admission' = admission + 1
    /\ Move(t, "idle")
    /\ UNCHANGED <<key, inboxes, actorVars, execution, history>>

----------------------------------------------------------------------------
(* run() of an actor                                                        *)

\* Mutant: the check and the removal are not one step under the lock, so work
\* that was sent in between is dropped with the channel.
RetireBlind(a) ==
    /\ apc[a] = "loop"
    /\ running[a] = {}
    /\ apc' = [apc EXCEPT ![a] = "over"]
    /\ inboxes' = [inboxes EXCEPT ![key[a]] = None]
    /\ UNCHANGED <<taskVars, queue, held, running, waiters, permits, history>>

\* Mutant: the actor unregisters first and drains its channel afterwards.
RetireThenDrain(a) ==
    /\ apc[a] = "loop"
    /\ running[a] = {}
    /\ apc' = [apc EXCEPT ![a] = IF queue[a] # <<>> THEN "recv" ELSE "over"]
    /\ inboxes' = [inboxes EXCEPT ![key[a]] = IF @ = a THEN None ELSE @]
    /\ UNCHANGED <<taskVars, queue, held, running, waiters, permits, history>>

\* retire_if_idle: with an empty channel the actor closes it and unregisters.
RetireIfIdle(a) ==
    /\ apc[a] = "loop"
    /\ running[a] = {}
    /\ IF queue[a] # <<>>
         THEN apc' = [apc EXCEPT ![a] = "recv"] /\ UNCHANGED inboxes
         ELSE /\ apc' = [apc EXCEPT ![a] = "over"]
              /\ inboxes' = [inboxes EXCEPT ![key[a]] = IF @ = a THEN None ELSE @]
    /\ UNCHANGED <<taskVars, queue, held, running, waiters, permits, history>>

\* Mutant: the bound of the session is not looked at.
MayRecvAlways(a) == apc[a] = "recv" \/ (apc[a] = "loop" /\ running[a] # {})

\* recv(): alone after retire_if_idle, or as a branch of the select! while
\* fewer than SessionExecutions executions are not joined.
MayRecv(a) ==
    \/ apc[a] = "recv"
    \/ apc[a] = "loop" /\ running[a] # {} /\ Cardinality(running[a]) < SessionExecutions

\* The message leaves the channel and the actor asks for an execution permit.
Recv(a) ==
    LET t == Head(queue[a]) IN
    /\ MayRecv(a)
    /\ queue[a] # <<>>
    /\ queue' = [queue EXCEPT ![a] = Tail(@)]
    /\ held' = [held EXCEPT ![a] = t]
    /\ apc' = [apc EXCEPT ![a] = "acquire"]
    /\ waiters' = Append(waiters, a)
    /\ Move(t, "held")
    /\ UNCHANGED <<key, inboxes, running, permits, history>>

\* Mutant: the admission permit is kept through dequeueing only.
ExecuteReleases ==
    /\ waiters # <<>>
    /\ execution > 0
    /\ LET a == Head(waiters) t == held[a] IN
         /\ waiters' = Tail(waiters)
         /\ running' = [running EXCEPT ![a] = @ \cup {t}]
         /\ held' = [held EXCEPT ![a] = None]
         /\ apc' = [apc EXCEPT ![a] = "loop"]
         /\ started' = [started EXCEPT ![key[a]] = Append(@, t)]
         /\ Move(t, "running")
    /\ execution' = execution - 1
    /\ admission' = admission + 1
    /\ UNCHANGED <<key, inboxes, queue, accepted>>

\* acquire_owned returns to the oldest waiter, which spawns the execution.
Execute ==
    /\ waiters # <<>>
    /\ execution > 0
    /\ LET a == Head(waiters) t == held[a] IN
         /\ waiters' = Tail(waiters)
         /\ running' = [running EXCEPT ![a] = @ \cup {t}]
         /\ held' = [held EXCEPT ![a] = None]
         /\ apc' = [apc EXCEPT ![a] = "loop"]
         /\ started' = [started EXCEPT ![key[a]] = Append(@, t)]
         /\ Move(t, "running")
    /\ execution' = execution - 1
    /\ UNCHANGED <<key, inboxes, queue, admission, accepted>>

\* The execution returns or panics: both permits are dropped.
Finish(t) ==
    /\ pc[t] = "running"
    /\ Move(t, "finished")
    /\ admission' = admission + 1
    /\ execution' = execution + 1
    /\ UNCHANGED <<key, inboxes, actorVars, history>>

\* join_next() returns a finished execution.
JoinNext(a, t) ==
    /\ apc[a] = "loop"
    /\ t \in running[a]
    /\ pc[t] = "finished"
    /\ running' = [running EXCEPT ![a] = @ \ {t}]
    /\ Move(t, "joined")
    /\ UNCHANGED <<key, inboxes, apc, queue, held, waiters, permits, history>>

Dispatch(t) == Enqueue(t) \/ Spawn(t) \/ Refuse(t)

Actor(a) == RetireIfIdle(a) \/ Recv(a) \/ \E t \in Tasks : JoinNext(a, t)

Next ==
    \/ \E t \in Tasks : Admit(t) \/ Dispatch(t) \/ Finish(t)
    \/ \E a \in Tasks : Actor(a)
    \/ Execute

\* Tokio polls an actor that is woken and grants a free permit, and an execution
\* comes to an end.  Nothing is assumed of the upstream inboxes.
Fairness ==
    /\ WF_vars(\E a \in Tasks : Actor(a))
    /\ WF_vars(Execute)
    /\ WF_vars(\E t \in Tasks : Finish(t))

Spec == Init /\ [][Next]_vars /\ Fairness

----------------------------------------------------------------------------
(* Properties.                                                              *)

TypeOK ==
    /\ key \in [Tasks -> Keys]
    /\ pc \in [Tasks -> TaskPcs]
    /\ inboxes \in [Keys -> Tasks \cup {None}]
    /\ apc \in [Tasks -> ActorPcs]
    /\ queue \in [Tasks -> Seq(Tasks)]
    /\ held \in [Tasks -> Tasks \cup {None}]
    /\ running \in [Tasks -> SUBSET Tasks]
    /\ waiters \in Seq(Tasks)
    /\ admission \in 0..Accepted
    /\ execution \in 0..Executions
    /\ accepted \in [Keys -> Seq(Tasks)]
    /\ started \in [Keys -> Seq(Tasks)]

\* Executions of a session, over all the actors it has had: an actor retires
\* with no execution left, so the actor that succeeds it does not add to them
\* and the bound of run() is the bound of the session.
SessionBound ==
    \A k \in Keys :
        Cardinality({t \in Tasks : key[t] = k /\ pc[t] = "running"}) <= SessionExecutions

\* "Keep the admission slot through execution, not just through dequeueing":
\* tasks that are queued, waiting for a permit or executing, in all sessions.
AcceptedBound ==
    Cardinality({t \in Tasks : pc[t] \in {"admitted", "queued", "held", "running"}}) <= Accepted

\* The tasks of a session are started in the order in which dispatch accepted
\* them, across the retirement of its actor and its replacement by another.
StartsInOrder ==
    \A k \in Keys :
        /\ Len(started[k]) <= Len(accepted[k])
        /\ started[k] = SubSeq(accepted[k], 1, Len(started[k]))

\* "Drain accepted work instead of dropping it": what dispatch accepts is
\* started, whatever races with the retirement of its actor.
AcceptedStarts == (started # accepted) ~> (started = accepted)
----------------------------------------------------------------------------
(* The contract: DispatchContract.                                          *)

\* What the actor of session k has still to start, in its order.
Holding(a) == IF held[a] = None THEN <<>> ELSE <<held[a]>>
Backlog(k) == IF inboxes[k] = None THEN <<>> ELSE Holding(inboxes[k]) \o queue[inboxes[k]]

\* Where a task is for the gateway.
Stage(t) ==
    CASE pc[t] \in {"idle", "admitted"}   -> "upstream"
      [] pc[t] \in {"queued", "held"}     -> "waiting"
      [] pc[t] = "running"                -> "running"
      [] pc[t] \in {"finished", "joined"} -> "done"

Contract == INSTANCE DispatchContract
                WITH stage <- [t \in Tasks |-> Stage(t)], backlog <- [k \in Keys |-> Backlog(k)]

\* The actors of a session, whatever their number and however they retire and are
\* spawned, act as one queue: no step of run() or retire_if_idle loses, repeats or
\* reorders what dispatch accepted, and acceptances and starts find room in the budgets.
ImplementsDispatch == Contract!Spec
=============================================================================
