------------------------------- MODULE Approvals -------------------------------
(***************************************************************************)
(* Approval requests of a Core turn that the gateway runs for a channel or *)
(* a web client:                                                           *)
(*   - the invocation that submitted the turn reads its events, registers  *)
(*     each request with the approval coordinator, and gives up at a       *)
(*     deadline (gateway-server/src/channel/session_bridge.rs);            *)
(*   - the coordinator keeps the requests that can be answered in memory,  *)
(*     and the approvals file holds the pending ones and the audit trail   *)
(*     (security/approval_coordinator.rs, exec_approval.rs);               *)
(*   - channel replies and authenticated calls resolve a request: take it  *)
(*     from memory, submit the decision to Core, write the audit entry.    *)
(*                                                                         *)
(* All the requests of a turn carry the same Core approval id, the id of   *)
(* the turn, so Core cannot tell a late decision from one for the request  *)
(* that waits now.  Core asks for one approval at a time: exec_command and *)
(* apply_patch hold the tool lock exclusively.                             *)
(*                                                                         *)
(* The in-memory registry is locked for each access but over no await on   *)
(* the file; each access of the file is one critical section.  A failed or *)
(* interrupted write of the file (tokio::fs::write in place) leaves it     *)
(* unchanged or unreadable, and an unreadable file loads as an empty one.  *)
(*                                                                         *)
(* Left out: wrong nonces, foreign scopes and unsupported decisions, which *)
(* are refused before anything changes; approve-session and allow-rule,    *)
(* which differ from approve-once inside Core only.                        *)
(***************************************************************************)
EXTENDS Naturals, Sequences, FiniteSets

CONSTANTS MaxRequests,  \* bound: approvals a turn asks for
          Channels,     \* resolvers: text replies of a channel,
          Operators,    \* and authenticated REST or WS calls
          Decisions,    \* the decisions they may take
          MaxFaults     \* bound: failing writes and restarts

ASSUME ApprovalsAssumption ==
    /\ {MaxRequests, MaxFaults} \subseteq Nat
    /\ Channels \cap Operators = {}
    /\ Decisions \subseteq {"approve", "deny", "abort"}

Requests  == 1..MaxRequests
Resolvers == Channels \cup Operators
Gateway   == "gateway"    \* the invocation, and
Policy    == "policy"     \* a change of policy, as actors
Actors    == Resolvers \cup {Gateway, Policy}
None      == 0                          \* no request
Any       == MaxRequests + 1            \* a reply that names no request

\* How the invocation runs.  One for a channel has a person to ask, on a session
\* that outlives it or on a fork of it (cleanup_after_turn).  Those of REST, hook
\* and WS handlers are unattended: on a session that outlives them, on a temporary
\* one, or as a cancellable stream.
Modes == {"shared", "forked", "rest", "once", "stream"}
Attended   == {"shared", "forked"}
Persistent == {"shared", "rest"}

VARIABLES
    mode,
    \* Core
    asked,     \* requests asked so far
    waiting,   \* the request whose sender is in pending_approvals
    turn,      \* "running" or "over"
    loop,      \* the submission loop: "open" or "closed"
    sq,        \* its queue
    events,    \* events not yet read by the invocation; empty once it reads no more
    answered,  \* the decisions that woke a waiting request: <<request, op>>
    \* gateway
    listed,    \* what the session manager has under the id of the session: the
               \* "emitter" of the requests, "none", or one "resumed" from its rollout
    mem,       \* ApprovalCoordinator.pending
    expired,   \* requests past their TTL
    store,     \* the approvals file
    closing,   \* closing[a]: removed from mem by a, whose denial it is to store
    ipc,       \* where the invocation is
    current,   \* pending_approval, or the request that is being registered
    outcome,   \* its result: "ok", "error" or "cancelled"
    spc,       \* the invalidation of the session after a policy change
    call,      \* call[x]: where resolver x is, the request it names and then the
               \* one it took, and its decision
    submitted, \* <<request, decision>> that resolvers have submitted
    faults

coreVars     == <<asked, waiting, turn, loop, sq, events, answered>>
invVars      == <<ipc, current, outcome, spc>>
resolverVars == <<call, submitted>>
vars == <<mode, coreVars, listed, mem, expired, store, closing, invVars,
          resolverVars, faults>>

Over == [pc |-> "done", target |-> None, choice |-> "none"]

EmptyStore == [pending |-> {}, resolved |-> {}]

Init ==
    /\ mode \in Modes
    /\ asked = 0 /\ waiting = None /\ turn = "running" /\ loop = "open"
    /\ sq = <<>> /\ events = <<>> /\ answered = {}
    /\ listed = "emitter" /\ mem = {} /\ expired = {} /\ store = EmptyStore
    /\ closing = [a \in Actors |-> {}]
    /\ ipc = "loop" /\ current = None /\ outcome = "ok" /\ spc = "idle"
    /\ call = [x \in Resolvers |-> [Over EXCEPT !.pc = "idle"]]
    /\ submitted = {}
    /\ faults = 0

----------------------------------------------------------------------------
(* Core, as the gateway sees it                                             *)

Op(r, d) == [for |-> r, decision |-> d]

\* Session::submit: fails once the loop has ended.
Submit(op) == sq' = IF loop = "open" THEN Append(sq, op) ELSE sq

\* send_event: what nobody collects is left out.
Reading == ipc \in {"loop", "abort", "store", "insert"}
Emit(type, r) == events' = IF Reading THEN Append(events, [type |-> type, r |-> r])
                           ELSE events

\* request_command_approval, request_patch_approval.
Ask ==
    /\ turn = "running" /\ waiting = None /\ asked < MaxRequests
    /\ asked' = asked + 1
    /\ waiting' = asked + 1
    /\ Emit("ask", asked + 1)
    /\ UNCHANGED <<mode, turn, loop, sq, answered, listed, mem, expired, store,
                   closing, invVars, resolverVars, faults>>

\* The turn completes or fails.
EndTurn(type) ==
    /\ turn = "running" /\ waiting = None
    /\ turn' = "over"
    /\ Emit(type, None)
    /\ UNCHANGED <<mode, asked, waiting, loop, sq, answered, listed, mem, expired,
                   store, closing, invVars, resolverVars, faults>>

\* Core rejects a submission of another client of the session, with an Error event
\* that the collector takes for one of its turn.
RejectSubmission ==
    /\ mode \in Persistent /\ turn = "running" /\ Reading
    /\ ~ \E i \in DOMAIN events : events[i].type = "error"
    /\ Emit("error", None)
    /\ UNCHANGED <<mode, asked, waiting, turn, loop, sq, answered, listed, mem,
                   expired, store, closing, invVars, resolverVars, faults>>

\* Another client interrupts the session (abort_first_active_candidate).
Interrupt ==
    /\ listed = "emitter" /\ loop = "open" /\ turn = "running"
    /\ ~ \E i \in DOMAIN sq : sq[i].decision \in {"interrupt", "abort", "shutdown"}
    /\ sq' = Append(sq, Op(None, "interrupt"))
    /\ UNCHANGED <<mode, asked, waiting, turn, loop, events, answered, listed, mem,
                   expired, store, closing, invVars, resolverVars, faults>>

\* The loop takes a submission.  An abort goes to interrupt_task, other decisions
\* to notify_approval, which finds the sender by the id of the turn alone.
Receive ==
    /\ loop = "open" /\ sq # <<>>
    /\ sq' = Tail(sq)
    /\ LET op   == Head(sq)
           ends == op.decision \in {"abort", "interrupt", "shutdown"}
       IN /\ waiting' = None
          /\ turn' = IF ends THEN "over" ELSE turn
          /\ loop' = IF op.decision = "shutdown" THEN "closed" ELSE loop
          /\ answered' = IF ends \/ waiting = None THEN answered
                         ELSE answered \cup {<<waiting, op>>}
          /\ IF ends /\ turn = "running" THEN Emit("aborted", None) ELSE UNCHANGED events
    /\ UNCHANGED <<mode, asked, listed, mem, expired, store, closing, invVars,
                   resolverVars, faults>>

Expire(r) ==
    /\ r \in (mem \cup store.pending \cup {call[x].target : x \in Resolvers}) \ expired
    /\ expired' = expired \cup {r}
    /\ UNCHANGED <<mode, coreVars, listed, mem, store, closing, invVars,
                   resolverVars, faults>>

----------------------------------------------------------------------------
(* The approvals file (exec_approval.rs)                                    *)

Fails ==
    /\ faults < MaxFaults
    /\ faults' = faults + 1
    /\ store' \in {store, EmptyStore}

Saves(s) == store' = s /\ UNCHANGED faults

\* persist_resolved_approval: only a pending entry is moved to the audit trail.
Resolved(s, r, approved) ==
    IF r \in s.pending
    THEN [pending |-> s.pending \ {r}, resolved |-> s.resolved \cup {<<r, approved>>}]
    ELSE s

PersistResolved(r, approved) ==
    \/ Saves(Resolved(store, r, approved))
    \/ r \in store.pending /\ Fails

\* list_pending_approvals: what has expired is resolved as denied.
Listed(s) ==
    [pending  |-> s.pending \ expired,
     resolved |-> s.resolved \cup ((s.pending \cap expired) \X {FALSE})]

ListPendingApprovals ==
    /\ store.pending \cap expired # {}
    /\ Saves(Listed(store)) \/ Fails
    /\ UNCHANGED <<mode, coreVars, listed, mem, expired, closing, invVars, resolverVars>>

----------------------------------------------------------------------------
(* ApprovalCoordinator                                                      *)

\* remove, remove_for_core_session, prune_expired: the entries leave the registry
\* at once; persist_terminal follows for each of them.
Remove(a, R) ==
    /\ mem' = mem \ R
    /\ closing' = [closing EXCEPT ![a] = @ \cup (mem \cap R)]

PersistTerminal(a) ==
    \E r \in closing[a] :
        /\ PersistResolved(r, FALSE)
        /\ closing' = [closing EXCEPT ![a] = @ \ {r}]
        /\ UNCHANGED <<mode, coreVars, listed, mem, expired, invVars, resolverVars>>

----------------------------------------------------------------------------
(* The invocation                                                           *)

At(l) == ipc = l /\ closing[Gateway] = {}

\* Where the collector's result goes: a stream has a cleanup of its own.
Ended == IF mode = "stream" THEN "cleanup" ELSE "result"

\* The next event.  A request that is no longer in the registry was answered.
NextEvent ==
    /\ At("loop") /\ events # <<>>
    /\ LET e   == Head(events)
           old == IF current \in mem THEN current ELSE None
       IN \/ /\ e.type = "ask" /\ mode \notin Attended
             /\ Submit(Op(e.r, "deny"))
             /\ current' = old
             /\ UNCHANGED <<ipc, outcome>>
          \/ /\ e.type = "ask" /\ mode \in Attended /\ old = None
             /\ current' = e.r /\ ipc' = "store"
             /\ UNCHANGED <<sq, outcome>>
          \/ /\ e.type = "complete" /\ old = None
             /\ current' = None /\ ipc' = "forget"
             /\ UNCHANGED <<sq, outcome>>
          \/ /\ e.type = "error"
             /\ current' = None /\ ipc' = Ended /\ outcome' = "error"
             /\ UNCHANGED sq
          \/ /\ e.type = "aborted"
             /\ current' = old
             /\ UNCHANGED <<ipc, outcome, sq>>
    /\ events' = IF ipc' \in {"loop", "store"} THEN Tail(events) ELSE <<>>
    /\ UNCHANGED <<mode, asked, waiting, turn, loop, answered, listed, mem, expired, store,
                   closing, spc, resolverVars, faults>>

\* The request is given up: at the deadline, at the next request, or because the
\* turn is complete.  At the deadline nobody looks whether it was answered.
GiveUp ==
    /\ At("loop") /\ current # None
    /\ LET cause == IF events = <<>> THEN "deadline" ELSE Head(events).type
       IN /\ cause \in {"deadline", "ask", "complete"}
          /\ cause # "deadline" => current \in mem
          /\ outcome' = IF cause = "deadline" THEN "error" ELSE outcome
    /\ Remove(Gateway, {current})
    /\ ipc' = "abort"
    /\ UNCHANGED <<mode, coreVars, listed, expired, store, current, spc, resolverVars,
                   faults>>

\* abort_op, once the removal is stored.
AbortPending ==
    /\ At("abort")
    /\ Submit(Op(current, "abort"))
    /\ current' = None
    /\ ipc' = IF outcome = "error" THEN Ended ELSE "loop"
    /\ events' = IF outcome = "error" THEN <<>> ELSE events
    /\ UNCHANGED <<mode, asked, waiting, turn, loop, answered, listed, mem, expired,
                   store, closing, outcome, spc, resolverVars, faults>>

\* The deadline of an invocation that waits for no approval.
Timeout ==
    /\ At("loop") /\ events = <<>> /\ current = None
    /\ outcome' = "error" /\ ipc' = Ended
    /\ UNCHANGED <<mode, coreVars, listed, mem, expired, store, closing, current, spc,
                   resolverVars, faults>>

\* register, first half: the request is stored before it can be answered.
PersistPending ==
    /\ At("store")
    /\ \/ /\ Saves([store EXCEPT !.pending = @ \cup {current}])
          /\ ipc' = "insert"
          /\ UNCHANGED <<sq, current, outcome>>
       \/ /\ Fails
          /\ Submit(Op(current, "deny"))
          /\ current' = None /\ outcome' = "error" /\ ipc' = Ended
    /\ events' = IF ipc' # "insert" THEN <<>> ELSE events
    /\ UNCHANGED <<mode, asked, waiting, turn, loop, answered, listed, mem,
                   expired, closing, spc, resolverVars>>

\* register, second half, and the notification that sets the long deadline.
Register ==
    /\ At("insert")
    /\ mem' = mem \cup {current}
    /\ ipc' = "loop"
    /\ UNCHANGED <<mode, coreVars, listed, expired, store, closing, current, outcome,
                   spc, resolverVars, faults>>

\* The client of a stream is gone: the collector is dropped where it is, and the
\* cleanup of the stream follows.
Cancel ==
    /\ mode = "stream" /\ ipc \in {"loop", "forget"}
    /\ closing' = [closing EXCEPT ![Gateway] = {}]
    /\ current' = None /\ outcome' = "cancelled" /\ ipc' = Ended
    /\ events' = <<>>
    /\ UNCHANGED <<mode, asked, waiting, turn, loop, sq, answered, listed, mem, expired,
                   store, spc, resolverVars, faults>>

\* The client of another unattended call disconnects: the handler is dropped with
\* the invocation it awaits, and no cleanup follows.
DropInvocation ==
    /\ mode \in {"rest", "once"} /\ ipc # "over"
    /\ closing' = [closing EXCEPT ![Gateway] = {}]
    /\ current' = None /\ outcome' = "cancelled" /\ ipc' = "over"
    /\ events' = <<>>
    /\ UNCHANGED <<mode, asked, waiting, turn, loop, sq, answered, listed, mem, expired,
                   store, spc, resolverVars, faults>>

\* remove_invocation_approvals, with the ids of the requests it registered.
\* Mutant: they are left in the registry.
ForgetNothing == UNCHANGED <<mem, closing>>
RemoveInvocationApprovals == Remove(Gateway, Requests)

\* Mutant: the Core session is left running.
NoShutdown == UNCHANGED sq
Shutdown == Submit(Op(None, "shutdown"))

\* After TurnComplete.
Finish ==
    /\ At("forget")
    /\ RemoveInvocationApprovals
    /\ ipc' = Ended
    /\ UNCHANGED <<mode, coreVars, listed, expired, store, current, outcome, spc,
                   resolverVars, faults>>

\* The cleanup of run_cancellable, whatever the outcome.
StreamCleanup ==
    /\ At("cleanup")
    /\ Remove(Gateway, mem)
    /\ Shutdown
    /\ ipc' = "unlist"
    /\ UNCHANGED <<mode, asked, waiting, turn, loop, events, answered, listed, expired,
                   store, current, outcome, spc, resolverVars, faults>>

\* An error: interrupt_turn, and the approvals of the invocation are removed.
CleanUpError ==
    /\ At("result")
    /\ IF outcome = "error"
       THEN Submit(Op(None, "interrupt")) /\ RemoveInvocationApprovals
       ELSE UNCHANGED <<sq, mem, closing>>
    /\ ipc' = IF mode \in Persistent THEN "over" ELSE "shutdown"
    /\ UNCHANGED <<mode, asked, waiting, turn, loop, events, answered, listed, expired,
                   store, current, outcome, spc, resolverVars, faults>>

\* cleanup_after_turn.
CleanUpSession ==
    /\ At("shutdown")
    /\ Shutdown
    /\ ipc' = "leave"
    /\ UNCHANGED <<mode, asked, waiting, turn, loop, events, answered, listed, mem,
                   expired, store, closing, current, outcome, spc, resolverVars, faults>>

\* remove_session, in the cleanup of a stream and in that of a temporary session,
\* of whatever has the id.  A stream that was cancelled, if only by now, returns.
RemoveSession ==
    /\ \/ /\ At("unlist")
          /\ ipc' \in IF outcome = "cancelled" THEN {"over"} ELSE {"result", "over"}
       \/ /\ At("leave")
          /\ ipc' = "over"
    /\ listed' = "none"
    /\ UNCHANGED <<mode, coreVars, mem, expired, store, closing, current, outcome, spc,
                   resolverVars, faults>>

InvocationStep ==
    \/ NextEvent \/ PersistPending \/ Register \/ GiveUp \/ AbortPending \/ Timeout
    \/ Finish \/ StreamCleanup \/ CleanUpError \/ CleanUpSession
    \/ RemoveSession \/ PersistTerminal(Gateway)

\* invalidate_logical_session_security: the policy of the logical session changes,
\* or a later invocation brings a developer context of its own; the Core session is
\* dropped from the session manager, and its invocation goes on with it.
Invalidate ==
    /\ listed # "none" /\ spc = "idle"
    /\ Remove(Policy, mem)
    /\ spc' = "removing"
    /\ UNCHANGED <<mode, coreVars, listed, expired, store, ipc, current, outcome,
                   resolverVars, faults>>

InvalidateSession ==
    /\ spc = "removing" /\ closing[Policy] = {}
    /\ listed' = "none"
    /\ spc' = "done"
    /\ UNCHANGED <<mode, coreVars, mem, expired, store, closing, ipc, current, outcome,
                   resolverVars, faults>>

\* The next invocation of the logical session resumes its rollout: a new Core
\* session under the same SessionId, whose turn ids start at 0 again.  What it asks
\* itself, and what it makes of a stray decision, is left out.
ResumeSession ==
    /\ listed = "none"
    /\ listed' = "resumed"
    /\ UNCHANGED <<mode, coreVars, mem, expired, store, closing, invVars, resolverVars,
                   faults>>

----------------------------------------------------------------------------
(* resolve_channel_approval_reply and resolve_authenticated_approval        *)

\* Resolver x goes on; what it knows is forgotten when it is over.
Step(x, from, to, r) ==
    /\ call[x].pc = from /\ closing[x] = {}
    /\ call' = [call EXCEPT ![x] = IF to = "done" THEN Over
                                   ELSE [@ EXCEPT !.pc = to, !.target = r]]

Target(x)   == call[x].target
Approves(x) == call[x].choice = "approve"

\* A text reply names a request or none; a call names one that is stored, whose
\* nonce it has read.  Both prune what has expired first.
Reply(x, r, d) ==
    /\ call[x].pc = "idle"
    /\ IF r = Any THEN x \in Channels /\ mem # {} ELSE r \in store.pending
    /\ call' = [call EXCEPT ![x] = [pc |-> "take", target |-> r, choice |-> d]]
    /\ Remove(x, expired)
    /\ UNCHANGED <<mode, coreVars, listed, expired, store, invVars, submitted, faults>>

\* take_for_reply, take_authenticated: the request leaves the registry.  A reply
\* without an id takes the only request there is.
Take(x) ==
    \E r \in mem :
        /\ Target(x) = r \/ (Target(x) = Any /\ mem = {r})
        /\ Step(x, "take", "deliver", r)
        /\ mem' = mem \ {r}
        /\ UNCHANGED <<mode, coreVars, listed, expired, store, closing, invVars,
                       submitted, faults>>

\* NoMatch, Ambiguous and NotCoordinated.
TakeNothing(x) ==
    /\ Target(x) \notin mem
    /\ Target(x) = Any => Cardinality(mem) # 1
    /\ Step(x, "take", IF x \in Channels THEN "done" ELSE "find", Target(x))
    /\ UNCHANGED <<mode, coreVars, listed, mem, expired, store, closing, invVars,
                   submitted, faults>>

\* get_session and submit.
Deliver(x) ==
    /\ listed = "emitter" /\ loop = "open"
    /\ Step(x, "deliver", "audit", Target(x))
    /\ Submit(Op(Target(x), call[x].choice))
    /\ submitted' = submitted \cup {<<Target(x), call[x].choice>>}
    /\ UNCHANGED <<mode, asked, waiting, turn, loop, events, answered, listed, mem,
                   expired, store, closing, invVars, faults>>

\* get_session finds the session that was resumed, and submits to that one.
DeliverStray(x) ==
    /\ listed = "resumed"
    /\ Step(x, "deliver", "audit", Target(x))
    /\ submitted' = submitted \cup {<<Target(x), call[x].choice>>}
    /\ UNCHANGED <<mode, coreVars, listed, mem, expired, store, closing, invVars, faults>>

\* No session has the id, or its loop has ended: restore, unless the request has
\* expired.
DeliverFails(x) ==
    /\ ~(listed = "emitter" /\ loop = "open")
    /\ Step(x, "deliver", "done", None)
    /\ mem' = mem \cup ({Target(x)} \ expired)
    /\ UNCHANGED <<mode, coreVars, listed, expired, store, closing, invVars, submitted,
                   faults>>

\* The audit entry.  A failure is logged, and the request stays out of the registry.
\* Mutant: it is put back, to be answered again.
AuditRestores(x) ==
    /\ Step(x, "audit", "done", None)
    /\ \/ Saves(Resolved(store, Target(x), Approves(x))) /\ UNCHANGED mem
       \/ Fails /\ mem' = mem \cup ({Target(x)} \ expired)
    /\ UNCHANGED <<mode, coreVars, listed, expired, closing, invVars, submitted>>
Audit(x) ==
    /\ Step(x, "audit", "done", None)
    /\ PersistResolved(Target(x), Approves(x))
    /\ UNCHANGED <<mode, coreVars, listed, mem, expired, closing, invVars, submitted>>

\* approval_resolve_handler for a request the coordinator does not hold: one that
\* it owns is refused as a conflict, any other goes down the durable-only path.
\* Mutant: the owner is not looked at.
FindAnyPending(x) ==
    /\ Step(x, "find", "legacy", Target(x))
    /\ UNCHANGED <<mode, coreVars, listed, mem, expired, store, closing, invVars,
                   submitted, faults>>
FindPending(x) ==
    /\ \/ /\ Saves(Listed(store))
          /\ Step(x, "find", IF Target(x) \in Listed(store).pending
                             THEN "done" ELSE "legacy", Target(x))
       \/ /\ store.pending \cap expired # {} /\ Fails
          /\ Step(x, "find", "done", None)
    /\ UNCHANGED <<mode, coreVars, listed, mem, expired, closing, invVars, submitted>>

ResolveLegacy(x) ==
    /\ Step(x, "legacy", "done", None)
    /\ PersistResolved(Target(x), Approves(x))
    /\ UNCHANGED <<mode, coreVars, listed, mem, expired, closing, invVars, submitted>>

\* The connection of a call is lost, and its handler dropped where it is; without
\* a request in its hands that changes nothing.
Disconnect(x) ==
    /\ x \in Operators
    /\ call[x].pc \in {"deliver", "audit"} \/ closing[x] # {}
    /\ call' = [call EXCEPT ![x] = Over]
    /\ closing' = [closing EXCEPT ![x] = {}]
    /\ UNCHANGED <<mode, coreVars, listed, mem, expired, store, invVars, submitted, faults>>

Resolve(x) ==
    \/ Take(x) \/ TakeNothing(x) \/ Deliver(x) \/ DeliverStray(x) \/ DeliverFails(x)
    \/ Audit(x) \/ FindPending(x) \/ ResolveLegacy(x) \/ PersistTerminal(x)

\* The gateway restarts, with Core inside: only the file is left, unreadable if it
\* was being written.
Writing ==
    \/ \E a \in Actors : closing[a] # {}
    \/ ipc = "store"
    \/ \E x \in Resolvers : call[x].pc \in {"audit", "find", "legacy"}

Crash ==
    /\ faults < MaxFaults
    /\ faults' = faults + 1
    /\ store' \in IF Writing THEN {store, EmptyStore} ELSE {store}
    /\ ipc' = "over" /\ current' = None /\ spc' = "done" /\ listed' = "none"
    /\ turn' = "over" /\ waiting' = None /\ loop' = "closed"
    /\ sq' = <<>> /\ events' = <<>> /\ mem' = {}
    /\ closing' = [a \in Actors |-> {}]
    /\ call' = [x \in Resolvers |-> IF call[x].pc = "idle" THEN call[x] ELSE Over]
    /\ UNCHANGED <<mode, asked, answered, expired, outcome, submitted>>

----------------------------------------------------------------------------
CoreStep ==
    \/ Ask \/ RejectSubmission \/ Receive
    \/ \E type \in {"complete", "error"} : EndTurn(type)

Next ==
    \/ CoreStep \/ Interrupt
    \/ InvocationStep \/ Cancel \/ DropInvocation
    \/ Invalidate \/ InvalidateSession \/ ResumeSession \/ PersistTerminal(Policy)
    \/ \E x \in Resolvers : \/ Resolve(x) \/ Disconnect(x)
                            \/ \E r \in Requests \cup {Any}, d \in Decisions : Reply(x, r, d)
    \/ \E r \in Requests : Expire(r)
    \/ ListPendingApprovals
    \/ Crash

\* The collector and the submission loop are scheduled, and a deadline passes.
Spec == Init /\ [][Next]_vars /\ WF_vars(InvocationStep) /\ WF_vars(Receive)

----------------------------------------------------------------------------
(* Properties                                                               *)

TypeOK ==
    /\ mode \in Modes
    /\ asked \in 0..MaxRequests /\ waiting \in {None} \cup Requests
    /\ turn \in {"running", "over"} /\ loop \in {"open", "closed"}
    /\ listed \in {"emitter", "none", "resumed"}
    /\ mem \subseteq Requests /\ expired \subseteq Requests
    /\ store \in [pending : SUBSET Requests, resolved : SUBSET (Requests \X BOOLEAN)]
    /\ closing \in [Actors -> SUBSET Requests]
    /\ current \in {None} \cup Requests
    /\ \A x \in Resolvers : Target(x) \in Requests \cup {None, Any}
    /\ submitted \subseteq Requests \X Decisions
    /\ faults \in 0..MaxFaults

\* A decision that the emitter applies to the request it waits on was taken for that
\* very request, although its id names only the turn: a decision is submitted at most
\* once for each request (the comment "Never restore the active request here").
AnswersItsOwn == \A a \in answered : a[2].for = a[1]

\* The audit trail is true: what it calls approved was approved and submitted to a
\* Core session, and what it calls denied was not, unless the request had expired in
\* between.  Which session took the decision is not part of it (DeliveredToEmitter).
AuditTruthful ==
    \A e \in store.resolved :
        IF e[2] THEN <<e[1], "approve">> \in submitted
                ELSE <<e[1], "approve">> \in submitted => e[1] \in expired

\* A request that is in the registry after its invocation, put back by a resolver
\* that held it meanwhile, can no longer be delivered to the session that emitted
\* it, where its id would name whatever the turn asks next: that session is gone
\* from the session manager.  One resumed under its id may be there.
LeftoversMissSession == ipc = "over" /\ mem # {} => listed # "emitter"

\* "Resolve a text reply and deliver it to the exact Core session that emitted the
\* request" (resolve_channel_approval_reply): a decision that is submitted and goes
\* on to its audit entry is in the queue of that session.
DeliveredToEmitter ==
    [][\A x \in Resolvers :
          call[x].pc = "deliver" /\ call'[x].pc = "audit"
              => sq' = Append(sq, Op(Target(x), call[x].choice))]_vars

\* The handler of the invocation was dropped with it.
Dropped == outcome = "cancelled" /\ mode # "stream"

\* A Core turn does not wait for an approval for ever (between two requests of a
\* turn nobody waits): it is answered, or the invocation aborts it, also when the
\* client of a stream, a resolver or the file fails, the session is invalidated or
\* resumed, or the decision went elsewhere.  The exception is the unattended call
\* whose client disconnects before the request is denied: nobody is left to deny it.
WaitEnds == []<>(waiting = None \/ Dropped)
=============================================================================
