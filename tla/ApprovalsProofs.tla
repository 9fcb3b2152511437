---------------------------- MODULE ApprovalsProofs ----------------------------
(***************************************************************************)
(* The safety properties of Approvals, proved for any number of requests,  *)
(* resolvers and faults.                                                   *)
(*                                                                         *)
(* The argument follows the right to answer a request.  It is in one place *)
(* at a time: with the event that announces the request, with the          *)
(* invocation that registers it, in the registry, or with the resolver     *)
(* that took it; a decision is submitted with it, and a denial is stored   *)
(* for a request only once nobody has it any more.  While the turn runs    *)
(* and nothing that ends it is queued, only the request that Core waits on *)
(* can be answered, and nothing is queued before it is.  A decision that   *)
(* goes to a session resumed under the same id uses the right up as well.  *)
(***************************************************************************)
EXTENDS Approvals, TLAPS

OpKinds  == {"approve", "deny", "abort", "interrupt", "shutdown"}
OpSet    == [for : {None} \cup Requests, decision : OpKinds]
EventSet == [type : {"ask", "complete", "error", "aborted"}, r : {None} \cup Requests]
CallSet  == [pc : {"idle", "take", "deliver", "audit", "find", "legacy", "done"},
             target : Requests \cup {None, Any},
             choice : Decisions \cup {"none"}]
InvPcs   == {"loop", "abort", "store", "insert", "forget", "cleanup", "unlist",
             "result", "shutdown", "leave", "over"}

\* The types, with those of the queues and of the resolvers.
Shape ==
    /\ TypeOK
    /\ sq \in Seq(OpSet)
    /\ events \in Seq(EventSet)
    /\ \A i \in DOMAIN events : events[i].type = "ask" => events[i].r \in Requests
    /\ ipc \in InvPcs
    /\ ipc \in {"store", "insert"} => current \in Requests
    /\ outcome \in {"ok", "error", "cancelled"}
    /\ call \in [Resolvers -> CallSet]
    /\ \A x \in Resolvers :
           /\ call[x].pc \notin {"idle", "done"} => call[x].choice \in Decisions
           /\ call[x].pc \in {"deliver", "audit"} => Target(x) \in Requests

----------------------------------------------------------------------------
(* Where the right to answer a request is                                   *)

AskAt  == {i \in DOMAIN events : events[i].type = "ask"}
Queued == {events[i].r : i \in AskAt}

Registering == IF ipc \in {"store", "insert"} THEN {current} ELSE {}
Coming      == IF ipc = "store" THEN Queued \cup {current} ELSE Queued

Holders == {x \in Resolvers : call[x].pc = "deliver"}
Held    == {Target(x) : x \in Holders}
Targets == {Target(x) : x \in Resolvers} \cap Requests

Answerable == Queued \cup Registering \cup mem \cup Held

\* Where it is no more: a denial is to be stored or is stored, or a decision was
\* submitted.
Closed == UNION {closing[a] : a \in Actors}
Sent   == {r \in Requests : \E d \in Decisions : <<r, d>> \in submitted}
Denied == {r \in Requests \ expired : <<r, FALSE>> \in store.resolved}

\* It is in one place only ...
OneAsk    == \A i, j \in AskAt : events[i].r = events[j].r => i = j
OneHolder == \A x, y \in Holders : Target(x) = Target(y) => x = y

PlaceInv ==
    /\ OneAsk
    /\ OneHolder
    /\ Queued \cap (Registering \cup mem \cup Held) = {}
    /\ Registering \cap (mem \cup Held) = {}
    /\ mem \cap Held = {}

\* ... and nowhere once it was used or lost.
DeadInv ==
    /\ Answerable \cap (Closed \cup Sent \cup Denied) = {}
    /\ Closed \cap Sent = {}

\* A request is new to the file and to the resolvers until it is stored, and none
\* is known before Core has asked.
FreshInv ==
    /\ Coming \cap (store.pending \cup Targets) = {}
    /\ Answerable \cup Closed \cup Sent \cup Denied \cup store.pending \cup Targets
           \subseteq 1..asked

\* What the resolvers know of the request they work on.
ResolverInv ==
    \A x \in Resolvers :
        /\ call[x].pc = "audit" => <<Target(x), call[x].choice>> \in submitted
        /\ call[x].pc = "legacy" => Target(x) \notin store.pending

\* One decision is submitted for a request.
DecisionInv == \A s, t \in submitted : s[1] = t[1] => s = t

----------------------------------------------------------------------------
(* What Core may apply to a waiting request                                 *)

Ends(op) == op.decision \in {"abort", "interrupt", "shutdown"}
Live     == turn = "running" /\ \A i \in DOMAIN sq : ~Ends(sq[i])

\* Before anything that ends the turn there is one decision in the queue at most,
\* for the request that waits.
QueueInv ==
    /\ turn = "over" => waiting = None
    /\ turn = "running" =>
           \A i \in DOMAIN sq : (\A j \in 1..i : ~Ends(sq[j])) =>
               i = 1 /\ waiting # None /\ sq[1].for = waiting

\* While nothing ends the turn, only the waiting request can be answered, and
\* nothing is queued as long as it can.
LiveInv ==
    Live => /\ Answerable \subseteq {waiting}
            /\ Answerable # {} => sq = <<>>

----------------------------------------------------------------------------
(* The end of the invocation                                                *)

\* An unattended invocation registers nothing, so nobody can take or restore.
UnaskedInv ==
    mode \notin Attended => mem = {} /\ Holders = {} /\ ipc \notin {"store", "insert"}

Lasting == mode = "shared"

\* The emitter of the requests is gone from the session manager when an invocation
\* on a fork of the session is over; one on a session that outlives it shuts that
\* down for no reason but a crash, and removes its requests before it is over.
EndInv ==
    /\ mode = "forked" /\ ipc = "over" => listed # "emitter"
    /\ Lasting =>
           /\ \A i \in DOMAIN sq : sq[i].decision # "shutdown"
           /\ loop = "closed" => listed # "emitter"
           /\ outcome # "cancelled"
           /\ ipc \notin {"cleanup", "shutdown", "unlist", "leave"}
           /\ ipc = "result" /\ outcome = "ok" /\ mem # {} => listed # "emitter"
           /\ ipc = "over" /\ mem # {} => listed # "emitter"

\* The inductive invariant.
ApprovalInv ==
    /\ Shape
    /\ PlaceInv
    /\ DeadInv
    /\ FreshInv
    /\ ResolverInv
    /\ DecisionInv
    /\ QueueInv
    /\ LiveInv
    /\ UnaskedInv
    /\ EndInv
    /\ AnswersItsOwn
    /\ AuditTruthful

----------------------------------------------------------------------------
(* Types                                                                    *)

\* The operations and events that are queued have their types.
LEMMA OpType ==
    ASSUME NEW r \in {None} \cup Requests, NEW d \in OpKinds
    PROVE  Op(r, d) \in OpSet /\ Op(r, d).for = r /\ Op(r, d).decision = d
  BY DEF Op, OpSet

\* A submission keeps the type of the queue.
LEMMA SubmitType ==
    ASSUME Shape, NEW r \in {None} \cup Requests, NEW d \in OpKinds, Submit(Op(r, d))
    PROVE  sq' \in Seq(OpSet)
<1>1. Op(r, d) \in OpSet
  BY OpType
<1>. QED
  BY <1>1 DEF Shape, Submit

\* An event that Core sends keeps the type of the events; an ask names a request.
LEMMA EmitType ==
    ASSUME Shape, NEW type \in {"ask", "complete", "error", "aborted"},
           NEW r \in {None} \cup Requests, type = "ask" => r \in Requests, Emit(type, r)
    PROVE  /\ events' \in Seq(EventSet)
           /\ \A i \in DOMAIN events' : events'[i].type = "ask" => events'[i].r \in Requests
<1>1. CASE UNCHANGED events
  BY <1>1 DEF Shape
<1>2. CASE events' = Append(events, [type |-> type, r |-> r])
  <2>. DEFINE e == [type |-> type, r |-> r]
  <2>1. e \in EventSet /\ e.type = type /\ e.r = r
    BY DEF EventSet
  <2>. HIDE DEF e
  <2>2. events \in Seq(EventSet) /\ events' = Append(events, e)
    BY <1>2 DEF Shape, e
  <2>3. events' \in Seq(EventSet) /\ Len(events') = Len(events) + 1
    BY <2>1, <2>2
  <2>4. \A i \in 1..Len(events') : events'[i] = IF i = Len(events') THEN e ELSE events[i]
    BY <2>1, <2>2
  <2>. QED
    BY <2>1, <2>2, <2>3, <2>4 DEF Shape
<1>. QED
  BY <1>1, <1>2 DEF Emit

\* The next event leaves the queue.
LEMMA TailType ==
    ASSUME Shape, events # <<>>, events' = Tail(events)
    PROVE  /\ events' \in Seq(EventSet)
           /\ \A i \in DOMAIN events' : events'[i].type = "ask" => events'[i].r \in Requests
<1>1. events \in Seq(EventSet)
  BY DEF Shape
<1>2. /\ events' \in Seq(EventSet) /\ Len(events') = Len(events) - 1 /\ Len(events) > 0
      /\ \A i \in 1..Len(events') : events'[i] = events[i + 1]
  BY <1>1
<1>3. DOMAIN events = 1..Len(events) /\ DOMAIN events' = 1..Len(events')
  BY <1>1, <1>2
<1>4. Len(events) \in Nat
  BY <1>1
<1>. QED
  BY <1>2, <1>3, <1>4 DEF Shape

\* An invocation that reads no more leaves no events.
LEMMA NoEventsType ==
    ASSUME events' = <<>>
    PROVE  events' \in Seq(EventSet) /\ DOMAIN events' = {}
  OBVIOUS

\* A resolver that goes on.
LEMMA StepFacts ==
    ASSUME Shape, NEW x \in Resolvers, NEW from, NEW to, NEW r \in Requests \cup {None, Any},
           to \in {"take", "deliver", "audit", "find", "legacy", "done"}, Step(x, from, to, r)
    PROVE  /\ call[x].pc = from /\ closing[x] = {}
           /\ call' \in [Resolvers -> CallSet]
           /\ call'[x].pc = to
           /\ to # "done" => call'[x].target = r /\ call'[x].choice = call[x].choice
           /\ to = "done" => call'[x].target = None /\ call'[x].choice = "none"
           /\ \A y \in Resolvers \ {x} : call'[y] = call[y]
<1>1. call \in [Resolvers -> CallSet]
  BY DEF Shape
<1>. DEFINE old == call[x]
<1>2. old \in CallSet
  BY <1>1
<1>3. CASE to = "done"
  <2>1. Over \in CallSet /\ Over.pc = "done" /\ Over.target = None /\ Over.choice = "none"
    BY DEF Over, CallSet
  <2>2. call' = [call EXCEPT ![x] = Over]
    BY <1>3 DEF Step
  <2>. QED
    BY <1>1, <1>3, <2>1, <2>2 DEF Step
<1>4. CASE to # "done"
  <2>1. PICK new : new = [old EXCEPT !.pc = to, !.target = r]
    OBVIOUS
  <2>2. new \in CallSet /\ new.pc = to /\ new.target = r /\ new.choice = old.choice
    BY <1>2, <2>1 DEF CallSet
  <2>3. call' = [call EXCEPT ![x] = new]
    BY <1>4, <2>1 DEF Step
  <2>. QED
    BY <1>1, <1>4, <2>2, <2>3 DEF Step
<1>. QED
  BY <1>3, <1>4

StoreSet == [pending : SUBSET Requests, resolved : SUBSET (Requests \X BOOLEAN)]

\* The approvals file after a step: nothing becomes pending, and it gains at most
\* the entry that the step stores.
LEMMA SavesResolved ==
    ASSUME Shape, NEW r, NEW b \in BOOLEAN, PersistResolved(r, b)
    PROVE  /\ store' \in StoreSet /\ faults' \in 0..MaxFaults
           /\ store'.pending \subseteq store.pending
           /\ \A e \in store'.resolved : \/ e \in store.resolved
                                         \/ e = <<r, b>> /\ r \in store.pending
<1>1. store \in StoreSet /\ faults \in 0..MaxFaults /\ MaxFaults \in Nat
  BY ApprovalsAssumption DEF Shape, TypeOK, StoreSet
<1>2. CASE Saves(Resolved(store, r, b))
  <2>1. CASE r \in store.pending
    <3>1. PICK new : new = [pending |-> store.pending \ {r},
                            resolved |-> store.resolved \cup {<<r, b>>}]
      OBVIOUS
    <3>2. /\ new \in StoreSet /\ new.pending = store.pending \ {r}
          /\ new.resolved = store.resolved \cup {<<r, b>>}
      BY <1>1, <2>1, <3>1 DEF StoreSet
    <3>3. store' = new
      BY <1>2, <2>1, <3>1 DEF Saves, Resolved
    <3>. QED
      BY <1>1, <1>2, <2>1, <3>2, <3>3 DEF Saves
  <2>2. CASE r \notin store.pending
    BY <1>1, <1>2, <2>2 DEF Saves, Resolved
  <2>. QED
    BY <2>1, <2>2
<1>3. CASE Fails
  <2>1. EmptyStore \in StoreSet /\ EmptyStore.pending = {} /\ EmptyStore.resolved = {}
    BY DEF EmptyStore, StoreSet
  <2>. QED
    BY <1>1, <1>3, <2>1 DEF Fails
<1>. QED
  BY <1>2, <1>3 DEF PersistResolved

\* list_pending_approvals adds denials of expired requests only.
LEMMA SavesListed ==
    ASSUME Shape, Saves(Listed(store)) \/ Fails
    PROVE  /\ store' \in StoreSet /\ faults' \in 0..MaxFaults
           /\ store'.pending \subseteq store.pending
           /\ Saves(Listed(store)) => store'.pending = store.pending \ expired
           /\ \A e \in store'.resolved : \/ e \in store.resolved
                                         \/ e[2] = FALSE /\ e[1] \in expired
<1>1. store \in StoreSet /\ faults \in 0..MaxFaults /\ MaxFaults \in Nat
  BY ApprovalsAssumption DEF Shape, TypeOK, StoreSet
<1>2. CASE Saves(Listed(store))
  <2>1. PICK new : new = [pending  |-> store.pending \ expired,
                          resolved |-> store.resolved \cup
                                           ((store.pending \cap expired) \X {FALSE})]
    OBVIOUS
  <2>2. /\ new \in StoreSet /\ new.pending = store.pending \ expired
        /\ new.resolved = store.resolved \cup ((store.pending \cap expired) \X {FALSE})
    BY <1>1, <2>1 DEF StoreSet
  <2>3. store' = new
    BY <1>2, <2>1 DEF Saves, Listed
  <2>4. \A e \in new.resolved : e \in store.resolved \/ (e[2] = FALSE /\ e[1] \in expired)
    BY <2>2
  <2>. QED
    BY <1>1, <1>2, <2>2, <2>3, <2>4 DEF Saves
<1>3. CASE Fails /\ ~Saves(Listed(store))
  <2>1. EmptyStore \in StoreSet /\ EmptyStore.pending = {} /\ EmptyStore.resolved = {}
    BY DEF EmptyStore, StoreSet
  <2>. QED
    BY <1>1, <1>3, <2>1 DEF Fails
<1>. QED
  BY <1>2, <1>3

\* The first half of a registration stores its request, or the write fails.
LEMMA SavesPending ==
    ASSUME Shape, NEW r \in Requests,
           Saves([store EXCEPT !.pending = @ \cup {r}]) \/ Fails
    PROVE  /\ store' \in StoreSet /\ faults' \in 0..MaxFaults
           /\ store'.pending \subseteq store.pending \cup {r}
           /\ store'.resolved \subseteq store.resolved
<1>1. store \in StoreSet /\ faults \in 0..MaxFaults /\ MaxFaults \in Nat
  BY ApprovalsAssumption DEF Shape, TypeOK, StoreSet
<1>2. CASE Saves([store EXCEPT !.pending = @ \cup {r}])
  <2>1. PICK new : new = [store EXCEPT !.pending = @ \cup {r}]
    OBVIOUS
  <2>2. /\ new \in StoreSet /\ new.pending = store.pending \cup {r}
        /\ new.resolved = store.resolved
    BY <1>1, <2>1 DEF StoreSet
  <2>. QED
    BY <1>1, <1>2, <2>1, <2>2 DEF Saves
<1>3. CASE Fails
  <2>1. EmptyStore \in StoreSet /\ EmptyStore.pending = {} /\ EmptyStore.resolved = {}
    BY DEF EmptyStore, StoreSet
  <2>. QED
    BY <1>1, <1>3, <2>1 DEF Fails
<1>. QED
  BY <1>2, <1>3

\* Requests that leave the registry are closed by whoever removed them.
LEMMA RemoveFacts ==
    ASSUME Shape, NEW a \in Actors, NEW R, Remove(a, R)
    PROVE  /\ mem' \subseteq mem /\ mem' \cap R = {} /\ mem' \subseteq Requests
           /\ closing' \in [Actors -> SUBSET Requests]
           /\ \A b \in Actors : closing'[b] \subseteq closing[b] \cup (mem \cap R)
  BY DEF Shape, TypeOK, Remove

\* The steps of Core keep the types.
LEMMA CoreShape ==
    ASSUME Shape, CoreStep \/ Interrupt \/ \E r \in Requests : Expire(r)
    PROVE  Shape'
<1>. USE DEF Shape, TypeOK, Target, invVars, resolverVars
<1>1. CASE Ask
  <2>1. asked + 1 \in Requests /\ asked + 1 \in 0..MaxRequests
    BY <1>1, ApprovalsAssumption DEF Ask, Requests
  <2>2. /\ events' \in Seq(EventSet)
        /\ \A i \in DOMAIN events' : events'[i].type = "ask" => events'[i].r \in Requests
    BY <1>1, <2>1, EmitType DEF Ask
  <2>. QED
    BY <1>1, <2>1, <2>2 DEF Ask
<1>2. ASSUME NEW type \in {"complete", "error"}, EndTurn(type) PROVE Shape'
  <2>1. /\ events' \in Seq(EventSet)
        /\ \A i \in DOMAIN events' : events'[i].type = "ask" => events'[i].r \in Requests
    BY <1>2, EmitType DEF EndTurn
  <2>. QED
    BY <1>2, <2>1 DEF EndTurn
<1>3. CASE RejectSubmission
  <2>1. /\ events' \in Seq(EventSet)
        /\ \A i \in DOMAIN events' : events'[i].type = "ask" => events'[i].r \in Requests
    BY <1>3, EmitType DEF RejectSubmission
  <2>. QED
    BY <1>3, <2>1 DEF RejectSubmission
<1>4. CASE Receive
  <2>1. sq' \in Seq(OpSet)
    BY <1>4 DEF Receive
  <2>2. /\ events' \in Seq(EventSet)
        /\ \A i \in DOMAIN events' : events'[i].type = "ask" => events'[i].r \in Requests
    BY <1>4, EmitType DEF Receive
  <2>3. waiting' = None /\ turn' \in {"running", "over"} /\ loop' \in {"open", "closed"}
    BY <1>4 DEF Receive
  <2>4. UNCHANGED <<mode, asked, listed, mem, expired, store, closing, invVars, resolverVars,
                    faults>>
    BY <1>4 DEF Receive
  <2>. QED
    BY <2>1, <2>2, <2>3, <2>4
<1>5. CASE Interrupt
  <2>1. sq' \in Seq(OpSet)
    BY <1>5, OpType DEF Interrupt, OpKinds
  <2>. QED
    BY <1>5, <2>1 DEF Interrupt
<1>6. ASSUME NEW r \in Requests, Expire(r) PROVE Shape'
  BY <1>6 DEF Expire, coreVars
<1>. QED
  BY <1>1, <1>2, <1>3, <1>4, <1>5, <1>6 DEF CoreStep

\* The steps of the invocation and of the other actors that remove requests do.
LEMMA InvocationShape ==
    ASSUME Shape, InvocationStep \/ Cancel \/ DropInvocation
    PROVE  Shape'
<1>. USE DEF Shape, TypeOK, Target, invVars, resolverVars, coreVars
<1>0. Gateway \in Actors
  BY DEF Actors
<1>1. CASE NextEvent
  <2>. DEFINE e == Head(events)
              old == IF current \in mem THEN current ELSE None
  <2>0. events # <<>> /\ e \in EventSet /\ (e.type = "ask" => e.r \in Requests)
    BY <1>1 DEF NextEvent
  <2>1. /\ events' \in Seq(EventSet)
        /\ \A i \in DOMAIN events' : events'[i].type = "ask" => events'[i].r \in Requests
    <3>1. events' = Tail(events) \/ events' = <<>>
      BY <1>1 DEF NextEvent
    <3>2. CASE events' = <<>>
      BY <3>2, NoEventsType
    <3>3. CASE events' = Tail(events)
      BY <2>0, <3>3, TailType
    <3>. QED
      BY <3>1, <3>2, <3>3
  <2>2. UNCHANGED <<mode, asked, waiting, turn, loop, answered, listed, mem, expired, store,
                    closing, spc, resolverVars, faults>>
    BY <1>1 DEF NextEvent
  <2>3. /\ sq' \in Seq(OpSet) /\ current' \in {None} \cup Requests
        /\ ipc' \in InvPcs /\ outcome' \in {"ok", "error", "cancelled"}
        /\ ipc' \in {"store", "insert"} => current' \in Requests
    <3>1. CASE /\ e.type = "ask" /\ mode \notin Attended
               /\ Submit(Op(e.r, "deny"))
               /\ current' = old /\ UNCHANGED <<ipc, outcome>>
      <4>1. ipc = "loop"
        BY <1>1 DEF NextEvent, At
      <4>2. sq' \in Seq(OpSet)
        BY <2>0, <3>1, SubmitType DEF OpKinds
      <4>. QED
        BY <3>1, <4>1, <4>2
    <3>2. CASE current' = e.r /\ e.r \in Requests /\ ipc' = "store" /\ UNCHANGED <<sq, outcome>>
      BY <3>2 DEF InvPcs
    <3>3. CASE current' = None /\ ipc' = "forget" /\ UNCHANGED <<sq, outcome>>
      BY <3>3 DEF InvPcs
    <3>4. CASE current' = None /\ ipc' = Ended /\ outcome' = "error" /\ UNCHANGED sq
      BY <3>4 DEF InvPcs, Ended
    <3>5. CASE current' = old /\ UNCHANGED <<ipc, outcome, sq>>
      BY <1>1, <3>5 DEF NextEvent, At
    <3>. QED
      BY <1>1, <2>0, <3>1, <3>2, <3>3, <3>4, <3>5 DEF NextEvent
  <2>. QED
    BY <2>1, <2>2, <2>3
<1>2. CASE GiveUp
  BY <1>0, <1>2, RemoveFacts DEF GiveUp, InvPcs
<1>3. CASE AbortPending
  <2>1. sq' \in Seq(OpSet)
    BY <1>3, SubmitType DEF AbortPending, OpKinds
  <2>2. ipc' \in {"cleanup", "result", "loop"}
    BY <1>3 DEF AbortPending, Ended
  <2>3. events' = <<>> \/ events' = events
    BY <1>3 DEF AbortPending
  <2>. QED
    BY <1>3, <2>1, <2>2, <2>3 DEF AbortPending, InvPcs
<1>4. CASE Timeout
  BY <1>4 DEF Timeout, InvPcs, Ended
<1>5. CASE PersistPending
  <2>0. current \in Requests
    BY <1>5 DEF PersistPending, At
  <2>1. store' \in StoreSet /\ faults' \in 0..MaxFaults
    BY <1>5, <2>0, SavesPending DEF PersistPending
  <2>2. sq' \in Seq(OpSet)
    BY <1>5, <2>0, SubmitType DEF PersistPending, OpKinds
  <2>3. /\ current' \in {None} \cup Requests /\ outcome' \in {"ok", "error", "cancelled"}
        /\ ipc' \in InvPcs /\ (ipc' \in {"store", "insert"} => current' \in Requests)
    BY <1>5, <2>0 DEF PersistPending, InvPcs, Ended
  <2>4. /\ events' \in Seq(EventSet)
        /\ \A i \in DOMAIN events' : events'[i].type = "ask" => events'[i].r \in Requests
    <3>1. CASE events' = <<>>
      BY <3>1, NoEventsType
    <3>2. CASE events' = events
      BY <3>2
    <3>. QED
      BY <1>5, <3>1, <3>2 DEF PersistPending
  <2>5. UNCHANGED <<mode, asked, waiting, turn, loop, answered, listed, mem, expired,
                    closing, spc, resolverVars>>
    BY <1>5 DEF PersistPending
  <2>. QED
    BY <2>1, <2>2, <2>3, <2>4, <2>5 DEF StoreSet
<1>6. CASE Register
  BY <1>6 DEF Register, At, InvPcs
<1>7. CASE Finish
  BY <1>0, <1>7, RemoveFacts DEF Finish, RemoveInvocationApprovals, InvPcs, Ended
<1>8. CASE StreamCleanup
  <2>1. sq' \in Seq(OpSet)
    BY <1>8, SubmitType DEF StreamCleanup, Shutdown, OpKinds
  <2>. QED
    BY <1>0, <1>8, <2>1, RemoveFacts DEF StreamCleanup, InvPcs
<1>9. CASE CleanUpError
  <2>1. sq' \in Seq(OpSet)
    BY <1>9, SubmitType DEF CleanUpError, OpKinds
  <2>2. mem' \subseteq Requests /\ closing' \in [Actors -> SUBSET Requests]
    BY <1>0, <1>9, RemoveFacts DEF CleanUpError, RemoveInvocationApprovals
  <2>3. ipc' \in {"shutdown", "over"}
    BY <1>9 DEF CleanUpError
  <2>. QED
    BY <1>9, <2>1, <2>2, <2>3 DEF CleanUpError, InvPcs
<1>10. CASE CleanUpSession
  <2>1. sq' \in Seq(OpSet)
    BY <1>10, SubmitType DEF CleanUpSession, Shutdown, OpKinds
  <2>. QED
    BY <1>10, <2>1 DEF CleanUpSession, InvPcs
<1>11. CASE RemoveSession
  <2>1. ipc' \in {"result", "over"}
    BY <1>11 DEF RemoveSession
  <2>. QED
    BY <1>11, <2>1 DEF RemoveSession, InvPcs
<1>12. CASE PersistTerminal(Gateway)
  <2>1. store' \in StoreSet /\ faults' \in 0..MaxFaults
    BY <1>12, SavesResolved DEF PersistTerminal
  <2>. QED
    BY <1>0, <1>12, <2>1 DEF PersistTerminal, StoreSet
<1>13. CASE Cancel
  <2>1. ipc' = "cleanup"
    BY <1>13 DEF Cancel, Ended
  <2>. QED
    BY <1>0, <1>13, <2>1 DEF Cancel, InvPcs
<1>14. CASE DropInvocation
  BY <1>0, <1>14 DEF DropInvocation, InvPcs
<1>. QED
  BY <1>1, <1>2, <1>3, <1>4, <1>5, <1>6, <1>7, <1>8, <1>9, <1>10, <1>11, <1>12, <1>13, <1>14
  DEF InvocationStep

\* So do the steps of a policy change, of the resolvers and of the file.
LEMMA OtherShape ==
    ASSUME Shape,
           \/ Invalidate \/ InvalidateSession \/ ResumeSession \/ PersistTerminal(Policy)
           \/ ListPendingApprovals \/ Crash
    PROVE  Shape'
<1>. USE DEF Shape, TypeOK, Target, invVars, resolverVars, coreVars
<1>0. Policy \in Actors
  BY DEF Actors
<1>1. CASE Invalidate
  BY <1>0, <1>1, RemoveFacts DEF Invalidate
<1>2. CASE InvalidateSession \/ ResumeSession
  BY <1>2 DEF InvalidateSession, ResumeSession
<1>3. CASE PersistTerminal(Policy)
  <2>1. store' \in StoreSet /\ faults' \in 0..MaxFaults
    BY <1>3, SavesResolved DEF PersistTerminal
  <2>. QED
    BY <1>0, <1>3, <2>1 DEF PersistTerminal, StoreSet
<1>4. CASE ListPendingApprovals
  <2>1. store' \in StoreSet /\ faults' \in 0..MaxFaults
    BY <1>4, SavesListed DEF ListPendingApprovals
  <2>. QED
    BY <1>4, <2>1 DEF ListPendingApprovals, StoreSet
<1>5. CASE Crash
  <2>1. store' \in StoreSet /\ faults' \in 0..MaxFaults
    <3>1. EmptyStore \in StoreSet
      BY DEF EmptyStore, StoreSet
    <3>2. store' = store \/ store' = EmptyStore
      BY <1>5 DEF Crash
    <3>. QED
      BY <1>5, <3>1, <3>2, ApprovalsAssumption DEF Crash, StoreSet
  <2>2. Over \in CallSet /\ Over.pc = "done" /\ Over.target = None
    BY DEF Over, CallSet
  <2>3. \A x \in Resolvers : \/ call'[x] = Over
                             \/ call'[x] = call[x] /\ call[x].pc = "idle"
    BY <1>5 DEF Crash
  <2>4. call' \in [Resolvers -> CallSet]
    BY <1>5, <2>2 DEF Crash
  <2>5. \A x \in Resolvers : /\ call'[x].pc \in {"idle", "done"}
                             /\ call'[x].target \in Requests \cup {None, Any}
    BY <2>2, <2>3
  <2>6. closing' \in [Actors -> SUBSET Requests] /\ sq' \in Seq(OpSet)
    BY <1>5 DEF Crash
  <2>7. events' \in Seq(EventSet) /\ DOMAIN events' = {}
    BY <1>5, NoEventsType DEF Crash
  <2>8. /\ ipc' = "over" /\ current' = None /\ listed' = "none" /\ turn' = "over"
        /\ waiting' = None /\ loop' = "closed" /\ mem' = {}
        /\ UNCHANGED <<mode, asked, expired, outcome, submitted>>
    BY <1>5 DEF Crash
  <2>. QED
    BY <2>1, <2>4, <2>5, <2>6, <2>7, <2>8 DEF InvPcs, StoreSet
<1>. QED
  BY <1>1, <1>2, <1>3, <1>4, <1>5

\* A resolver takes a request for its whole work, and its decision with it.
LEMMA ResolverShape ==
    ASSUME Shape, NEW x \in Resolvers,
           \/ Resolve(x) \/ Disconnect(x)
           \/ \E r \in Requests \cup {Any}, d \in Decisions : Reply(x, r, d)
    PROVE  Shape'
<1>. USE DEF Shape, TypeOK, Target, invVars, resolverVars, coreVars
<1>0. x \in Actors
  BY DEF Actors
<1>00. Target(x) \in Requests \cup {None, Any}
  OBVIOUS
<1>1. CASE Take(x)
  <2>1. PICK r \in mem : Step(x, "take", "deliver", r) /\ mem' = mem \ {r}
    BY <1>1 DEF Take
  <2>2. r \in Requests
    OBVIOUS
  <2>3. /\ call' \in [Resolvers -> CallSet] /\ call'[x].target = r
        /\ call[x].pc = "take" /\ call'[x].choice = call[x].choice
        /\ \A y \in Resolvers \ {x} : call'[y] = call[y]
    BY <2>1, <2>2, StepFacts
  <2>4. UNCHANGED <<mode, coreVars, listed, expired, store, closing, invVars, submitted, faults>>
    BY <1>1 DEF Take
  <2>. QED
    BY <2>1, <2>2, <2>3, <2>4
<1>2. CASE TakeNothing(x)
  <2>1. PICK to \in {"done", "find"} : Step(x, "take", to, Target(x))
    BY <1>2 DEF TakeNothing
  <2>2. /\ call' \in [Resolvers -> CallSet] /\ call'[x].pc = to
        /\ call[x].pc = "take"
        /\ to = "find" => call'[x].choice = call[x].choice
        /\ call'[x].target \in Requests \cup {None, Any}
        /\ \A y \in Resolvers \ {x} : call'[y] = call[y]
    BY <1>00, <2>1, StepFacts
  <2>3. UNCHANGED <<mode, coreVars, listed, mem, expired, store, closing, invVars, submitted,
                    faults>>
    BY <1>2 DEF TakeNothing
  <2>. QED
    BY <2>1, <2>2, <2>3
<1>3. CASE Deliver(x) \/ DeliverStray(x)
  <2>0. Step(x, "deliver", "audit", Target(x))
    BY <1>3 DEF Deliver, DeliverStray
  <2>1. call[x].pc = "deliver"
    BY <2>0 DEF Step
  <2>2. Target(x) \in Requests /\ call[x].choice \in Decisions
    BY <2>1
  <2>3. /\ call' \in [Resolvers -> CallSet] /\ call'[x].target = Target(x)
        /\ call'[x].choice = call[x].choice
        /\ \A y \in Resolvers \ {x} : call'[y] = call[y]
    BY <2>0, <2>2, StepFacts
  <2>4. sq' \in Seq(OpSet)
    <3>1. call[x].choice \in OpKinds
      BY <2>2, ApprovalsAssumption DEF OpKinds
    <3>. QED
      BY <1>3, <2>2, <3>1, SubmitType DEF Deliver, DeliverStray
  <2>5. submitted' \subseteq Requests \X Decisions
    BY <1>3, <2>2 DEF Deliver, DeliverStray
  <2>6. UNCHANGED <<mode, asked, waiting, turn, loop, events, answered, listed, mem, expired,
                    store, closing, invVars, faults>>
    BY <1>3 DEF Deliver, DeliverStray
  <2>. QED
    BY <2>2, <2>3, <2>4, <2>5, <2>6
<1>4. CASE DeliverFails(x)
  <2>0. Step(x, "deliver", "done", None)
    BY <1>4 DEF DeliverFails
  <2>1. Target(x) \in Requests
    BY <2>0 DEF Step
  <2>2. /\ call' \in [Resolvers -> CallSet] /\ call'[x].pc = "done" /\ call'[x].target = None
        /\ \A y \in Resolvers \ {x} : call'[y] = call[y]
    BY <2>0, StepFacts
  <2>3. mem' \subseteq Requests
    BY <1>4, <2>1 DEF DeliverFails
  <2>4. UNCHANGED <<mode, coreVars, listed, expired, store, closing, invVars, submitted, faults>>
    BY <1>4 DEF DeliverFails
  <2>. QED
    BY <2>2, <2>3, <2>4
<1>5. CASE Audit(x) \/ ResolveLegacy(x)
  <2>0. PICK from : Step(x, from, "done", None)
    BY <1>5 DEF Audit, ResolveLegacy
  <2>1. store' \in StoreSet /\ faults' \in 0..MaxFaults
    BY <1>5, SavesResolved DEF Audit, ResolveLegacy, Approves
  <2>2. /\ call' \in [Resolvers -> CallSet] /\ call'[x].pc = "done" /\ call'[x].target = None
        /\ \A y \in Resolvers \ {x} : call'[y] = call[y]
    BY <2>0, StepFacts
  <2>3. UNCHANGED <<mode, coreVars, listed, mem, expired, closing, invVars, submitted>>
    BY <1>5 DEF Audit, ResolveLegacy
  <2>. QED
    BY <2>1, <2>2, <2>3 DEF StoreSet
<1>6. CASE FindPending(x)
  <2>0. PICK to \in {"done", "legacy"}, r \in Requests \cup {None, Any} : Step(x, "find", to, r)
    BY <1>00, <1>6 DEF FindPending
  <2>1. store' \in StoreSet /\ faults' \in 0..MaxFaults
    BY <1>6, SavesListed DEF FindPending
  <2>2. /\ call' \in [Resolvers -> CallSet] /\ call'[x].pc = to
        /\ call[x].pc = "find"
        /\ to = "legacy" => call'[x].choice = call[x].choice
        /\ call'[x].target \in Requests \cup {None, Any}
        /\ \A y \in Resolvers \ {x} : call'[y] = call[y]
    BY <2>0, StepFacts
  <2>3. UNCHANGED <<mode, coreVars, listed, mem, expired, closing, invVars, submitted>>
    BY <1>6 DEF FindPending
  <2>. QED
    BY <2>1, <2>2, <2>3 DEF StoreSet
<1>7. CASE PersistTerminal(x)
  <2>1. store' \in StoreSet /\ faults' \in 0..MaxFaults
    BY <1>7, SavesResolved DEF PersistTerminal
  <2>. QED
    BY <1>0, <1>7, <2>1 DEF PersistTerminal, StoreSet
<1>8. CASE Disconnect(x)
  <2>1. Over \in CallSet /\ Over.pc = "done" /\ Over.target = None
    BY DEF Over, CallSet
  <2>2. /\ call' \in [Resolvers -> CallSet] /\ call'[x] = Over
        /\ \A y \in Resolvers \ {x} : call'[y] = call[y]
    BY <1>8, <2>1 DEF Disconnect
  <2>3. closing' \in [Actors -> SUBSET Requests]
    BY <1>8 DEF Disconnect
  <2>4. UNCHANGED <<mode, coreVars, listed, mem, expired, store, invVars, submitted, faults>>
    BY <1>8 DEF Disconnect
  <2>. QED
    BY <2>1, <2>2, <2>3, <2>4
<1>9. ASSUME NEW r \in Requests \cup {Any}, NEW d \in Decisions, Reply(x, r, d) PROVE Shape'
  <2>1. PICK new : new = [pc |-> "take", target |-> r, choice |-> d]
    OBVIOUS
  <2>2. new \in CallSet /\ new.pc = "take" /\ new.target = r /\ new.choice = d
    BY <2>1 DEF CallSet
  <2>3. /\ call' \in [Resolvers -> CallSet] /\ call'[x] = new
        /\ \A y \in Resolvers \ {x} : call'[y] = call[y]
    BY <1>9, <2>1, <2>2 DEF Reply
  <2>4. mem' \subseteq Requests /\ closing' \in [Actors -> SUBSET Requests]
    BY <1>0, <1>9, RemoveFacts DEF Reply
  <2>5. UNCHANGED <<mode, coreVars, listed, expired, store, invVars, submitted, faults>>
    BY <1>9 DEF Reply
  <2>. QED
    BY <2>2, <2>3, <2>4, <2>5
<1>. QED
  BY <1>1, <1>2, <1>3, <1>4, <1>5, <1>6, <1>7, <1>8, <1>9 DEF Resolve

----------------------------------------------------------------------------
(* The right to answer                                                      *)

\* The queued requests after each change of the events.
LEMMA EventsEmpty ==
    ASSUME events' = <<>>
    PROVE  Queued' = {} /\ OneAsk'
  BY DEF Queued, AskAt, OneAsk

\* The requests that queued events announce are those of the events alone.
LEMMA EventsSame ==
    ASSUME UNCHANGED events
    PROVE  Queued' = Queued /\ OneAsk' = OneAsk
  BY DEF Queued, AskAt, OneAsk

\* An event that is read leaves the others, and its own request is announced no more.
LEMMA EventsTail ==
    ASSUME Shape, OneAsk, events # <<>>, events' = Tail(events)
    PROVE  /\ Queued' \subseteq Queued /\ OneAsk'
           /\ Head(events).type = "ask" => Head(events).r \in Queued \ Queued'
<1>1. events \in Seq(EventSet)
  BY DEF Shape
<1>2. /\ Len(events') = Len(events) - 1 /\ Len(events) \in Nat \ {0}
      /\ events' \in Seq(EventSet)
      /\ \A i \in 1..Len(events') : events'[i] = events[i + 1]
  BY <1>1
<1>3. DOMAIN events = 1..Len(events) /\ DOMAIN events' = 1..Len(events')
  BY <1>1, <1>2
<1>4. \A i \in AskAt' : /\ i \in Nat /\ i + 1 \in AskAt /\ i >= 1
                        /\ events'[i] = events[i + 1]
  BY <1>2, <1>3 DEF AskAt
<1>5. Queued' \subseteq Queued
  BY <1>4 DEF Queued
<1>6. OneAsk'
  <2>. SUFFICES ASSUME NEW i \in AskAt', NEW j \in AskAt', events'[i].r = events'[j].r
                PROVE  i = j
    BY DEF OneAsk
  <2>1. /\ i + 1 \in AskAt /\ j + 1 \in AskAt /\ i \in Nat /\ j \in Nat
        /\ events[i + 1].r = events[j + 1].r
    BY <1>4
  <2>2. i + 1 = j + 1
    BY <2>1, Zenon DEF OneAsk
  <2>. QED
    BY <2>1, <2>2
<1>7. ASSUME Head(events).type = "ask"
      PROVE  Head(events).r \in Queued \ Queued'
  <2>1. Head(events) = events[1] /\ 1 \in AskAt
    BY <1>1, <1>2, <1>3, <1>7 DEF AskAt
  <2>2. ASSUME NEW i \in AskAt', events'[i].r = events[1].r PROVE FALSE
    <3>1. i + 1 \in AskAt /\ i \in Nat /\ i >= 1 /\ events[i + 1].r = events[1].r
      BY <1>4, <2>2
    <3>2. i + 1 = 1
      BY <2>1, <3>1, Zenon DEF OneAsk
    <3>. QED
      BY <3>1, <3>2
  <2>. QED
    BY <2>1, <2>2 DEF Queued
<1>. QED
  BY <1>5, <1>6, <1>7

\* A new event announces its request, if it is an ask, and changes no other.
LEMMA EventsEmit ==
    ASSUME Shape, OneAsk, NEW type, NEW r, Emit(type, r)
    PROVE  /\ type # "ask" => Queued' = Queued /\ OneAsk'
           /\ type = "ask" /\ r \notin Queued => Queued' \subseteq Queued \cup {r} /\ OneAsk'
<1>1. CASE UNCHANGED events
  BY <1>1, EventsSame
<1>2. CASE events' = Append(events, [type |-> type, r |-> r])
  <2>. DEFINE e == [type |-> type, r |-> r]
  <2>1. e.type = type /\ e.r = r
    OBVIOUS
  <2>. HIDE DEF e
  <2>2. events \in Seq(EventSet) /\ events' = Append(events, e) /\ Len(events) \in Nat
    BY <1>2 DEF Shape, e
  <2>3. /\ Len(events') = Len(events) + 1
        /\ DOMAIN events = 1..Len(events) /\ DOMAIN events' = 1..Len(events')
        /\ \A i \in DOMAIN events : events'[i] = events[i]
        /\ events'[Len(events')] = e
    BY <2>2
  <2>4. AskAt' = AskAt \cup (IF type = "ask" THEN {Len(events')} ELSE {})
    BY <2>1, <2>2, <2>3 DEF AskAt
  <2>5. \A i \in AskAt : events'[i].r = events[i].r
    BY <2>3 DEF AskAt
  <2>6. events'[Len(events')].r = r
    BY <2>1, <2>3
  <2>7. CASE type # "ask"
    BY <2>4, <2>5, <2>7 DEF Queued, OneAsk
  <2>8. CASE type = "ask"
    BY <2>4, <2>5, <2>6, <2>8 DEF Queued, OneAsk
  <2>. QED
    BY <2>7, <2>8
<1>. QED
  BY <1>1, <1>2 DEF Emit

\* The requests in the hands of resolvers, when one of them moves.
LEMMA CallsSame ==
    ASSUME UNCHANGED call
    PROVE  Held' = Held /\ Targets' = Targets /\ OneHolder' = OneHolder
  BY DEF Held, Holders, Targets, OneHolder, Target

\* One resolver moves: the others hold and name what they did.
LEMMA CallsMove ==
    ASSUME OneHolder, NEW x \in Resolvers, \A y \in Resolvers \ {x} : call'[y] = call[y]
    PROVE  /\ call'[x].pc # "deliver" =>
                  /\ Held' \subseteq Held /\ OneHolder'
                  /\ call[x].pc = "deliver" => Target(x) \in Held /\ Target(x) \notin Held'
           /\ call'[x].pc = "deliver" /\ call'[x].target \notin Held =>
                  Held' \subseteq Held \cup {call'[x].target} /\ OneHolder'
           /\ Targets' \subseteq Targets \cup ({call'[x].target} \cap Requests)
<1>1. \A y \in Resolvers \ {x} : (y \in Holders') = (y \in Holders) /\ Target(y)' = Target(y)
  BY DEF Holders, Target
<1>2. Holders \subseteq Resolvers /\ Holders' \subseteq Resolvers
  BY DEF Holders
<1>3. (x \in Holders <=> call[x].pc = "deliver") /\ (x \in Holders' <=> call'[x].pc = "deliver")
  BY DEF Holders
<1>4. Target(x)' = call'[x].target
  BY DEF Target
<1>5. Targets' \subseteq Targets \cup ({call'[x].target} \cap Requests)
  BY <1>1, <1>4 DEF Targets
<1>6. ASSUME call'[x].pc # "deliver"
      PROVE  /\ Held' \subseteq Held /\ OneHolder'
             /\ call[x].pc = "deliver" => Target(x) \in Held /\ Target(x) \notin Held'
  BY <1>1, <1>2, <1>3, <1>6 DEF Held, OneHolder
<1>7. ASSUME call'[x].pc = "deliver", call'[x].target \notin Held
      PROVE  Held' \subseteq Held \cup {call'[x].target} /\ OneHolder'
  BY <1>1, <1>2, <1>3, <1>4, <1>7 DEF Held, OneHolder
<1>. QED
  BY <1>5, <1>6, <1>7

\* The denials in the file, when it gains none but for what has expired.
LEMMA DeniedKept ==
    ASSUME expired \subseteq expired',
           \A e \in store'.resolved : e \in store.resolved \/ (e[2] = FALSE /\ e[1] \in expired)
    PROVE  Denied' \subseteq Denied
  BY DEF Denied

\* The denials to be stored are those of closing alone.
LEMMA ClosedSame == ASSUME UNCHANGED closing PROVE Closed' = Closed
  BY DEF Closed

\* A denial that is stored, or dropped with its actor, leaves no new one.
LEMMA ClosedShrinks ==
    ASSUME \A a \in Actors : closing'[a] \subseteq closing[a]
    PROVE  Closed' \subseteq Closed
  BY DEF Closed

\* A removal adds denials of what was in the registry only.
LEMMA ClosedRemoved ==
    ASSUME Shape, NEW a \in Actors, NEW R, Remove(a, R)
    PROVE  Closed' \subseteq Closed \cup (mem \ mem')
  BY DEF Closed, Remove, Shape, TypeOK

\* The requests with a submitted decision are those of submitted alone.
LEMMA SentSame == ASSUME UNCHANGED submitted PROVE Sent' = Sent
  BY DEF Sent

\* Rights that go to nobody, or are closed by whoever removes the request.
LEMMA PlacesShrink ==
    ASSUME PlaceInv, DeadInv, FreshInv, OneAsk', OneHolder',
           Queued' \subseteq Queued, Registering' \subseteq Registering,
           mem' \subseteq mem, Held' \subseteq Held, Coming' \subseteq Coming,
           Closed' \subseteq Closed \cup (mem \ mem'), Sent' = Sent,
           Denied' \subseteq Denied \cup Closed \cup Sent,
           store'.pending \subseteq store.pending,
           Targets' \subseteq Targets \cup store.pending, asked' = asked
    PROVE  PlaceInv' /\ DeadInv' /\ FreshInv' /\ Answerable' \subseteq Answerable
<1>1. PlaceInv'
  BY DEF PlaceInv
<1>2. DeadInv'
  BY DEF DeadInv, PlaceInv, Answerable
<1>3. FreshInv'
  BY DEF FreshInv, Answerable
<1>4. Answerable' \subseteq Answerable
  BY DEF Answerable
<1>. QED
  BY <1>1, <1>2, <1>3, <1>4

Placed == PlaceInv /\ DeadInv /\ FreshInv

\* What the places are after a step that leaves the registry and the resolvers alone.
LEMMA GatewaySame ==
    ASSUME UNCHANGED <<mem, closing, store, expired, call, submitted>>
    PROVE  /\ Held' = Held /\ Targets' = Targets /\ OneHolder' = OneHolder
           /\ Closed' = Closed /\ Sent' = Sent /\ Denied' = Denied
  BY CallsSame DEF Closed, Sent, Denied

\* Core's other events announce nothing that can be answered.
LEMMA CorePlaces ==
    ASSUME Shape, Placed,
           \/ RejectSubmission \/ Receive \/ Interrupt
           \/ \E type \in {"complete", "error"} : EndTurn(type)
           \/ \E r \in Requests : Expire(r)
    PROVE  Placed' /\ Answerable' \subseteq Answerable
<1>. USE DEF Placed
<1>1. /\ UNCHANGED <<mem, closing, store, call, submitted, ipc, current, asked>>
      /\ expired \subseteq expired'
  BY DEF RejectSubmission, Receive, Interrupt, EndTurn, Expire, coreVars, invVars, resolverVars
<1>2. /\ Held' = Held /\ Targets' = Targets /\ OneHolder' = OneHolder
      /\ Closed' = Closed /\ Sent' = Sent
  BY <1>1, CallsSame, ClosedSame, SentSame
<1>3. Denied' \subseteq Denied
  BY <1>1, DeniedKept
<1>4. Queued' = Queued /\ OneAsk'
  <2>0. OneAsk
    BY DEF PlaceInv
  <2>1. ASSUME NEW type \in {"complete", "error", "aborted"}, Emit(type, None)
        PROVE  Queued' = Queued /\ OneAsk'
    BY <2>0, <2>1, EventsEmit
  <2>2. ASSUME UNCHANGED events PROVE Queued' = Queued /\ OneAsk'
    BY <2>0, <2>2, EventsSame
  <2>. QED
    BY <2>1, <2>2
    DEF RejectSubmission, Receive, Interrupt, EndTurn, Expire, coreVars
<1>5. Registering' = Registering /\ Coming' = Coming
  BY <1>1, <1>4 DEF Registering, Coming
<1>6. OneHolder
  BY DEF PlaceInv
<1>. QED
  BY <1>1, <1>2, <1>3, <1>4, <1>5, <1>6, PlacesShrink

\* A request that Core asks for is new.
LEMMA AskPlaces ==
    ASSUME Shape, Placed, Ask
    PROVE  Placed' /\ Answerable' \subseteq Answerable \cup {asked + 1}
<1>. USE DEF Placed
<1>0. asked \in Nat
  BY ApprovalsAssumption DEF Shape, TypeOK
<1>1. /\ UNCHANGED <<mem, closing, store, expired, call, submitted, ipc, current>>
      /\ asked' = asked + 1
  BY DEF Ask, invVars, resolverVars
<1>2. /\ Held' = Held /\ Targets' = Targets /\ OneHolder' = OneHolder
      /\ Closed' = Closed /\ Sent' = Sent /\ Denied' = Denied
  BY <1>1, GatewaySame
<1>3. asked + 1 \notin 1..asked /\ 1..asked \subseteq 1..asked' /\ asked + 1 \in 1..asked'
  BY <1>0, <1>1
<1>4. /\ Queued \subseteq 1..asked /\ Registering \subseteq 1..asked /\ mem \subseteq 1..asked
      /\ Held \subseteq 1..asked /\ Closed \subseteq 1..asked /\ Sent \subseteq 1..asked
      /\ Denied \subseteq 1..asked /\ store.pending \subseteq 1..asked
      /\ Targets \subseteq 1..asked
  BY DEF FreshInv, Answerable
<1>5. Queued' \subseteq Queued \cup {asked + 1} /\ OneAsk'
  BY <1>3, <1>4, EventsEmit DEF Ask, PlaceInv
<1>6. Registering' = Registering
  BY <1>1 DEF Registering
<1>7. Coming' \subseteq Coming \cup {asked + 1}
  BY <1>1, <1>5 DEF Coming
<1>8. PlaceInv'
  <2>1. OneHolder'
    BY <1>2 DEF PlaceInv
  <2>2. Queued' \cap (Registering' \cup mem' \cup Held') = {}
    BY <1>1, <1>2, <1>3, <1>4, <1>5, <1>6 DEF PlaceInv
  <2>3. Registering' \cap (mem' \cup Held') = {} /\ mem' \cap Held' = {}
    BY <1>1, <1>2, <1>6 DEF PlaceInv
  <2>. QED
    BY <1>5, <2>1, <2>2, <2>3 DEF PlaceInv
<1>9. DeadInv'
  BY <1>1, <1>2, <1>3, <1>4, <1>5, <1>6 DEF DeadInv, Answerable
<1>10. FreshInv'
  <2>1. Coming' \cap (store'.pending \cup Targets') = {}
    BY <1>1, <1>2, <1>3, <1>4, <1>7 DEF FreshInv
  <2>2. Answerable' \subseteq 1..asked'
    BY <1>1, <1>2, <1>3, <1>4, <1>5, <1>6 DEF Answerable
  <2>3. /\ Closed' \subseteq 1..asked' /\ Sent' \subseteq 1..asked'
        /\ Denied' \subseteq 1..asked' /\ store'.pending \subseteq 1..asked'
        /\ Targets' \subseteq 1..asked'
    BY <1>1, <1>2, <1>3, <1>4
  <2>. QED
    BY <2>1, <2>2, <2>3 DEF FreshInv
<1>. QED
  BY <1>1, <1>2, <1>5, <1>6, <1>8, <1>9, <1>10 DEF Answerable

\* The next event: a request is registered, denied at once, or left to nobody.
LEMMA NextEventPlaces ==
    ASSUME Shape, Placed, NextEvent
    PROVE  /\ Placed' /\ Answerable' \subseteq Answerable
           /\ mode \notin Attended /\ Head(events).type = "ask" =>
                  Head(events).r \in Answerable \ Answerable'
<1>. USE DEF Placed
<1>1. /\ UNCHANGED <<mem, closing, store, expired, call, submitted, asked>>
      /\ ipc = "loop" /\ events # <<>>
  BY DEF NextEvent, At, resolverVars
<1>2. /\ Held' = Held /\ Targets' = Targets /\ OneHolder' = OneHolder
      /\ Closed' = Closed /\ Sent' = Sent /\ Denied' = Denied
  BY <1>1, GatewaySame
<1>3. OneAsk /\ OneHolder
  BY DEF PlaceInv
<1>4. Registering = {} /\ Coming = Queued
  BY <1>1 DEF Registering, Coming
<1>5. CASE ipc' = "store" /\ Head(events).type = "ask" /\ current' = Head(events).r
           /\ mode \in Attended
  <2>1. events' = Tail(events)
    BY <1>5 DEF NextEvent
  <2>2. /\ Queued' \subseteq Queued /\ OneAsk' /\ current' \in Queued /\ current' \notin Queued'
    BY <1>1, <1>3, <1>5, <2>1, EventsTail
  <2>3. Registering' = {current'} /\ Coming' = Queued' \cup {current'}
    BY <1>5 DEF Registering, Coming
  <2>4. PlaceInv'
    BY <1>1, <1>2, <1>3, <2>2, <2>3 DEF PlaceInv
  <2>5. Answerable' \subseteq Answerable
    BY <1>1, <1>2, <2>2, <2>3 DEF Answerable
  <2>6. DeadInv'
    BY <1>2, <2>5 DEF DeadInv
  <2>7. FreshInv'
    <3>1. Coming' \subseteq Coming
      BY <1>4, <2>2, <2>3
    <3>. QED
      BY <1>1, <1>2, <2>5, <3>1 DEF FreshInv
  <2>. QED
    BY <1>5, <2>4, <2>5, <2>6, <2>7
<1>6. CASE ipc' \in {"forget", "cleanup", "result"} /\ Head(events).type # "ask"
  <2>1. events' = <<>>
    BY <1>6 DEF NextEvent
  <2>2. Queued' = {} /\ OneAsk'
    BY <2>1, EventsEmpty
  <2>3. Registering' = {} /\ Coming' = {}
    BY <1>6, <2>2 DEF Registering, Coming
  <2>. QED
    BY <1>1, <1>2, <1>3, <1>6, <2>2, <2>3, PlacesShrink
<1>7. CASE ipc' = "loop"
  <2>1. events' = Tail(events)
    BY <1>7 DEF NextEvent
  <2>2. /\ Queued' \subseteq Queued /\ OneAsk'
        /\ Head(events).type = "ask" => Head(events).r \in Queued \ Queued'
    BY <1>1, <1>3, <2>1, EventsTail
  <2>3. Registering' = {} /\ Coming' = Queued'
    BY <1>7 DEF Registering, Coming
  <2>4. Placed' /\ Answerable' \subseteq Answerable
    BY <1>1, <1>2, <1>3, <1>4, <2>2, <2>3, PlacesShrink
  <2>5. ASSUME Head(events).type = "ask" PROVE Head(events).r \in Answerable \ Answerable'
    BY <1>1, <1>2, <2>2, <2>3, <2>5 DEF Answerable, PlaceInv
  <2>. QED
    BY <2>4, <2>5
<1>. QED
  BY <1>1, <1>5, <1>6, <1>7 DEF NextEvent, Ended

\* The steps with which the invocation closes requests, or leaves its collector.
LEMMA LeavePlaces ==
    ASSUME Shape, Placed,
           UNCHANGED <<store, expired, call, submitted, asked>>,
           ipc' \notin {"store", "insert"},
           events' = events \/ events' = <<>>,
           \/ UNCHANGED <<mem, closing>>
           \/ \E R : Remove(Gateway, R)
           \/ mem' = mem /\ closing' = [closing EXCEPT ![Gateway] = {}]
    PROVE  Placed' /\ Answerable' \subseteq Answerable
<1>. USE DEF Placed
<1>0. Gateway \in Actors
  BY DEF Actors
<1>1. /\ Held' = Held /\ Targets' = Targets /\ OneHolder' = OneHolder
      /\ Sent' = Sent /\ Denied' = Denied
  BY CallsSame, SentSame DEF Denied
<1>2. OneHolder /\ OneAsk
  BY DEF PlaceInv
<1>3. Queued' \subseteq Queued /\ OneAsk'
  BY <1>2, EventsSame, EventsEmpty
<1>4. Registering' = {} /\ Coming' \subseteq Coming
  BY <1>3 DEF Registering, Coming
<1>5. mem' \subseteq mem /\ Closed' \subseteq Closed \cup (mem \ mem')
  <2>1. CASE UNCHANGED <<mem, closing>>
    BY <2>1, ClosedSame
  <2>2. ASSUME NEW R, Remove(Gateway, R)
        PROVE  mem' \subseteq mem /\ Closed' \subseteq Closed \cup (mem \ mem')
    BY <1>0, <2>2, ClosedRemoved, RemoveFacts
  <2>3. CASE mem' = mem /\ closing' = [closing EXCEPT ![Gateway] = {}]
    <3>1. \A a \in Actors : closing'[a] \subseteq closing[a]
      BY <1>0, <2>3 DEF Shape, TypeOK
    <3>. QED
      BY <2>3, <3>1, ClosedShrinks
  <2>. QED
    BY <2>1, <2>2, <2>3
<1>. QED
  BY <1>1, <1>2, <1>3, <1>4, <1>5, PlacesShrink

\* The steps of the invocation that remove, abort or give up requests only do so.
LEMMA InvocationLeaves ==
    ASSUME Shape, Placed,
           \/ GiveUp \/ AbortPending \/ Timeout \/ Finish \/ StreamCleanup \/ CleanUpError
           \/ CleanUpSession \/ RemoveSession \/ Cancel \/ DropInvocation
    PROVE  Placed' /\ Answerable' \subseteq Answerable
<1>. USE DEF coreVars, resolverVars
<1>1. CASE GiveUp
  BY <1>1, LeavePlaces DEF GiveUp
<1>2. CASE AbortPending
  BY <1>2, LeavePlaces DEF AbortPending, Ended
<1>3. CASE Timeout
  BY <1>3, LeavePlaces DEF Timeout, Ended
<1>4. CASE Finish
  BY <1>4, LeavePlaces DEF Finish, RemoveInvocationApprovals, Ended
<1>5. CASE StreamCleanup
  BY <1>5, LeavePlaces DEF StreamCleanup
<1>6. CASE CleanUpError
  BY <1>6, LeavePlaces DEF CleanUpError, RemoveInvocationApprovals
<1>7. CASE CleanUpSession
  BY <1>7, LeavePlaces DEF CleanUpSession
<1>8. CASE RemoveSession
  BY <1>8, LeavePlaces DEF RemoveSession
<1>9. CASE Cancel
  BY <1>9, LeavePlaces DEF Cancel, Ended
<1>10. CASE DropInvocation
  BY <1>10, LeavePlaces DEF DropInvocation
<1>. QED
  BY <1>1, <1>2, <1>3, <1>4, <1>5, <1>6, <1>7, <1>8, <1>9, <1>10

\* A request that is stored is still registered by the invocation alone; when the
\* write fails it is denied, and nobody has it.
LEMMA PersistPlaces ==
    ASSUME Shape, Placed, PersistPending
    PROVE  /\ Placed' /\ Answerable' \subseteq Answerable
           /\ current \in Requests /\ current \in Answerable
           /\ ipc' # "insert" => current \notin Answerable'
<1>. USE DEF Placed
<1>1. /\ UNCHANGED <<mem, closing, expired, call, submitted, asked>>
      /\ ipc = "store" /\ current \in Requests
  BY DEF PersistPending, At, resolverVars, Shape
<1>2. /\ Held' = Held /\ Targets' = Targets /\ OneHolder' = OneHolder
      /\ Sent' = Sent /\ Closed' = Closed
  BY <1>1, CallsSame, SentSame, ClosedSame
<1>3. OneHolder /\ OneAsk
  BY DEF PlaceInv
<1>4. /\ store'.pending \subseteq store.pending \cup {current}
      /\ store'.resolved \subseteq store.resolved
  BY <1>1, SavesPending DEF PersistPending
<1>5. Denied' \subseteq Denied
  BY <1>1, <1>4, DeniedKept
<1>6. Registering = {current} /\ Coming = Queued \cup {current} /\ current \in Answerable
  BY <1>1 DEF Registering, Coming, Answerable
<1>7. current \notin Queued /\ current \notin mem /\ current \notin Held
  BY <1>6 DEF PlaceInv
<1>8. current \in 1..asked
  BY <1>6 DEF FreshInv
<1>9. CASE ipc' = "insert"
  <2>1. current' = current /\ events' = events
    BY <1>9 DEF PersistPending, Ended
  <2>2. Queued' = Queued /\ OneAsk'
    BY <1>3, <2>1, EventsSame
  <2>3. Registering' = Registering /\ Coming' = Queued
    BY <1>6, <1>9, <2>1, <2>2 DEF Registering, Coming
  <2>4. PlaceInv'
    BY <1>1, <1>2, <1>3, <2>2, <2>3 DEF PlaceInv
  <2>5. Answerable' = Answerable
    BY <1>1, <1>2, <2>2, <2>3 DEF Answerable
  <2>6. DeadInv'
    BY <1>2, <1>5, <2>5 DEF DeadInv
  <2>7. FreshInv'
    <3>1. Coming' \cap (store'.pending \cup Targets') = {}
      BY <1>2, <1>4, <1>6, <1>7, <2>3 DEF FreshInv
    <3>. QED
      BY <1>1, <1>2, <1>4, <1>5, <1>8, <2>5, <3>1 DEF FreshInv
  <2>. QED
    BY <1>1, <1>6, <1>9, <2>4, <2>5, <2>6, <2>7
<1>10. CASE ipc' # "insert"
  <2>1. Fails /\ events' = <<>> /\ ipc' \in {"cleanup", "result"}
    BY <1>10 DEF PersistPending, Ended
  <2>2. Queued' = {} /\ OneAsk'
    BY <2>1, EventsEmpty
  <2>3. Registering' = {} /\ Coming' = {}
    BY <2>1, <2>2 DEF Registering, Coming
  <2>4. store'.pending \subseteq store.pending
    <3>1. EmptyStore.pending = {}
      BY DEF EmptyStore
    <3>. QED
      BY <2>1, <3>1 DEF Fails
  <2>5. Placed' /\ Answerable' \subseteq Answerable
    BY <1>1, <1>2, <1>3, <1>5, <2>2, <2>3, <2>4, PlacesShrink
  <2>6. current \notin Answerable'
    BY <1>1, <1>2, <1>7, <2>2, <2>3 DEF Answerable
  <2>. QED
    BY <1>1, <1>6, <2>5, <2>6
<1>. QED
  BY <1>9, <1>10

\* The second half of the registration hands the request to the registry.
LEMMA RegisterPlaces ==
    ASSUME Shape, Placed, Register
    PROVE  Placed' /\ Answerable' \subseteq Answerable
<1>. USE DEF Placed
<1>1. /\ UNCHANGED <<events, closing, store, expired, call, submitted, asked>>
      /\ ipc = "insert" /\ ipc' = "loop" /\ mem' = mem \cup {current}
  BY DEF Register, At, coreVars, resolverVars
<1>2. /\ Held' = Held /\ Targets' = Targets /\ OneHolder' = OneHolder
      /\ Sent' = Sent /\ Closed' = Closed /\ Denied' = Denied
  BY <1>1, CallsSame, SentSame, ClosedSame DEF Denied
<1>3. Queued' = Queued /\ OneAsk' = OneAsk
  BY <1>1, EventsSame
<1>4. Registering = {current} /\ Registering' = {} /\ Coming' = Coming
  BY <1>1, <1>3 DEF Registering, Coming
<1>5. PlaceInv'
  BY <1>1, <1>2, <1>3, <1>4 DEF PlaceInv
<1>6. Answerable' = Answerable
  BY <1>1, <1>2, <1>3, <1>4 DEF Answerable
<1>. QED
  BY <1>1, <1>2, <1>4, <1>5, <1>6 DEF DeadInv, FreshInv

\* A denial is stored for a request that nobody can answer any more.
LEMMA TerminalPlaces ==
    ASSUME Shape, Placed, NEW a \in Actors, PersistTerminal(a)
    PROVE  Placed' /\ Answerable' \subseteq Answerable
<1>. USE DEF Placed
<1>1. PICK r \in closing[a] : /\ PersistResolved(r, FALSE)
                              /\ closing' = [closing EXCEPT ![a] = @ \ {r}]
  BY DEF PersistTerminal
<1>2. UNCHANGED <<events, mem, expired, call, submitted, asked, ipc, current>>
  BY DEF PersistTerminal, coreVars, invVars, resolverVars
<1>3. /\ Held' = Held /\ Targets' = Targets /\ OneHolder' = OneHolder /\ Sent' = Sent
      /\ Queued' = Queued /\ OneAsk' = OneAsk
  BY <1>2, CallsSame, SentSame, EventsSame
<1>4. Registering' = Registering /\ Coming' = Coming
  BY <1>2, <1>3 DEF Registering, Coming
<1>5. Closed' \subseteq Closed /\ r \in Closed
  BY <1>1, ClosedShrinks DEF Closed, Shape, TypeOK
<1>6. /\ store'.pending \subseteq store.pending
      /\ \A e \in store'.resolved : e \in store.resolved \/ e = <<r, FALSE>>
  BY <1>1, SavesResolved
<1>7. Denied' \subseteq Denied \cup {r}
  BY <1>2, <1>6 DEF Denied
<1>8. OneAsk /\ OneHolder
  BY DEF PlaceInv
<1>. QED
  BY <1>2, <1>3, <1>4, <1>5, <1>6, <1>7, <1>8, PlacesShrink

\* Listing what is pending, a change of policy and a crash.
LEMMA OtherPlaces ==
    ASSUME Shape, Placed,
           \/ ListPendingApprovals \/ Invalidate \/ InvalidateSession \/ ResumeSession
           \/ Crash
    PROVE  Placed' /\ Answerable' \subseteq Answerable
<1>. USE DEF Placed
<1>0. OneAsk /\ OneHolder
  BY DEF PlaceInv
<1>1. CASE ListPendingApprovals
  <2>1. UNCHANGED <<events, mem, closing, expired, call, submitted, asked, ipc, current>>
    BY <1>1 DEF ListPendingApprovals, coreVars, invVars, resolverVars
  <2>2. /\ Held' = Held /\ Targets' = Targets /\ OneHolder' = OneHolder /\ Sent' = Sent
        /\ Queued' = Queued /\ OneAsk' = OneAsk /\ Closed' = Closed
    BY <2>1, CallsSame, SentSame, EventsSame, ClosedSame
  <2>3. Registering' = Registering /\ Coming' = Coming
    BY <2>1, <2>2 DEF Registering, Coming
  <2>4. /\ store'.pending \subseteq store.pending
        /\ \A e \in store'.resolved : e \in store.resolved \/ (e[2] = FALSE /\ e[1] \in expired)
    BY <1>1, SavesListed DEF ListPendingApprovals
  <2>5. Denied' \subseteq Denied
    BY <2>1, <2>4, DeniedKept
  <2>. QED
    BY <1>0, <2>1, <2>2, <2>3, <2>4, <2>5, PlacesShrink
<1>2. CASE Invalidate \/ InvalidateSession \/ ResumeSession
  <2>1. UNCHANGED <<events, store, expired, call, submitted, asked, ipc, current>>
    BY <1>2 DEF Invalidate, InvalidateSession, ResumeSession, coreVars, invVars, resolverVars
  <2>2. /\ Held' = Held /\ Targets' = Targets /\ OneHolder' = OneHolder /\ Sent' = Sent
        /\ Queued' = Queued /\ OneAsk' = OneAsk /\ Denied' = Denied
    BY <2>1, CallsSame, SentSame, EventsSame DEF Denied
  <2>3. Registering' = Registering /\ Coming' = Coming
    BY <2>1, <2>2 DEF Registering, Coming
  <2>4. mem' \subseteq mem /\ Closed' \subseteq Closed \cup (mem \ mem')
    <3>1. CASE Invalidate
      BY <3>1, ClosedRemoved, RemoveFacts DEF Invalidate, Actors
    <3>2. CASE InvalidateSession \/ ResumeSession
      BY <3>2, ClosedSame DEF InvalidateSession, ResumeSession
    <3>. QED
      BY <1>2, <3>1, <3>2
  <2>. QED
    BY <1>0, <2>1, <2>2, <2>3, <2>4, PlacesShrink
<1>3. CASE Crash
  <2>1. /\ events' = <<>> /\ ipc' = "over" /\ mem' = {}
        /\ UNCHANGED <<expired, submitted, asked>>
        /\ closing' = [a \in Actors |-> {}]
    BY <1>3 DEF Crash
  <2>2. Queued' = {} /\ OneAsk'
    BY <2>1, EventsEmpty
  <2>3. Registering' = {} /\ Coming' = {} /\ Closed' = {}
    BY <2>1, <2>2 DEF Registering, Coming, Closed
  <2>4. \A x \in Resolvers : \/ call'[x] = Over
                             \/ call'[x] = call[x] /\ call[x].pc = "idle"
    BY <1>3 DEF Crash
  <2>5. Over.pc = "done" /\ Over.target = None /\ None \notin Requests
    BY DEF Over, None, Requests
  <2>6. Holders' = {}
    BY <2>4, <2>5 DEF Holders
  <2>7. Held' = {} /\ OneHolder'
    BY <2>6 DEF Held, OneHolder
  <2>8. Targets' \subseteq Targets
    BY <2>4, <2>5 DEF Targets, Target
  <2>9. /\ store'.pending \subseteq store.pending /\ store'.resolved \subseteq store.resolved
    <3>1. EmptyStore.pending = {} /\ EmptyStore.resolved = {}
      BY DEF EmptyStore
    <3>2. store' = store \/ store' = EmptyStore
      BY <1>3 DEF Crash
    <3>. QED
      BY <3>1, <3>2
  <2>10. Denied' \subseteq Denied /\ Sent' = Sent
    BY <2>1, <2>9, DeniedKept, SentSame
  <2>. QED
    BY <2>1, <2>2, <2>3, <2>7, <2>8, <2>9, <2>10, PlacesShrink
<1>. QED
  BY <1>1, <1>2, <1>3

\* A resolver takes a request from the registry, and puts it back or submits with it.
LEMMA TakePlaces ==
    ASSUME Shape, Placed, NEW x \in Resolvers, Take(x)
    PROVE  Placed' /\ Answerable' \subseteq Answerable
<1>. USE DEF Placed
<1>1. PICK r \in mem : Step(x, "take", "deliver", r) /\ mem' = mem \ {r}
  BY DEF Take
<1>2. r \in Requests
  BY DEF Shape, TypeOK
<1>3. /\ call'[x].pc = "deliver" /\ call'[x].target = r
      /\ \A y \in Resolvers \ {x} : call'[y] = call[y]
  BY <1>1, <1>2, StepFacts
<1>4. UNCHANGED <<events, closing, store, expired, submitted, asked, ipc, current>>
  BY DEF Take, coreVars, invVars
<1>5. OneAsk /\ OneHolder /\ r \notin Held
  BY DEF PlaceInv
<1>6. /\ Held' \subseteq Held \cup {r} /\ OneHolder'
      /\ Targets' \subseteq Targets \cup {r}
  BY <1>3, <1>5, CallsMove
<1>7. /\ Sent' = Sent /\ Queued' = Queued /\ OneAsk' = OneAsk /\ Closed' = Closed
      /\ Denied' = Denied
  BY <1>4, SentSame, EventsSame, ClosedSame DEF Denied
<1>8. Registering' = Registering /\ Coming' = Coming
  BY <1>4, <1>7 DEF Registering, Coming
<1>9. PlaceInv'
  BY <1>1, <1>5, <1>6, <1>7, <1>8 DEF PlaceInv
<1>10. Answerable' \subseteq Answerable
  BY <1>1, <1>6, <1>7, <1>8 DEF Answerable
<1>11. DeadInv'
  BY <1>7, <1>10 DEF DeadInv
<1>12. FreshInv'
  <2>1. r \notin Coming
    BY DEF Coming, Registering, PlaceInv
  <2>2. r \in 1..asked
    BY DEF FreshInv, Answerable
  <2>. QED
    BY <1>4, <1>6, <1>7, <1>8, <1>10, <2>1, <2>2 DEF FreshInv
<1>. QED
  BY <1>9, <1>10, <1>11, <1>12

\* A resolver submits the decision for the request it holds, to whichever session
\* has the id: nobody can answer it again.
LEMMA DeliverPlaces ==
    ASSUME Shape, Placed, NEW x \in Resolvers, Deliver(x) \/ DeliverStray(x)
    PROVE  /\ Placed' /\ Answerable' \subseteq Answerable
           /\ Target(x) \in Requests
           /\ Target(x) \in Answerable \ Answerable' /\ Target(x) \notin Sent
<1>. USE DEF Placed
<1>0. Step(x, "deliver", "audit", Target(x)) /\ call[x].pc = "deliver"
  BY DEF Deliver, DeliverStray, Step
<1>1. Target(x) \in Requests /\ call[x].choice \in Decisions
  BY <1>0 DEF Shape
<1>2. /\ call'[x].pc = "audit" /\ call'[x].target = Target(x)
      /\ \A y \in Resolvers \ {x} : call'[y] = call[y]
  BY <1>0, <1>1, StepFacts
<1>3. /\ UNCHANGED <<events, mem, closing, store, expired, asked, ipc, current>>
      /\ submitted' = submitted \cup {<<Target(x), call[x].choice>>}
  BY DEF Deliver, DeliverStray, coreVars, invVars
<1>4. OneAsk /\ OneHolder
  BY DEF PlaceInv
<1>5. /\ Held' \subseteq Held /\ OneHolder' /\ Target(x) \in Held /\ Target(x) \notin Held'
      /\ Targets' \subseteq Targets \cup {Target(x)}
  BY <1>0, <1>2, <1>4, CallsMove
<1>6. Targets' \subseteq Targets
  BY <1>1, <1>5 DEF Targets
<1>7. /\ Queued' = Queued /\ OneAsk' = OneAsk /\ Closed' = Closed /\ Denied' = Denied
  BY <1>3, EventsSame, ClosedSame DEF Denied
<1>8. Registering' = Registering /\ Coming' = Coming
  BY <1>3, <1>7 DEF Registering, Coming
<1>9. Sent' = Sent \cup {Target(x)}
  BY <1>1, <1>3 DEF Sent
<1>10. Target(x) \in Answerable /\ Target(x) \notin Answerable'
  BY <1>3, <1>5, <1>7, <1>8 DEF Answerable, PlaceInv
<1>11. Answerable' \subseteq Answerable
  BY <1>3, <1>5, <1>7, <1>8 DEF Answerable
<1>12. PlaceInv'
  BY <1>3, <1>4, <1>5, <1>7, <1>8 DEF PlaceInv
<1>13. Target(x) \notin Closed /\ Target(x) \notin Sent
  BY <1>10 DEF DeadInv
<1>14. DeadInv'
  BY <1>7, <1>9, <1>10, <1>11, <1>13 DEF DeadInv
<1>15. FreshInv'
  <2>1. Target(x) \in 1..asked
    BY <1>10 DEF FreshInv
  <2>. QED
    BY <1>3, <1>6, <1>7, <1>8, <1>9, <1>11, <2>1 DEF FreshInv
<1>. QED
  BY <1>1, <1>10, <1>11, <1>12, <1>13, <1>14, <1>15

\* A resolver that cannot reach Core puts its request back, or drops it if it expired.
LEMMA RestorePlaces ==
    ASSUME Shape, Placed, NEW x \in Resolvers, DeliverFails(x)
    PROVE  Placed' /\ Answerable' \subseteq Answerable
<1>. USE DEF Placed
<1>0. Step(x, "deliver", "done", None) /\ call[x].pc = "deliver"
  BY DEF DeliverFails, Step
<1>1. Target(x) \in Requests
  BY <1>0 DEF Shape
<1>2. /\ call'[x].pc = "done" /\ call'[x].target = None /\ None \notin Requests
      /\ \A y \in Resolvers \ {x} : call'[y] = call[y]
  BY <1>0, StepFacts DEF None, Requests
<1>3. /\ UNCHANGED <<events, closing, store, expired, submitted, asked, ipc, current>>
      /\ mem' \subseteq mem \cup {Target(x)}
  BY DEF DeliverFails, coreVars, invVars
<1>4. OneAsk /\ OneHolder
  BY DEF PlaceInv
<1>5. /\ Held' \subseteq Held /\ OneHolder' /\ Target(x) \in Held /\ Target(x) \notin Held'
      /\ Targets' \subseteq Targets
  BY <1>0, <1>2, <1>4, CallsMove
<1>6. /\ Queued' = Queued /\ OneAsk' = OneAsk /\ Closed' = Closed /\ Denied' = Denied
      /\ Sent' = Sent
  BY <1>3, EventsSame, ClosedSame, SentSame DEF Denied
<1>7. Registering' = Registering /\ Coming' = Coming
  BY <1>3, <1>6 DEF Registering, Coming
<1>8. PlaceInv'
  BY <1>3, <1>4, <1>5, <1>6, <1>7 DEF PlaceInv
<1>9. Answerable' \subseteq Answerable
  BY <1>3, <1>5, <1>6, <1>7 DEF Answerable
<1>. QED
  BY <1>3, <1>5, <1>6, <1>7, <1>8, <1>9 DEF DeadInv, FreshInv

\* The other steps of a resolver give it no right.  What it stores is the decision
\* that it submitted, or nothing at all on the durable-only path.
LEMMA ResolverPlaces ==
    ASSUME Shape, Placed, ResolverInv, NEW x \in Resolvers,
           \/ TakeNothing(x) \/ Audit(x) \/ FindPending(x) \/ ResolveLegacy(x) \/ Disconnect(x)
           \/ \E r \in Requests \cup {Any}, d \in Decisions : Reply(x, r, d)
    PROVE  Placed' /\ Answerable' \subseteq Answerable
<1>. USE DEF Placed
<1>0. OneAsk /\ OneHolder
  BY DEF PlaceInv
<1>1. UNCHANGED <<events, submitted, expired, asked, ipc, current>>
  BY DEF TakeNothing, Audit, FindPending, ResolveLegacy, Disconnect, Reply, coreVars, invVars
<1>2. Sent' = Sent /\ Queued' = Queued /\ OneAsk' = OneAsk
  BY <1>1, SentSame, EventsSame
<1>3. Registering' = Registering /\ Coming' = Coming
  BY <1>1, <1>2 DEF Registering, Coming
<1>4. Target(x) \in Requests \cup {None, Any} /\ (Target(x) \in Requests => Target(x) \in Targets)
  BY DEF Shape, TypeOK, Targets
<1>5. ASSUME mem' \subseteq mem, Closed' \subseteq Closed \cup (mem \ mem'),
             \A y \in Resolvers \ {x} : call'[y] = call[y], call'[x].pc # "deliver",
             call'[x].target \in {None, Any, Target(x)} \cup store.pending,
             store'.pending \subseteq store.pending,
             Denied' \subseteq Denied \cup Sent
      PROVE  Placed' /\ Answerable' \subseteq Answerable
  <2>1. /\ Held' \subseteq Held /\ OneHolder'
        /\ Targets' \subseteq Targets \cup ({call'[x].target} \cap Requests)
    BY <1>0, <1>5, CallsMove
  <2>2. None \notin Requests /\ Any \notin Requests
    BY ApprovalsAssumption DEF None, Any, Requests
  <2>3. Targets' \subseteq Targets \cup store.pending
    BY <1>4, <1>5, <2>1, <2>2
  <2>. QED
    BY <1>0, <1>1, <1>2, <1>3, <1>5, <2>1, <2>3, PlacesShrink
<1>6. CASE TakeNothing(x)
  <2>1. PICK to \in {"done", "find"} : Step(x, "take", to, Target(x))
    BY <1>6 DEF TakeNothing
  <2>2. /\ call'[x].pc = to /\ call'[x].target \in {None, Target(x)}
        /\ \A y \in Resolvers \ {x} : call'[y] = call[y]
    BY <1>4, <2>1, StepFacts
  <2>3. UNCHANGED <<mem, store, closing>>
    BY <1>6 DEF TakeNothing
  <2>4. Closed' = Closed /\ Denied' = Denied
    BY <1>1, <2>3, ClosedSame DEF Denied
  <2>. QED
    BY <1>5, <2>1, <2>2, <2>3, <2>4
<1>7. CASE Audit(x) \/ ResolveLegacy(x)
  <2>0. PICK from \in {"audit", "legacy"} : Step(x, from, "done", None)
    BY <1>7 DEF Audit, ResolveLegacy
  <2>1. /\ call[x].pc = from /\ call'[x].pc = "done" /\ call'[x].target = None
        /\ \A y \in Resolvers \ {x} : call'[y] = call[y]
    BY <2>0, StepFacts
  <2>2. UNCHANGED <<mem, closing>> /\ PersistResolved(Target(x), Approves(x))
    BY <1>7 DEF Audit, ResolveLegacy
  <2>3. Closed' = Closed
    BY <2>2, ClosedSame
  <2>4. /\ store'.pending \subseteq store.pending
        /\ \A e \in store'.resolved : \/ e \in store.resolved
                                      \/ e = <<Target(x), Approves(x)>>
                                         /\ Target(x) \in store.pending
    BY <2>2, SavesResolved DEF Approves
  <2>5. Target(x) \in store.pending => Target(x) \in Sent
    <3>1. CASE call[x].pc = "audit"
      <4>1. Target(x) \in Requests /\ call[x].choice \in Decisions
        BY <3>1 DEF Shape
      <4>. QED
        BY <3>1, <4>1 DEF ResolverInv, Sent
    <3>2. CASE call[x].pc = "legacy"
      BY <3>2 DEF ResolverInv
    <3>. QED
      BY <2>1, <3>1, <3>2
  <2>6. Denied' \subseteq Denied \cup Sent
    BY <1>1, <2>4, <2>5 DEF Denied
  <2>. QED
    BY <1>5, <2>1, <2>2, <2>3, <2>4, <2>6
<1>8. CASE FindPending(x)
  <2>0. PICK to \in {"done", "legacy"}, r \in {None, Target(x)} : Step(x, "find", to, r)
    BY <1>8 DEF FindPending
  <2>1. /\ call'[x].pc = to /\ call'[x].target \in {None, Target(x)}
        /\ \A y \in Resolvers \ {x} : call'[y] = call[y]
    BY <1>4, <2>0, StepFacts
  <2>2. UNCHANGED <<mem, closing>>
    BY <1>8 DEF FindPending
  <2>3. /\ store'.pending \subseteq store.pending
        /\ \A e \in store'.resolved : e \in store.resolved \/ (e[2] = FALSE /\ e[1] \in expired)
    BY <1>8, SavesListed DEF FindPending
  <2>4. Denied' \subseteq Denied /\ Closed' = Closed
    BY <1>1, <2>2, <2>3, DeniedKept, ClosedSame
  <2>. QED
    BY <1>5, <2>0, <2>1, <2>2, <2>3, <2>4
<1>9. CASE Disconnect(x)
  <2>1. Over.pc = "done" /\ Over.target = None
    BY DEF Over
  <2>2. call'[x] = Over /\ \A y \in Resolvers \ {x} : call'[y] = call[y]
    BY <1>9 DEF Disconnect, Shape
  <2>3. UNCHANGED <<mem, store>> /\ \A a \in Actors : closing'[a] \subseteq closing[a]
    BY <1>9 DEF Disconnect, Shape, TypeOK
  <2>4. Closed' \subseteq Closed /\ Denied' = Denied
    BY <1>1, <2>3, ClosedShrinks DEF Denied
  <2>. QED
    BY <1>5, <2>1, <2>2, <2>3, <2>4
<1>10. ASSUME NEW r \in Requests \cup {Any}, NEW d \in Decisions, Reply(x, r, d)
       PROVE  Placed' /\ Answerable' \subseteq Answerable
  <2>1. PICK new : new = [pc |-> "take", target |-> r, choice |-> d]
    OBVIOUS
  <2>2. new.pc = "take" /\ new.target = r
    BY <2>1
  <2>3. call'[x] = new /\ \A y \in Resolvers \ {x} : call'[y] = call[y]
    BY <1>10, <2>1 DEF Reply, Shape
  <2>4. UNCHANGED store /\ (r = Any \/ r \in store.pending) /\ Remove(x, expired)
    BY <1>10 DEF Reply
  <2>5. mem' \subseteq mem /\ Closed' \subseteq Closed \cup (mem \ mem') /\ Denied' = Denied
    BY <1>1, <2>4, ClosedRemoved, RemoveFacts DEF Actors, Denied
  <2>. QED
    BY <1>5, <2>2, <2>3, <2>4, <2>5
<1>. QED
  BY <1>6, <1>7, <1>8, <1>9, <1>10

\* The places after any step: a step of Core makes its new request answerable, no
\* other step makes one.
LEMMA PlacesKept ==
    ASSUME ApprovalInv, Next
    PROVE  /\ Placed'
           /\ Answerable' \subseteq Answerable \/ (Ask /\ Answerable' \subseteq Answerable \cup {asked + 1})
<1>. USE DEF ApprovalInv
<1>0. Placed /\ Gateway \in Actors /\ Policy \in Actors /\ Resolvers \subseteq Actors
  BY DEF Placed, Actors
<1>1. CASE CoreStep \/ Interrupt \/ \E r \in Requests : Expire(r)
  BY <1>0, <1>1, AskPlaces, CorePlaces DEF CoreStep
<1>2. CASE InvocationStep \/ Cancel \/ DropInvocation
  BY <1>0, <1>2, NextEventPlaces, InvocationLeaves, PersistPlaces, RegisterPlaces, TerminalPlaces
  DEF InvocationStep
<1>3. CASE \/ Invalidate \/ InvalidateSession \/ ResumeSession \/ PersistTerminal(Policy)
           \/ ListPendingApprovals \/ Crash
  BY <1>0, <1>3, OtherPlaces, TerminalPlaces
<1>4. ASSUME NEW x \in Resolvers,
             \/ Resolve(x) \/ Disconnect(x)
             \/ \E r \in Requests \cup {Any}, d \in Decisions : Reply(x, r, d)
      PROVE  Placed' /\ Answerable' \subseteq Answerable
  BY <1>0, <1>4, TakePlaces, DeliverPlaces, RestorePlaces, ResolverPlaces, TerminalPlaces
  DEF Resolve
<1>. QED
  BY <1>1, <1>2, <1>3, <1>4 DEF Next

----------------------------------------------------------------------------
(* The audit trail                                                          *)

Audited == ResolverInv /\ DecisionInv /\ AuditTruthful

\* A step without a new entry, a new decision or a new pending request.
LEMMA AuditSame ==
    ASSUME Audited, UNCHANGED <<call, submitted>>, expired \subseteq expired',
           store'.pending \subseteq store.pending,
           \A e \in store'.resolved : e \in store.resolved \/ (e[2] = FALSE /\ e[1] \in expired)
    PROVE  Audited'
<1>1. ResolverInv' /\ DecisionInv'
  BY DEF Audited, ResolverInv, DecisionInv, Target
<1>2. AuditTruthful'
  BY DEF Audited, AuditTruthful
<1>. QED
  BY <1>1, <1>2 DEF Audited

\* The same, for a step that leaves the file alone.
LEMMA AuditUnchanged ==
    ASSUME Audited, UNCHANGED <<call, submitted, store>>, expired \subseteq expired'
    PROVE  Audited'
  BY AuditSame

\* persist_terminal: nothing was submitted for the request, and nothing will be.
LEMMA AuditTerminal ==
    ASSUME ApprovalInv, NEW a \in Actors, PersistTerminal(a)
    PROVE  Audited'
<1>. USE DEF ApprovalInv, Audited
<1>1. PICK r \in closing[a] : PersistResolved(r, FALSE)
  BY DEF PersistTerminal
<1>2. UNCHANGED <<call, submitted, expired>>
  BY DEF PersistTerminal, resolverVars
<1>3. /\ store'.pending \subseteq store.pending
      /\ \A e \in store'.resolved : e \in store.resolved \/ e = <<r, FALSE>>
  BY <1>1, SavesResolved
<1>4. \A d \in Decisions : <<r, d>> \notin submitted
  <2>1. r \in Closed /\ r \in Requests
    BY DEF Closed, Shape, TypeOK
  <2>. QED
    BY <2>1 DEF DeadInv, Sent
<1>5. <<r, "approve">> \notin submitted
  <2>1. submitted \subseteq Requests \X Decisions
    BY DEF Shape, TypeOK
  <2>. QED
    BY <1>4, <2>1
<1>6. ResolverInv' /\ DecisionInv'
  BY <1>2, <1>3 DEF ResolverInv, DecisionInv, Target
<1>7. AuditTruthful'
  <2>. SUFFICES ASSUME NEW e \in store'.resolved
                PROVE  IF e[2] THEN <<e[1], "approve">> \in submitted
                       ELSE <<e[1], "approve">> \in submitted => e[1] \in expired
    BY <1>2 DEF AuditTruthful
  <2>1. CASE e \in store.resolved
    BY <2>1 DEF AuditTruthful
  <2>2. CASE e = <<r, FALSE>>
    BY <1>5, <2>2
  <2>. QED
    BY <1>3, <2>1, <2>2
<1>. QED
  BY <1>6, <1>7

\* A request that is stored for the first time is not the one a resolver names.
LEMMA AuditPersist ==
    ASSUME ApprovalInv, PersistPending
    PROVE  Audited'
<1>. USE DEF ApprovalInv, Audited
<1>1. ipc = "store" /\ current \in Requests /\ UNCHANGED <<call, submitted, expired>>
  BY DEF PersistPending, At, resolverVars, Shape
<1>2. /\ store'.pending \subseteq store.pending \cup {current}
      /\ store'.resolved \subseteq store.resolved
  BY <1>1, SavesPending DEF PersistPending
<1>3. current \notin Targets
  BY <1>1 DEF FreshInv, Coming
<1>4. \A x \in Resolvers : Target(x) # current
  BY <1>1, <1>3 DEF Targets
<1>5. ResolverInv'
  BY <1>1, <1>2, <1>4 DEF ResolverInv, Target
<1>6. DecisionInv' /\ AuditTruthful'
  BY <1>1, <1>2 DEF DecisionInv, AuditTruthful
<1>. QED
  BY <1>5, <1>6

\* A decision is submitted: the first one for its request, which no stored denial
\* contradicts.
LEMMA AuditDeliver ==
    ASSUME ApprovalInv, NEW x \in Resolvers, Deliver(x) \/ DeliverStray(x)
    PROVE  Audited'
<1>. USE DEF ApprovalInv, Audited
<1>0. Placed
  BY DEF Placed
<1>1. /\ Target(x) \in Requests /\ Target(x) \in Answerable /\ Target(x) \notin Sent
  BY <1>0, DeliverPlaces
<1>2. Step(x, "deliver", "audit", Target(x)) /\ UNCHANGED <<store, expired>>
      /\ submitted' = submitted \cup {<<Target(x), call[x].choice>>}
  BY DEF Deliver, DeliverStray
<1>3. /\ call'[x].pc = "audit" /\ call'[x].target = Target(x)
      /\ call'[x].choice = call[x].choice
      /\ \A y \in Resolvers \ {x} : call'[y] = call[y]
  BY <1>1, <1>2, StepFacts
<1>4. ASSUME NEW s \in submitted PROVE s[1] # Target(x)
  <2>1. submitted \subseteq Requests \X Decisions
    BY DEF Shape, TypeOK
  <2>2. PICK r \in Requests, d \in Decisions : s = <<r, d>>
    BY <2>1
  <2>3. r \in Sent /\ s[1] = r
    BY <2>2 DEF Sent
  <2>. QED
    BY <1>1, <2>3
<1>5. ResolverInv'
  <2>. SUFFICES ASSUME NEW y \in Resolvers
                PROVE  /\ call'[y].pc = "audit" =>
                              <<call'[y].target, call'[y].choice>> \in submitted'
                       /\ call'[y].pc = "legacy" => call'[y].target \notin store'.pending
    BY DEF ResolverInv, Target
  <2>1. CASE y = x
    BY <1>2, <1>3, <2>1
  <2>2. CASE y # x
    BY <1>2, <1>3, <2>2 DEF ResolverInv, Target
  <2>. QED
    BY <2>1, <2>2
<1>6. DecisionInv'
  <2>1. \A s \in submitted' : s \in submitted \/ s = <<Target(x), call[x].choice>>
    BY <1>2
  <2>2. <<Target(x), call[x].choice>>[1] = Target(x)
    OBVIOUS
  <2>. QED
    BY <1>4, <2>1, <2>2 DEF DecisionInv
<1>7. AuditTruthful'
  <2>. SUFFICES ASSUME NEW e \in store.resolved
                PROVE  IF e[2] THEN <<e[1], "approve">> \in submitted'
                       ELSE <<e[1], "approve">> \in submitted' => e[1] \in expired
    BY <1>2 DEF AuditTruthful
  <2>1. CASE e[2]
    BY <1>2, <2>1 DEF AuditTruthful
  <2>2. CASE ~e[2] /\ e[1] # Target(x)
    BY <1>2, <2>2 DEF AuditTruthful
  <2>3. CASE ~e[2] /\ e[1] = Target(x)
    <3>0. e \in Requests \X BOOLEAN
      BY DEF Shape, TypeOK
    <3>1. e = <<Target(x), FALSE>>
      <4>1. PICK r \in Requests, b \in BOOLEAN : e = <<r, b>>
        BY <3>0
      <4>. QED
        BY <2>3, <4>1
    <3>2. Target(x) \notin Denied
      BY <1>1 DEF DeadInv
    <3>. QED
      BY <1>1, <2>3, <3>1, <3>2 DEF Denied
  <2>. QED
    BY <2>1, <2>2, <2>3
<1>. QED
  BY <1>5, <1>6, <1>7

\* The audit entry says what was submitted; the durable-only path finds nothing
\* that is pending.
LEMMA AuditEntry ==
    ASSUME ApprovalInv, NEW x \in Resolvers, Audit(x) \/ ResolveLegacy(x)
    PROVE  Audited'
<1>. USE DEF ApprovalInv, Audited
<1>0. PICK from \in {"audit", "legacy"} : Step(x, from, "done", None)
  BY DEF Audit, ResolveLegacy
<1>1. /\ call[x].pc = from /\ call'[x].pc = "done"
      /\ \A y \in Resolvers \ {x} : call'[y] = call[y]
  BY <1>0, StepFacts
<1>2. UNCHANGED <<submitted, expired>> /\ PersistResolved(Target(x), Approves(x))
  BY DEF Audit, ResolveLegacy
<1>3. /\ store'.pending \subseteq store.pending
      /\ \A e \in store'.resolved : \/ e \in store.resolved
                                    \/ e = <<Target(x), Approves(x)>>
                                       /\ Target(x) \in store.pending
  BY <1>2, SavesResolved DEF Approves
<1>4. ResolverInv' /\ DecisionInv'
  BY <1>1, <1>2, <1>3 DEF ResolverInv, DecisionInv, Target
<1>5. ASSUME Target(x) \in store.pending
      PROVE  Approves(x) <=> <<Target(x), "approve">> \in submitted
  <2>1. <<Target(x), call[x].choice>> \in submitted
    BY <1>1, <1>5 DEF ResolverInv
  <2>2. ASSUME <<Target(x), "approve">> \in submitted PROVE call[x].choice = "approve"
    <3>1. <<Target(x), "approve">> = <<Target(x), call[x].choice>>
      BY <2>1, <2>2 DEF DecisionInv
    <3>. QED
      BY <3>1
  <2>. QED
    BY <2>1, <2>2 DEF Approves
<1>6. AuditTruthful'
  <2>. SUFFICES ASSUME NEW e \in store'.resolved
                PROVE  IF e[2] THEN <<e[1], "approve">> \in submitted
                       ELSE <<e[1], "approve">> \in submitted => e[1] \in expired
    BY <1>2 DEF AuditTruthful
  <2>1. CASE e \in store.resolved
    BY <2>1 DEF AuditTruthful
  <2>2. CASE e = <<Target(x), Approves(x)>> /\ Target(x) \in store.pending
    BY <1>5, <2>2
  <2>. QED
    BY <1>3, <2>1, <2>2
<1>. QED
  BY <1>4, <1>6

\* A resolver moves and submits nothing.
LEMMA AuditMove ==
    ASSUME Audited, UNCHANGED <<submitted, expired>>,
           NEW x \in Resolvers, \A y \in Resolvers \ {x} : call'[y] = call[y],
           call'[x].pc # "audit",
           call'[x].pc = "legacy" => call'[x].target \notin store'.pending,
           store'.pending \subseteq store.pending,
           \A e \in store'.resolved : e \in store.resolved \/ (e[2] = FALSE /\ e[1] \in expired)
    PROVE  Audited'
<1>1. DecisionInv'
  BY DEF Audited, DecisionInv
<1>2. ResolverInv'
  BY DEF Audited, ResolverInv, Target
<1>3. AuditTruthful'
  BY DEF Audited, AuditTruthful
<1>. QED
  BY <1>1, <1>2, <1>3 DEF Audited

\* Every step keeps the audit trail true.
LEMMA AuditKept ==
    ASSUME ApprovalInv, Next
    PROVE  Audited'
<1>. USE DEF ApprovalInv
<1>0. Audited /\ Gateway \in Actors /\ Policy \in Actors /\ Resolvers \subseteq Actors
  BY DEF Audited, Actors
<1>1. CASE CoreStep \/ Interrupt \/ \E r \in Requests : Expire(r)
  <2>1. UNCHANGED <<call, submitted, store>> /\ expired \subseteq expired'
    BY <1>1 DEF CoreStep, Ask, EndTurn, RejectSubmission, Receive, Interrupt, Expire,
                resolverVars
  <2>. QED
    BY <1>0, <2>1, AuditUnchanged
<1>2. CASE InvocationStep \/ Cancel \/ DropInvocation
  <2>1. CASE PersistPending
    BY <2>1, AuditPersist
  <2>2. CASE PersistTerminal(Gateway)
    BY <1>0, <2>2, AuditTerminal
  <2>3. CASE ~PersistPending /\ ~PersistTerminal(Gateway)
    <3>1. UNCHANGED <<call, submitted, store, expired>>
      BY <1>2, <2>3 DEF InvocationStep, NextEvent, Register, GiveUp, AbortPending, Timeout,
                        Finish, StreamCleanup, CleanUpError, CleanUpSession, RemoveSession,
                        Cancel, DropInvocation, resolverVars
    <3>. QED
      BY <1>0, <3>1, AuditUnchanged
  <2>. QED
    BY <2>1, <2>2, <2>3
<1>3. CASE Invalidate \/ InvalidateSession \/ ResumeSession
  <2>1. UNCHANGED <<call, submitted, store, expired>>
    BY <1>3 DEF Invalidate, InvalidateSession, ResumeSession, resolverVars
  <2>. QED
    BY <1>0, <2>1, AuditUnchanged
<1>4. CASE PersistTerminal(Policy)
  BY <1>0, <1>4, AuditTerminal
<1>5. CASE ListPendingApprovals
  <2>1. UNCHANGED <<call, submitted, expired>>
    BY <1>5 DEF ListPendingApprovals, resolverVars
  <2>. QED
    BY <1>0, <1>5, <2>1, SavesListed, AuditSame DEF ListPendingApprovals
<1>6. CASE Crash
  <2>1. Over.pc = "done"
    BY DEF Over
  <2>2. \A x \in Resolvers : call'[x].pc \in {"idle", "done"}
    BY <1>6, <2>1 DEF Crash
  <2>3. store'.resolved \subseteq store.resolved /\ UNCHANGED <<submitted, expired>>
    <3>1. EmptyStore.resolved = {}
      BY DEF EmptyStore
    <3>2. store' = store \/ store' = EmptyStore
      BY <1>6 DEF Crash
    <3>. QED
      BY <1>6, <3>1, <3>2 DEF Crash
  <2>4. ResolverInv'
    BY <2>2 DEF ResolverInv
  <2>5. DecisionInv' /\ AuditTruthful'
    BY <2>3 DEF DecisionInv, AuditTruthful
  <2>. QED
    BY <2>4, <2>5 DEF Audited
<1>7. ASSUME NEW x \in Resolvers,
             \/ Resolve(x) \/ Disconnect(x)
             \/ \E r \in Requests \cup {Any}, d \in Decisions : Reply(x, r, d)
      PROVE  Audited'
  <2>0. Target(x) \in Requests \cup {None, Any}
    BY DEF Shape, TypeOK
  <2>1. CASE Take(x)
    <3>1. PICK r \in mem : Step(x, "take", "deliver", r)
      BY <2>1 DEF Take
    <3>2. r \in Requests
      BY DEF Shape, TypeOK
    <3>3. call'[x].pc = "deliver" /\ \A y \in Resolvers \ {x} : call'[y] = call[y]
      BY <3>1, <3>2, StepFacts
    <3>4. UNCHANGED <<submitted, store, expired>>
      BY <2>1 DEF Take
    <3>. QED
      BY <1>0, <3>3, <3>4, AuditMove
  <2>2. CASE TakeNothing(x)
    <3>1. PICK to \in {"done", "find"} : Step(x, "take", to, Target(x))
      BY <2>2 DEF TakeNothing
    <3>2. call'[x].pc = to /\ \A y \in Resolvers \ {x} : call'[y] = call[y]
      BY <2>0, <3>1, StepFacts
    <3>3. UNCHANGED <<submitted, store, expired>>
      BY <2>2 DEF TakeNothing
    <3>. QED
      BY <1>0, <3>2, <3>3, AuditMove
  <2>3. CASE Deliver(x) \/ DeliverStray(x)
    BY <2>3, AuditDeliver
  <2>4. CASE DeliverFails(x)
    <3>1. call'[x].pc = "done" /\ \A y \in Resolvers \ {x} : call'[y] = call[y]
      BY <2>4, StepFacts DEF DeliverFails
    <3>2. UNCHANGED <<submitted, store, expired>>
      BY <2>4 DEF DeliverFails
    <3>. QED
      BY <1>0, <3>1, <3>2, AuditMove
  <2>5. CASE Audit(x) \/ ResolveLegacy(x)
    BY <2>5, AuditEntry
  <2>6. CASE FindPending(x)
    <3>0. UNCHANGED <<submitted, expired>>
      BY <2>6 DEF FindPending
    <3>1. /\ store'.pending \subseteq store.pending
          /\ Saves(Listed(store)) => store'.pending = store.pending \ expired
          /\ \A e \in store'.resolved : e \in store.resolved \/ (e[2] = FALSE /\ e[1] \in expired)
      BY <2>6, SavesListed DEF FindPending
    <3>2. CASE Step(x, "find", "done", None) \/ Step(x, "find", "done", Target(x))
      <4>1. call'[x].pc = "done" /\ \A y \in Resolvers \ {x} : call'[y] = call[y]
        BY <2>0, <3>2, StepFacts
      <4>. QED
        BY <1>0, <3>0, <3>1, <4>1, AuditMove
    <3>3. CASE /\ Saves(Listed(store)) /\ Step(x, "find", "legacy", Target(x))
               /\ Target(x) \notin Listed(store).pending
      <4>1. /\ call'[x].pc = "legacy" /\ call'[x].target = Target(x)
            /\ \A y \in Resolvers \ {x} : call'[y] = call[y]
        BY <2>0, <3>3, StepFacts
      <4>2. Target(x) \notin store'.pending
        BY <3>3 DEF Saves
      <4>. QED
        BY <1>0, <3>0, <3>1, <4>1, <4>2, AuditMove
    <3>. QED
      BY <2>6, <3>2, <3>3 DEF FindPending
  <2>7. CASE PersistTerminal(x)
    BY <1>0, <2>7, AuditTerminal
  <2>8. CASE Disconnect(x)
    <3>1. Over.pc = "done"
      BY DEF Over
    <3>2. call'[x] = Over /\ \A y \in Resolvers \ {x} : call'[y] = call[y]
      BY <2>8 DEF Disconnect, Shape
    <3>3. UNCHANGED <<submitted, store, expired>>
      BY <2>8 DEF Disconnect
    <3>. QED
      BY <1>0, <3>1, <3>2, <3>3, AuditMove
  <2>9. ASSUME NEW r \in Requests \cup {Any}, NEW d \in Decisions, Reply(x, r, d)
        PROVE  Audited'
    <3>1. PICK new : new = [pc |-> "take", target |-> r, choice |-> d]
      OBVIOUS
    <3>2. new.pc = "take"
      BY <3>1
    <3>3. call'[x] = new /\ \A y \in Resolvers \ {x} : call'[y] = call[y]
      BY <2>9, <3>1 DEF Reply, Shape
    <3>4. UNCHANGED <<submitted, store, expired>>
      BY <2>9 DEF Reply
    <3>. QED
      BY <1>0, <3>2, <3>3, <3>4, AuditMove
  <2>. QED
    BY <1>7, <2>1, <2>2, <2>3, <2>4, <2>5, <2>6, <2>7, <2>8, <2>9 DEF Resolve
<1>. QED
  BY <1>1, <1>2, <1>3, <1>4, <1>5, <1>6, <1>7 DEF Next

----------------------------------------------------------------------------
(* The submission queue                                                     *)

Ordered == QueueInv /\ LiveInv /\ AnswersItsOwn

\* A step that leaves the queue and the turn alone, and makes no request answerable.
LEMMA QueueSame ==
    ASSUME Ordered, UNCHANGED <<turn, waiting, sq, answered>>, Answerable' \subseteq Answerable
    PROVE  Ordered'
<1>1. QueueInv' /\ AnswersItsOwn'
  BY DEF Ordered, QueueInv, AnswersItsOwn, Ends
<1>2. LiveInv'
  BY DEF Ordered, LiveInv, Live, Ends
<1>. QED
  BY <1>1, <1>2 DEF Ordered

\* What an operation does to the queue that it joins at the end.
LEMMA AppendFacts ==
    ASSUME Shape, NEW op \in OpSet, sq' = Append(sq, op)
    PROVE  /\ DOMAIN sq = 1..Len(sq) /\ Len(sq) \in Nat
           /\ DOMAIN sq' = 1..(Len(sq) + 1)
           /\ sq'[Len(sq) + 1] = op
           /\ \A i \in 1..Len(sq) : sq'[i] = sq[i]
<1>1. sq \in Seq(OpSet)
  BY DEF Shape
<1>. QED
  BY <1>1

\* An operation that ends the turn joins the queue: no request counts after it.
LEMMA QueueEnds ==
    ASSUME Shape, Ordered, NEW op \in OpSet, Ends(op), sq' = Append(sq, op),
           UNCHANGED <<turn, waiting, answered>>
    PROVE  Ordered'
<1>1. /\ DOMAIN sq = 1..Len(sq) /\ Len(sq) \in Nat
      /\ DOMAIN sq' = 1..(Len(sq) + 1)
      /\ sq'[Len(sq) + 1] = op
      /\ \A i \in 1..Len(sq) : sq'[i] = sq[i]
  BY AppendFacts
<1>2. Len(sq) + 1 \in DOMAIN sq' /\ Ends(sq'[Len(sq) + 1])
  BY <1>1
<1>3. ~Live'
  BY <1>2 DEF Live, Ends
<1>4. ASSUME turn = "running", NEW i \in DOMAIN sq', \A j \in 1..i : ~Ends(sq'[j])
      PROVE  i = 1 /\ waiting # None /\ sq'[1].for = waiting
  <2>1. i # Len(sq) + 1
    <3>1. i \in 1..i
      BY <1>1
    <3>. QED
      BY <1>2, <1>4, <3>1
  <2>2. i \in DOMAIN sq /\ \A j \in 1..i : sq'[j] = sq[j]
    BY <1>1, <2>1
  <2>3. \A j \in 1..i : ~Ends(sq[j])
    BY <1>4, <2>2
  <2>4. i = 1 /\ waiting # None /\ sq[1].for = waiting
    BY <1>4, <2>2, <2>3 DEF Ordered, QueueInv
  <2>. QED
    BY <2>2, <2>4
<1>5. QueueInv'
  BY <1>4 DEF Ordered, QueueInv, Ends
<1>6. LiveInv' /\ AnswersItsOwn'
  BY <1>3 DEF Ordered, LiveInv, AnswersItsOwn
<1>. QED
  BY <1>5, <1>6 DEF Ordered

\* The decision for a request that could be answered joins the queue: while the turn
\* lasts it is the one for the waiting request, and the only one.
LEMMA QueueAnswer ==
    ASSUME Shape, Ordered, NEW r \in Requests, NEW op \in OpSet, op.for = r,
           sq' = Append(sq, op), UNCHANGED <<turn, waiting, answered>>,
           Answerable' \subseteq Answerable, r \in Answerable \ Answerable'
    PROVE  Ordered'
<1>1. /\ DOMAIN sq = 1..Len(sq) /\ Len(sq) \in Nat
      /\ DOMAIN sq' = 1..(Len(sq) + 1)
      /\ sq'[Len(sq) + 1] = op
      /\ \A i \in 1..Len(sq) : sq'[i] = sq[i]
  BY AppendFacts
<1>2. AnswersItsOwn'
  BY DEF Ordered, AnswersItsOwn
<1>3. r # None
  BY ApprovalsAssumption DEF Requests, None
<1>4. CASE Live
  <2>1. waiting = r /\ sq = <<>> /\ Answerable' = {}
    BY <1>4 DEF Ordered, LiveInv
  <2>2. DOMAIN sq' = {1} /\ sq'[1] = op
    BY <1>1, <2>1
  <2>3. QueueInv'
    BY <1>3, <1>4, <2>1, <2>2 DEF QueueInv, Live
  <2>4. LiveInv'
    BY <2>1 DEF LiveInv
  <2>. QED
    BY <1>2, <2>3, <2>4 DEF Ordered
<1>5. CASE turn # "running"
  <2>1. QueueInv'
    BY <1>5 DEF Ordered, QueueInv
  <2>2. LiveInv'
    BY <1>5 DEF LiveInv, Live
  <2>. QED
    BY <1>2, <2>1, <2>2 DEF Ordered
<1>6. CASE turn = "running" /\ ~Live
  <2>1. PICK k \in DOMAIN sq : Ends(sq[k])
    BY <1>6 DEF Live
  <2>2. k \in DOMAIN sq' /\ sq'[k] = sq[k]
    BY <1>1
  <2>3. ~Live'
    BY <2>1, <2>2 DEF Live, Ends
  <2>4. ASSUME NEW i \in DOMAIN sq', \A j \in 1..i : ~Ends(sq'[j])
        PROVE  i = 1 /\ waiting # None /\ sq'[1].for = waiting
    <3>1. ~(k \in 1..i)
      BY <2>1, <2>2, <2>4
    <3>2. i \in DOMAIN sq /\ \A j \in 1..i : sq'[j] = sq[j]
      BY <1>1, <3>1
    <3>3. \A j \in 1..i : ~Ends(sq[j])
      BY <2>4, <3>2
    <3>4. i = 1 /\ waiting # None /\ sq[1].for = waiting
      BY <1>6, <3>2, <3>3 DEF Ordered, QueueInv
    <3>. QED
      BY <3>2, <3>4
  <2>5. QueueInv'
    BY <1>6, <2>4 DEF Ordered, QueueInv, Ends
  <2>6. LiveInv'
    BY <2>3 DEF LiveInv
  <2>. QED
    BY <1>2, <2>5, <2>6 DEF Ordered
<1>. QED
  BY <1>4, <1>5, <1>6

\* Both, as the gateway submits them: nothing happens once the loop has ended.
LEMMA SubmitQueue ==
    ASSUME Shape, Ordered, NEW r \in {None} \cup Requests, NEW d \in OpKinds,
           Submit(Op(r, d)), UNCHANGED <<turn, waiting, answered>>,
           Answerable' \subseteq Answerable,
           \/ d \in {"abort", "interrupt", "shutdown"}
           \/ r \in Requests /\ r \in Answerable \ Answerable'
    PROVE  Ordered'
<1>. DEFINE op == Op(r, d)
<1>1. op \in OpSet /\ op.for = r /\ op.decision = d
  BY OpType
<1>. HIDE DEF op
<1>2. sq' = Append(sq, op) \/ sq' = sq
  BY DEF Submit, op
<1>3. CASE sq' = sq
  BY <1>3, QueueSame
<1>4. CASE sq' = Append(sq, op) /\ d \in {"abort", "interrupt", "shutdown"}
  <2>1. Ends(op)
    BY <1>1, <1>4 DEF Ends
  <2>. QED
    BY <1>1, <1>4, <2>1, QueueEnds
<1>5. CASE sq' = Append(sq, op) /\ r \in Requests /\ r \in Answerable \ Answerable'
  BY <1>1, <1>5, QueueAnswer
<1>. QED
  BY <1>2, <1>3, <1>4, <1>5

\* Core asks, while it waits for nothing: the queue holds nothing but what ends the
\* turn, and no other request can be answered unless it does.
LEMMA QueueAsk ==
    ASSUME Shape, Ordered, Ask, Answerable' \subseteq Answerable \cup {asked + 1},
           Answerable' \subseteq Nat \ {0}
    PROVE  Ordered'
<1>1. /\ turn = "running" /\ waiting = None /\ waiting' = asked + 1
      /\ UNCHANGED <<turn, sq, answered>>
  BY DEF Ask
<1>2. sq \in Seq(OpSet) /\ DOMAIN sq = 1..Len(sq) /\ Len(sq) \in Nat
  BY DEF Shape
<1>3. \A i \in DOMAIN sq : ~(\A j \in 1..i : ~Ends(sq[j]))
  BY <1>1 DEF Ordered, QueueInv
<1>4. QueueInv'
  BY <1>1, <1>3 DEF QueueInv, Ends
<1>5. LiveInv'
  <2>1. SUFFICES ASSUME Live
                 PROVE  Answerable' \subseteq {waiting'} /\ sq' = <<>>
    BY <1>1 DEF LiveInv, Live, Ends
  <2>2. DOMAIN sq = {}
    BY <1>2, <1>3, <2>1 DEF Live
  <2>3. sq = <<>>
    BY <1>2, <2>2
  <2>4. Answerable \subseteq {None}
    BY <1>1, <2>1 DEF Ordered, LiveInv
  <2>5. None \notin Answerable'
    BY DEF None
  <2>. QED
    BY <1>1, <2>3, <2>4, <2>5
<1>6. AnswersItsOwn'
  BY <1>1 DEF Ordered, AnswersItsOwn
<1>. QED
  BY <1>4, <1>5, <1>6 DEF Ordered

\* The loop takes a decision: it is for the request that waits, and nothing but
\* what ends the turn follows it.
LEMMA QueueReceive ==
    ASSUME Shape, Ordered, Receive, Answerable' \subseteq Answerable
    PROVE  Ordered'
<1>. DEFINE op == sq[1]
<1>1. /\ sq \in Seq(OpSet) /\ DOMAIN sq = 1..Len(sq) /\ Len(sq) \in Nat \ {0}
      /\ Head(sq) = op
  BY DEF Receive, Shape
<1>2. /\ sq' = Tail(sq) /\ waiting' = None
      /\ turn' = IF Ends(op) THEN "over" ELSE turn
      /\ answered' = IF Ends(op) \/ waiting = None THEN answered
                     ELSE answered \cup {<<waiting, op>>}
  BY <1>1 DEF Receive, Ends
<1>3. /\ DOMAIN sq' = 1..(Len(sq) - 1)
      /\ \A i \in 1..(Len(sq) - 1) : sq'[i] = sq[i + 1]
  BY <1>1, <1>2
<1>. HIDE DEF op
<1>4. turn \in {"running", "over"} /\ (turn = "over" => waiting = None)
  BY DEF Shape, TypeOK, Ordered, QueueInv
<1>5. ASSUME turn = "running", ~Ends(op)
      PROVE  /\ op.for = waiting
             /\ \A i \in DOMAIN sq' : ~(\A j \in 1..i : ~Ends(sq'[j]))
  <2>0. \A i \in DOMAIN sq : (\A j \in 1..i : ~Ends(sq[j])) =>
            i = 1 /\ waiting # None /\ sq[1].for = waiting
    BY <1>5 DEF Ordered, QueueInv
  <2>1. 1 \in DOMAIN sq /\ \A j \in 1..1 : ~Ends(sq[j])
    BY <1>1, <1>5 DEF op
  <2>2. op.for = waiting
    BY <2>0, <2>1 DEF op
  <2>3. ASSUME NEW i \in DOMAIN sq', \A j \in 1..i : ~Ends(sq'[j])
        PROVE  FALSE
    <3>1. i \in 1..(Len(sq) - 1) /\ i + 1 \in DOMAIN sq
      BY <1>1, <1>3
    <3>2. ASSUME NEW j \in 1..(i + 1) PROVE ~Ends(sq[j])
      <4>1. CASE j = 1
        BY <1>5, <4>1 DEF op
      <4>2. CASE j # 1
        <5>1. j - 1 \in 1..i /\ j - 1 \in 1..(Len(sq) - 1)
          BY <1>1, <3>1, <4>2
        <5>2. sq'[j - 1] = sq[(j - 1) + 1] /\ (j - 1) + 1 = j
          BY <1>3, <3>1, <5>1
        <5>. QED
          BY <2>3, <5>1, <5>2
      <4>. QED
        BY <4>1, <4>2
    <3>3. i + 1 = 1
      BY <2>0, <3>1, <3>2
    <3>. QED
      BY <3>1, <3>3, <1>1
  <2>. QED
    BY <2>2, <2>3
<1>6. QueueInv'
  <2>1. ASSUME turn' = "running", NEW i \in DOMAIN sq', \A j \in 1..i : ~Ends(sq'[j])
        PROVE  FALSE
    BY <1>2, <1>5, <2>1
  <2>. QED
    BY <1>2, <2>1 DEF QueueInv, Ends
<1>7. AnswersItsOwn'
  <2>1. CASE Ends(op) \/ waiting = None
    BY <1>2, <2>1 DEF Ordered, AnswersItsOwn
  <2>2. CASE ~Ends(op) /\ waiting # None
    <3>1. op.for = waiting
      BY <1>4, <1>5, <2>2
    <3>. QED
      BY <1>2, <2>2, <3>1 DEF Ordered, AnswersItsOwn
  <2>. QED
    BY <2>1, <2>2
<1>8. LiveInv'
  <2>1. SUFFICES ASSUME Live' PROVE Answerable' = {}
    BY DEF LiveInv
  <2>2. turn = "running" /\ ~Ends(op) /\ \A i \in DOMAIN sq' : ~Ends(sq'[i])
    BY <1>2, <1>4, <2>1 DEF Live, Ends
  <2>3. ASSUME NEW i \in DOMAIN sq PROVE ~Ends(sq[i])
    <3>1. CASE i = 1
      BY <2>2, <3>1 DEF op
    <3>2. CASE i # 1
      <4>1. i - 1 \in 1..(Len(sq) - 1) /\ (i - 1) + 1 = i
        BY <1>1, <3>2
      <4>2. sq'[i - 1] = sq[i] /\ i - 1 \in DOMAIN sq'
        BY <1>3, <4>1
      <4>. QED
        BY <2>2, <4>2
    <3>. QED
      BY <3>1, <3>2
  <2>4. Live /\ sq # <<>>
    BY <1>1, <2>2, <2>3 DEF Live
  <2>. QED
    BY <2>4 DEF Ordered, LiveInv
<1>. QED
  BY <1>6, <1>7, <1>8 DEF Ordered

\* The turn is over: no decision is applied any more.
LEMMA QueueOver ==
    ASSUME Ordered, turn' = "over", waiting' = None, UNCHANGED answered
    PROVE  Ordered'
<1>1. QueueInv' /\ LiveInv'
  BY DEF QueueInv, LiveInv, Live
<1>2. AnswersItsOwn'
  BY DEF Ordered, AnswersItsOwn
<1>. QED
  BY <1>1, <1>2 DEF Ordered

\* Every step keeps the order of the queue.
LEMMA QueueKept ==
    ASSUME ApprovalInv, Next
    PROVE  Ordered'
<1>. USE DEF ApprovalInv
<1>0. Ordered /\ Placed /\ Shape
  BY DEF Ordered, Placed
<1>00. /\ Placed'
       /\ Answerable' \subseteq Answerable \/ (Ask /\ Answerable' \subseteq Answerable \cup {asked + 1})
  BY PlacesKept
<1>. DEFINE Still == UNCHANGED <<turn, waiting, answered>>
<1>1. CASE Ask
  <2>1. Answerable' \subseteq Answerable \cup {asked + 1}
    BY <1>00
  <2>2. Answerable' \subseteq 1..asked'
    BY <1>00 DEF Placed, FreshInv
  <2>3. asked' \in Nat
    BY <1>1, ApprovalsAssumption DEF Ask, Shape, TypeOK
  <2>4. Answerable' \subseteq Nat \ {0}
    BY <2>2, <2>3
  <2>. QED
    BY <1>0, <1>1, <2>1, <2>4, QueueAsk
<1>2. CASE ~Ask
  <2>0. Answerable' \subseteq Answerable
    BY <1>00, <1>2
  <2>1. CASE Receive
    BY <1>0, <2>0, <2>1, QueueReceive
  <2>2. CASE \E type \in {"complete", "error"} : EndTurn(type)
    <3>1. turn' = "over" /\ waiting' = None /\ UNCHANGED answered
      BY <2>2 DEF EndTurn
    <3>. QED
      BY <1>0, <3>1, QueueOver
  <2>3. CASE Crash
    <3>1. turn' = "over" /\ waiting' = None /\ UNCHANGED answered
      BY <2>3 DEF Crash
    <3>. QED
      BY <1>0, <3>1, QueueOver
  <2>4. CASE Interrupt
    <3>1. Op(None, "interrupt") \in OpSet /\ Op(None, "interrupt").decision = "interrupt"
      BY OpType DEF OpKinds
    <3>2. Ends(Op(None, "interrupt")) /\ Still /\ sq' = Append(sq, Op(None, "interrupt"))
      BY <2>4, <3>1 DEF Interrupt, Ends
    <3>. QED
      BY <1>0, <3>1, <3>2, QueueEnds
  <2>5. CASE RejectSubmission \/ \E r \in Requests : Expire(r)
    <3>1. Still /\ UNCHANGED sq
      BY <2>5 DEF RejectSubmission, Expire, coreVars
    <3>. QED
      BY <1>0, <2>0, <3>1, QueueSame
  <2>6. CASE NextEvent
    <3>1. Still
      BY <2>6 DEF NextEvent
    <3>2. CASE UNCHANGED sq
      BY <1>0, <2>0, <3>1, <3>2, QueueSame
    <3>3. CASE ~UNCHANGED sq
      <4>1. /\ Head(events).type = "ask" /\ mode \notin Attended /\ events # <<>>
            /\ Submit(Op(Head(events).r, "deny"))
        BY <2>6, <3>3 DEF NextEvent
      <4>2. Head(events).r \in Requests
        <5>1. events \in Seq(EventSet)
          BY DEF Shape
        <5>2. 1 \in DOMAIN events /\ Head(events) = events[1]
          BY <4>1, <5>1
        <5>. QED
          BY <4>1, <5>2 DEF Shape
      <4>3. Head(events).r \in Answerable \ Answerable'
        BY <1>0, <2>6, <4>1, NextEventPlaces
      <4>. QED
        BY <1>0, <2>0, <3>1, <4>1, <4>2, <4>3, SubmitQueue DEF OpKinds
    <3>. QED
      BY <3>2, <3>3
  <2>7. CASE PersistPending
    <3>1. Still
      BY <2>7 DEF PersistPending
    <3>2. CASE UNCHANGED sq
      BY <1>0, <2>0, <3>1, <3>2, QueueSame
    <3>3. CASE ~UNCHANGED sq
      <4>1. Submit(Op(current, "deny")) /\ ipc' # "insert"
        BY <2>7, <3>3 DEF PersistPending, Ended
      <4>2. current \in Requests /\ current \in Answerable \ Answerable'
        BY <1>0, <2>7, <4>1, PersistPlaces
      <4>. QED
        BY <1>0, <2>0, <3>1, <4>1, <4>2, SubmitQueue DEF OpKinds
    <3>. QED
      BY <3>2, <3>3
  <2>8. CASE AbortPending
    <3>1. Still /\ Submit(Op(current, "abort")) /\ current \in {None} \cup Requests
      BY <2>8 DEF AbortPending, Shape, TypeOK
    <3>. QED
      BY <1>0, <2>0, <3>1, SubmitQueue DEF OpKinds
  <2>9. CASE StreamCleanup \/ CleanUpSession
    <3>1. Still /\ Submit(Op(None, "shutdown"))
      BY <2>9 DEF StreamCleanup, CleanUpSession, Shutdown
    <3>. QED
      BY <1>0, <2>0, <3>1, SubmitQueue DEF OpKinds
  <2>10. CASE CleanUpError
    <3>1. Still /\ (Submit(Op(None, "interrupt")) \/ UNCHANGED sq)
      BY <2>10 DEF CleanUpError
    <3>. QED
      BY <1>0, <2>0, <3>1, SubmitQueue, QueueSame DEF OpKinds
  <2>11. CASE \/ Register \/ GiveUp \/ Timeout \/ Finish \/ RemoveSession \/ Cancel
              \/ DropInvocation
              \/ Invalidate \/ InvalidateSession \/ ResumeSession \/ ListPendingApprovals
              \/ \E a \in Actors : PersistTerminal(a)
    <3>1. Still /\ UNCHANGED sq
      BY <2>11 DEF Register, GiveUp, Timeout, Finish, RemoveSession, Cancel, DropInvocation,
                   Invalidate, InvalidateSession, ResumeSession, ListPendingApprovals,
                   PersistTerminal, coreVars
    <3>. QED
      BY <1>0, <2>0, <3>1, QueueSame
  <2>12. ASSUME NEW x \in Resolvers, Deliver(x) PROVE Ordered'
    <3>1. Still /\ Submit(Op(Target(x), call[x].choice)) /\ call[x].pc = "deliver"
      BY <2>12 DEF Deliver, Step
    <3>2. Target(x) \in Requests /\ Target(x) \in Answerable \ Answerable'
      BY <1>0, <2>12, DeliverPlaces
    <3>3. call[x].choice \in OpKinds
      BY <3>1, ApprovalsAssumption DEF Shape, OpKinds
    <3>. QED
      BY <1>0, <2>0, <3>1, <3>2, <3>3, SubmitQueue
  <2>13. ASSUME NEW x \in Resolvers,
                \/ Take(x) \/ TakeNothing(x) \/ DeliverStray(x) \/ DeliverFails(x) \/ Audit(x)
                \/ FindPending(x) \/ ResolveLegacy(x) \/ Disconnect(x)
                \/ \E r \in Requests \cup {Any}, d \in Decisions : Reply(x, r, d)
         PROVE  Ordered'
    <3>1. Still /\ UNCHANGED sq
      BY <2>13 DEF Take, TakeNothing, DeliverStray, DeliverFails, Audit, FindPending,
                   ResolveLegacy, Disconnect, Reply, coreVars
    <3>. QED
      BY <1>0, <2>0, <3>1, QueueSame
  <2>14. Gateway \in Actors /\ Policy \in Actors /\ Resolvers \subseteq Actors
    BY DEF Actors
  <2>. QED
    BY <1>2, <2>1, <2>2, <2>3, <2>4, <2>5, <2>6, <2>7, <2>8, <2>9, <2>10, <2>11, <2>12,
       <2>13, <2>14 DEF Next, CoreStep, InvocationStep, Resolve
<1>. QED
  BY <1>1, <1>2

----------------------------------------------------------------------------
(* The end of the invocation                                                *)

NoShutdownQueued == \A i \in DOMAIN sq : sq[i].decision # "shutdown"

\* A decision other than a shutdown joins the queue, or the loop has ended.
LEMMA SubmitNoShutdown ==
    ASSUME Shape, NoShutdownQueued, NEW r \in {None} \cup Requests,
           NEW d \in OpKinds \ {"shutdown"}, Submit(Op(r, d))
    PROVE  NoShutdownQueued'
<1>. DEFINE op == Op(r, d)
<1>1. op \in OpSet /\ op.decision = d
  BY OpType
<1>. HIDE DEF op
<1>2. CASE sq' = sq
  BY <1>2 DEF NoShutdownQueued
<1>3. CASE sq' = Append(sq, op)
  <2>1. /\ DOMAIN sq = 1..Len(sq) /\ Len(sq) \in Nat
        /\ DOMAIN sq' = 1..(Len(sq) + 1)
        /\ sq'[Len(sq) + 1] = op
        /\ \A i \in 1..Len(sq) : sq'[i] = sq[i]
    BY <1>1, <1>3, AppendFacts
  <2>2. ASSUME NEW i \in DOMAIN sq' PROVE sq'[i].decision # "shutdown"
    <3>1. CASE i = Len(sq) + 1
      BY <1>1, <2>1, <3>1
    <3>2. CASE i # Len(sq) + 1
      BY <2>1, <3>2 DEF NoShutdownQueued
    <3>. QED
      BY <3>1, <3>2
  <2>. QED
    BY <2>2 DEF NoShutdownQueued
<1>. QED
  BY <1>2, <1>3 DEF Submit, op

\* The invocation keeps its mode.
LEMMA ModeKept == ASSUME Next PROVE mode' = mode
  BY DEF Next, CoreStep, Ask, EndTurn, RejectSubmission, Receive, Interrupt, Expire,
         InvocationStep, NextEvent, PersistPending, Register, GiveUp, AbortPending, Timeout,
         Finish, StreamCleanup, CleanUpError, CleanUpSession, RemoveSession, PersistTerminal,
         Cancel, DropInvocation, Invalidate, InvalidateSession, ResumeSession, Resolve, Take,
         TakeNothing, Deliver, DeliverStray, DeliverFails, Audit, FindPending, ResolveLegacy, Disconnect, Reply,
         ListPendingApprovals, Crash

\* What an unattended invocation is asked it denies at once, and nothing gets into
\* the registry.
LEMMA UnaskedKept ==
    ASSUME ApprovalInv, Next, mode' = mode
    PROVE  UnaskedInv'
<1>. SUFFICES ASSUME mode \notin Attended
              PROVE  mem' = {} /\ Holders' = {} /\ ipc' \notin {"store", "insert"}
  BY DEF UnaskedInv
<1>. USE DEF ApprovalInv
<1>0. Shape /\ mem = {} /\ Holders = {} /\ ipc \notin {"store", "insert"}
  BY DEF UnaskedInv
<1>1. ASSUME UNCHANGED call PROVE Holders' = {}
  BY <1>0, <1>1 DEF Holders
<1>2. CASE CoreStep \/ Interrupt \/ \E r \in Requests : Expire(r)
  <2>1. UNCHANGED <<mem, call, ipc>>
    BY <1>2 DEF CoreStep, Ask, EndTurn, RejectSubmission, Receive, Interrupt, Expire,
                invVars, resolverVars
  <2>. QED
    BY <1>0, <1>1, <2>1
<1>3. CASE InvocationStep \/ Cancel \/ DropInvocation
  <2>1. UNCHANGED call
    BY <1>3 DEF InvocationStep, NextEvent, PersistPending, Register, GiveUp, AbortPending,
                Timeout, Finish, StreamCleanup, CleanUpError, CleanUpSession, RemoveSession,
                PersistTerminal, Cancel, DropInvocation, resolverVars
  <2>2. ~PersistPending /\ ~Register
    BY <1>0 DEF PersistPending, Register, At
  <2>3. mem' \subseteq mem
    BY <1>3, <2>2 DEF InvocationStep, NextEvent, GiveUp, AbortPending, Timeout, Finish,
                StreamCleanup, CleanUpError, CleanUpSession, RemoveSession, PersistTerminal,
                Cancel, DropInvocation, Remove, RemoveInvocationApprovals
  <2>4. ipc' \notin {"store", "insert"}
    BY <1>0, <1>3, <2>2 DEF InvocationStep, NextEvent, GiveUp, AbortPending, Timeout, Finish,
                StreamCleanup, CleanUpError, CleanUpSession, RemoveSession, PersistTerminal,
                Cancel, DropInvocation, Ended, invVars
  <2>. QED
    BY <1>0, <1>1, <2>1, <2>3, <2>4
<1>4. CASE \/ Invalidate \/ InvalidateSession \/ ResumeSession \/ PersistTerminal(Policy)
           \/ ListPendingApprovals
  <2>1. UNCHANGED <<call, ipc>> /\ mem' \subseteq mem
    BY <1>4 DEF Invalidate, InvalidateSession, ResumeSession, PersistTerminal,
                ListPendingApprovals, Remove, invVars, resolverVars
  <2>. QED
    BY <1>0, <1>1, <2>1
<1>5. CASE Crash
  <2>1. \A x \in Resolvers : call'[x] = Over \/ (call'[x] = call[x] /\ call[x].pc = "idle")
    BY <1>5 DEF Crash
  <2>2. Over.pc = "done"
    BY DEF Over
  <2>. QED
    BY <1>5, <2>1, <2>2 DEF Crash, Holders
<1>6. ASSUME NEW x \in Resolvers,
             \/ Resolve(x) \/ Disconnect(x)
             \/ \E r \in Requests \cup {Any}, d \in Decisions : Reply(x, r, d)
      PROVE  mem' = {} /\ Holders' = {} /\ ipc' \notin {"store", "insert"}
  <2>1. call[x].pc # "deliver"
    BY <1>0 DEF Holders
  <2>2. ~Take(x) /\ ~Deliver(x) /\ ~DeliverStray(x) /\ ~DeliverFails(x)
    BY <1>0, <2>1 DEF Take, Deliver, DeliverStray, DeliverFails, Step
  <2>3. mem' \subseteq mem /\ UNCHANGED ipc
    BY <1>6, <2>2 DEF Resolve, TakeNothing, Audit, FindPending, ResolveLegacy, PersistTerminal,
                      Disconnect, Reply, Remove, invVars
  <2>4. Target(x) \in Requests \cup {None, Any}
    BY DEF Shape, TypeOK
  <2>5. call \in [Resolvers -> CallSet]
    BY DEF Shape
  <2>6. /\ call'[x].pc # "deliver"
        /\ \A y \in Resolvers \ {x} : call'[y] = call[y]
    <3>1. CASE PersistTerminal(x)
      BY <2>1, <3>1 DEF PersistTerminal, resolverVars
    <3>2. CASE Disconnect(x)
      BY <2>5, <3>2 DEF Disconnect, Over
    <3>3. ASSUME NEW r \in Requests \cup {Any}, NEW d \in Decisions, Reply(x, r, d)
          PROVE  /\ call'[x].pc # "deliver"
                 /\ \A y \in Resolvers \ {x} : call'[y] = call[y]
      BY <2>5, <3>3 DEF Reply
    <3>4. CASE TakeNothing(x) \/ Audit(x) \/ FindPending(x) \/ ResolveLegacy(x)
      <4>1. PICK from \in {"take", "audit", "find", "legacy"}, to \in {"find", "legacy", "done"},
                 r \in Requests \cup {None, Any} : Step(x, from, to, r)
        BY <2>4, <3>4 DEF TakeNothing, Audit, FindPending, ResolveLegacy
      <4>. QED
        BY <1>0, <4>1, StepFacts
    <3>. QED
      BY <1>6, <2>2, <3>1, <3>2, <3>3, <3>4 DEF Resolve
  <2>7. Holders' = {}
    BY <1>0, <2>6 DEF Holders
  <2>. QED
    BY <1>0, <2>3, <2>7
<1>. QED
  BY <1>2, <1>3, <1>4, <1>5, <1>6 DEF Next

\* A session that outlives the invocation is not shut down by anybody.
LEMMA NobodyShutsDown ==
    ASSUME ApprovalInv, Lasting, Next
    PROVE  NoShutdownQueued'
<1>. USE DEF ApprovalInv
<1>0. Shape /\ NoShutdownQueued /\ ipc \notin {"cleanup", "shutdown", "unlist", "leave"}
  BY DEF EndInv, NoShutdownQueued
<1>1. CASE Receive
  <2>1. sq \in Seq(OpSet) /\ sq # <<>> /\ sq' = Tail(sq)
    BY <1>1 DEF Receive, Shape
  <2>2. /\ DOMAIN sq = 1..Len(sq) /\ Len(sq) \in Nat
        /\ DOMAIN sq' = 1..(Len(sq) - 1)
        /\ \A i \in 1..(Len(sq) - 1) : sq'[i] = sq[i + 1] /\ i + 1 \in 1..Len(sq)
    BY <2>1
  <2>. QED
    BY <1>0, <2>2 DEF NoShutdownQueued
<1>2. CASE Interrupt
  <2>1. Submit(Op(None, "interrupt"))
    BY <1>2 DEF Interrupt, Submit
  <2>. QED
    BY <1>0, <2>1, SubmitNoShutdown DEF OpKinds
<1>3. CASE UNCHANGED sq
  BY <1>0, <1>3 DEF NoShutdownQueued
<1>4. CASE Crash
  BY <1>4 DEF Crash, NoShutdownQueued
<1>5. CASE NextEvent
  <2>1. CASE Submit(Op(Head(events).r, "deny")) /\ Head(events).type = "ask"
    <3>1. events \in Seq(EventSet) /\ events # <<>>
      BY <1>5 DEF Shape, NextEvent
    <3>2. 1 \in DOMAIN events /\ Head(events) = events[1]
      BY <3>1
    <3>3. Head(events).r \in Requests
      BY <2>1, <3>2 DEF Shape
    <3>. QED
      BY <1>0, <2>1, <3>3, SubmitNoShutdown DEF OpKinds
  <2>. QED
    BY <1>3, <1>5, <2>1 DEF NextEvent
<1>6. CASE PersistPending \/ AbortPending
  <2>1. current \in {None} \cup Requests
    BY DEF Shape, TypeOK
  <2>2. Submit(Op(current, "deny")) \/ Submit(Op(current, "abort")) \/ UNCHANGED sq
    BY <1>6 DEF PersistPending, AbortPending
  <2>. QED
    BY <1>0, <1>3, <2>1, <2>2, SubmitNoShutdown DEF OpKinds
<1>7. CASE CleanUpError
  <2>1. Submit(Op(None, "interrupt")) \/ UNCHANGED sq
    BY <1>7 DEF CleanUpError
  <2>. QED
    BY <1>0, <1>3, <2>1, SubmitNoShutdown DEF OpKinds
<1>8. ASSUME NEW x \in Resolvers, Deliver(x) PROVE NoShutdownQueued'
  <2>1. Submit(Op(Target(x), call[x].choice)) /\ call[x].pc = "deliver"
    BY <1>8 DEF Deliver, Step
  <2>2. Target(x) \in Requests /\ call[x].choice \in OpKinds \ {"shutdown"}
    BY <2>1, ApprovalsAssumption DEF Shape, OpKinds
  <2>. QED
    BY <1>0, <2>1, <2>2, SubmitNoShutdown
<1>9. CASE \/ \E type \in {"complete", "error"} : EndTurn(type)
           \/ Ask \/ RejectSubmission \/ \E r \in Requests : Expire(r)
           \/ Register \/ GiveUp \/ Timeout \/ Finish \/ RemoveSession \/ Cancel
           \/ DropInvocation
           \/ Invalidate \/ InvalidateSession \/ ResumeSession \/ ListPendingApprovals
           \/ PersistTerminal(Gateway) \/ PersistTerminal(Policy)
  <2>1. UNCHANGED sq
    BY <1>9 DEF EndTurn, Ask, RejectSubmission, Expire, Register, GiveUp, Timeout, Finish,
                RemoveSession, Cancel, DropInvocation, Invalidate, InvalidateSession,
                ResumeSession, ListPendingApprovals, PersistTerminal, coreVars
  <2>. QED
    BY <1>3, <2>1
<1>10. ASSUME NEW x \in Resolvers,
              \/ Take(x) \/ TakeNothing(x) \/ DeliverStray(x) \/ DeliverFails(x) \/ Audit(x)
              \/ FindPending(x) \/ ResolveLegacy(x) \/ Disconnect(x) \/ PersistTerminal(x)
              \/ \E r \in Requests \cup {Any}, d \in Decisions : Reply(x, r, d)
       PROVE  NoShutdownQueued'
  <2>1. UNCHANGED sq
    BY <1>10 DEF Take, TakeNothing, DeliverStray, DeliverFails, Audit, FindPending,
                 ResolveLegacy, Disconnect, Reply, PersistTerminal, coreVars
  <2>. QED
    BY <1>3, <2>1
<1>11. ~StreamCleanup /\ ~CleanUpSession
  BY <1>0 DEF StreamCleanup, CleanUpSession, At
<1>. QED
  BY <1>1, <1>2, <1>4, <1>5, <1>6, <1>7, <1>8, <1>9, <1>10, <1>11
  DEF Next, CoreStep, InvocationStep, Resolve

\* A step of anybody but the invocation: it is where it was, and no request comes
\* back into the registry while its own session is listed.
LEMMA EndSame ==
    ASSUME EndInv, Lasting => NoShutdownQueued', UNCHANGED <<mode, loop, ipc, outcome>>,
           listed' = "emitter" => listed = "emitter",
           listed' = "emitter" /\ loop = "open" => mem' \subseteq mem,
           loop \in {"open", "closed"}
    PROVE  EndInv'
<1>1. mode' = "forked" /\ ipc' = "over" => listed' # "emitter"
  BY DEF EndInv
<1>2. ASSUME Lasting
      PROVE  /\ NoShutdownQueued'
             /\ loop' = "closed" => listed' # "emitter"
             /\ outcome' # "cancelled"
             /\ ipc' \notin {"cleanup", "shutdown", "unlist", "leave"}
             /\ ipc' = "result" /\ outcome' = "ok" /\ mem' # {} => listed' # "emitter"
             /\ ipc' = "over" /\ mem' # {} => listed' # "emitter"
  <2>1. /\ loop = "closed" => listed # "emitter"
        /\ outcome # "cancelled"
        /\ ipc \notin {"cleanup", "shutdown", "unlist", "leave"}
        /\ ipc = "result" /\ outcome = "ok" /\ mem # {} => listed # "emitter"
        /\ ipc = "over" /\ mem # {} => listed # "emitter"
    BY <1>2 DEF EndInv
  <2>2. listed' = "emitter" => mem' \subseteq mem
    BY <2>1
  <2>. QED
    BY <1>2, <2>1, <2>2
<1>. QED
  BY <1>1, <1>2 DEF EndInv, Lasting, NoShutdownQueued

\* Every step does.
LEMMA EndKept ==
    ASSUME ApprovalInv, Next
    PROVE  EndInv'
<1>. USE DEF ApprovalInv
<1>0. /\ Shape /\ EndInv /\ loop \in {"open", "closed"} /\ mem \subseteq Requests
      /\ mode \in Modes
  BY DEF Shape, TypeOK
<1>00. Lasting => NoShutdownQueued'
  BY NobodyShutsDown
<1>000. mode' = mode
  BY ModeKept
<1>1. CASE Receive
  <2>1. UNCHANGED <<ipc, outcome, listed, mem>> /\ loop = "open"
    BY <1>1 DEF Receive, invVars
  <2>2. CASE loop' = loop
    BY <1>0, <1>00, <1>000, <2>1, <2>2, EndSame
  <2>3. CASE ~Lasting
    BY <1>000, <2>1, <2>3 DEF EndInv, Lasting
  <2>4. CASE Lasting
    <3>1. sq \in Seq(OpSet) /\ sq # <<>>
      BY <1>1 DEF Receive, Shape
    <3>2. 1 \in DOMAIN sq /\ Head(sq) = sq[1]
      BY <3>1
    <3>3. Head(sq).decision # "shutdown"
      BY <2>4, <3>2 DEF EndInv
    <3>4. loop' = loop
      BY <1>1, <3>3 DEF Receive
    <3>. QED
      BY <2>2, <3>4
  <2>. QED
    BY <2>2, <2>3, <2>4
<1>2. CASE \/ \E type \in {"complete", "error"} : EndTurn(type)
           \/ Ask \/ RejectSubmission \/ Interrupt \/ \E r \in Requests : Expire(r)
           \/ Invalidate \/ InvalidateSession \/ ResumeSession \/ ListPendingApprovals
           \/ \E a \in Actors : PersistTerminal(a)
  <2>1. UNCHANGED <<loop, ipc, outcome>>
    BY <1>2 DEF EndTurn, Ask, RejectSubmission, Interrupt, Expire, Invalidate,
                InvalidateSession, ResumeSession, ListPendingApprovals, PersistTerminal,
                coreVars, invVars
  <2>2. UNCHANGED listed \/ listed' \in {"none", "resumed"}
    BY <1>2 DEF EndTurn, Ask, RejectSubmission, Interrupt, Expire, Invalidate,
                InvalidateSession, ResumeSession, ListPendingApprovals, PersistTerminal
  <2>3. UNCHANGED mem \/ Remove(Policy, mem)
    BY <1>2 DEF EndTurn, Ask, RejectSubmission, Interrupt, Expire, Invalidate,
                InvalidateSession, ResumeSession, ListPendingApprovals, PersistTerminal
  <2>4. mem' \subseteq mem
    BY <2>3 DEF Remove
  <2>. QED
    BY <1>0, <1>00, <1>000, <2>1, <2>2, <2>4, EndSame
<1>3. ASSUME NEW x \in Resolvers,
             \/ Take(x) \/ TakeNothing(x) \/ Deliver(x) \/ DeliverStray(x)
             \/ DeliverFails(x) \/ Audit(x) \/ FindPending(x) \/ ResolveLegacy(x) \/ Disconnect(x)
             \/ \E r \in Requests \cup {Any}, d \in Decisions : Reply(x, r, d)
      PROVE  EndInv'
  <2>1. UNCHANGED <<loop, ipc, outcome, listed>>
    BY <1>3 DEF Take, TakeNothing, Deliver, DeliverStray, DeliverFails, Audit, FindPending,
                ResolveLegacy, Disconnect, Reply, coreVars, invVars
  <2>2. listed' = "emitter" /\ loop = "open" => mem' \subseteq mem
    BY <1>3, <2>1 DEF Take, TakeNothing, Deliver, DeliverStray, DeliverFails, Audit,
                FindPending, ResolveLegacy, Disconnect, Reply, Remove
  <2>. QED
    BY <1>0, <1>00, <1>000, <2>1, <2>2, EndSame
<1>4. CASE Crash
  BY <1>00, <1>000, <1>4 DEF Crash, EndInv, Lasting, NoShutdownQueued
<1>5. CASE mode \notin Attended
  BY <1>000, <1>5 DEF EndInv, Lasting, Attended
<1>6. CASE mode \in Attended /\ (InvocationStep \/ Cancel \/ DropInvocation)
  <2>1. CASE PersistTerminal(Gateway)
    BY <1>2, <2>1 DEF Actors
  <2>2. CASE /\ ipc' \notin {"result", "over", "cleanup", "shutdown", "unlist", "leave"}
             /\ UNCHANGED <<loop, listed>> /\ (Lasting => outcome' # "cancelled")
    BY <1>00, <1>000, <2>2 DEF EndInv, Lasting, NoShutdownQueued
  <2>3. CASE /\ ipc' = Ended /\ UNCHANGED <<loop, listed>>
             /\ (Lasting => outcome' = "error" \/ (outcome' = outcome /\ mem' = {}))
    BY <1>00, <1>000, <2>3 DEF EndInv, Lasting, NoShutdownQueued, Ended
  <2>4. CASE CleanUpError
    <3>1. UNCHANGED <<loop, listed, outcome>> /\ ipc = "result"
      BY <2>4 DEF CleanUpError, At
    <3>2. CASE ~Lasting
      <4>1. ipc' = "shutdown"
        BY <1>6, <2>4, <3>2 DEF CleanUpError, Lasting, Attended, Persistent
      <4>. QED
        BY <1>000, <3>2, <4>1 DEF EndInv, Lasting
    <3>3. CASE Lasting
      <4>1. ipc' = "over" /\ outcome \in {"ok", "error"}
        BY <2>4, <3>3 DEF CleanUpError, Lasting, Persistent, EndInv, Shape
      <4>2. mem' # {} => listed # "emitter"
        <5>1. CASE outcome = "error"
          BY <1>0, <2>4, <5>1 DEF CleanUpError, RemoveInvocationApprovals, Remove
        <5>2. CASE outcome = "ok"
          BY <2>4, <3>1, <3>3, <5>2 DEF CleanUpError, EndInv
        <5>. QED
          BY <4>1, <5>1, <5>2
      <4>. QED
        BY <1>00, <1>000, <3>1, <3>3, <4>1, <4>2 DEF EndInv, Lasting, NoShutdownQueued
    <3>. QED
      BY <3>2, <3>3
  <2>5. CASE RemoveSession
    <3>1. ipc \in {"unlist", "leave"} /\ listed' = "none"
      BY <2>5 DEF RemoveSession, At
    <3>2. ~Lasting
      BY <3>1 DEF EndInv
    <3>. QED
      BY <1>000, <3>1, <3>2 DEF EndInv, Lasting
  <2>6. CASE StreamCleanup \/ CleanUpSession
    <3>1. ipc \in {"cleanup", "shutdown"} /\ ipc' # "over"
      BY <2>6 DEF StreamCleanup, CleanUpSession, At
    <3>2. ~Lasting
      BY <3>1 DEF EndInv
    <3>. QED
      BY <1>000, <3>1, <3>2 DEF EndInv, Lasting
  <2>7. CASE Register \/ GiveUp \/ AbortPending \/ Timeout
    <3>1. UNCHANGED <<loop, listed>>
      BY <2>7 DEF Register, GiveUp, AbortPending, Timeout, coreVars
    <3>2. \/ ipc' = Ended /\ outcome' = "error"
          \/ ipc' \in {"loop", "abort"} /\ (outcome' = outcome \/ outcome' = "error")
      BY <2>7 DEF Register, GiveUp, AbortPending, Timeout
    <3>3. Lasting => outcome # "cancelled"
      BY DEF EndInv
    <3>. QED
      BY <2>2, <2>3, <3>1, <3>2, <3>3
  <2>8. CASE NextEvent \/ PersistPending
    <3>1. UNCHANGED <<loop, listed>>
      BY <2>8 DEF NextEvent, PersistPending
    <3>2. \/ ipc' = Ended /\ outcome' = "error"
          \/ ipc' \in {"loop", "store", "insert", "forget"} /\ outcome' = outcome
      BY <2>8 DEF NextEvent, PersistPending, At
    <3>3. Lasting => outcome # "cancelled"
      BY DEF EndInv
    <3>. QED
      BY <2>2, <2>3, <3>1, <3>2, <3>3
  <2>9. CASE Finish
    <3>1. UNCHANGED <<loop, listed, outcome>> /\ ipc' = Ended
      BY <2>9 DEF Finish, coreVars
    <3>2. mem' = {}
      BY <1>0, <2>9 DEF Finish, RemoveInvocationApprovals, Remove
    <3>. QED
      BY <2>3, <3>1, <3>2
  <2>10. ~Cancel /\ ~DropInvocation
    BY <1>6 DEF Cancel, DropInvocation, Attended
  <2>. QED
    BY <1>6, <2>1, <2>4, <2>5, <2>6, <2>7, <2>8, <2>9, <2>10 DEF InvocationStep
<1>7. Gateway \in Actors /\ Policy \in Actors /\ Resolvers \subseteq Actors
  BY DEF Actors
<1>. QED
  BY <1>1, <1>2, <1>3, <1>4, <1>5, <1>6, <1>7 DEF Next, CoreStep, Resolve

----------------------------------------------------------------------------
(* The theorems                                                             *)

\* Initially no request is anywhere.
LEMMA InitInv == Init => ApprovalInv
<1>. SUFFICES ASSUME Init PROVE ApprovalInv
  OBVIOUS
<1>1. PICK idle : idle = [Over EXCEPT !.pc = "idle"]
  OBVIOUS
<1>2. /\ idle \in CallSet /\ idle.pc = "idle" /\ idle.target = None /\ idle.choice = "none"
  BY <1>1 DEF Over, CallSet
<1>3. call = [x \in Resolvers |-> idle]
  BY <1>1 DEF Init
<1>4. /\ call \in [Resolvers -> CallSet]
      /\ \A x \in Resolvers : call[x].pc = "idle" /\ Target(x) = None
  BY <1>2, <1>3 DEF Target
<1>5. /\ store = EmptyStore /\ store.pending = {} /\ store.resolved = {}
      /\ store \in StoreSet
  BY DEF Init, EmptyStore, StoreSet
<1>6. Shape
  <2>1. TypeOK
    BY <1>4, <1>5, ApprovalsAssumption DEF Init, TypeOK, StoreSet
  <2>2. sq \in Seq(OpSet) /\ events \in Seq(EventSet) /\ DOMAIN events = {}
    BY DEF Init
  <2>3. ipc \in InvPcs /\ ipc = "loop" /\ outcome \in {"ok", "error", "cancelled"}
    BY DEF Init, InvPcs
  <2>. QED
    BY <1>4, <2>1, <2>2, <2>3 DEF Shape
<1>7. None \notin Requests
  BY ApprovalsAssumption DEF None, Requests
<1>8. AskAt = {} /\ Queued = {} /\ Registering = {} /\ Coming = {} /\ mem = {}
  BY DEF Init, AskAt, Queued, Registering, Coming
<1>9. Holders = {} /\ Held = {} /\ Targets = {}
  BY <1>4, <1>7 DEF Holders, Held, Targets
<1>10. Closed = {} /\ Sent = {} /\ Denied = {}
  BY <1>5 DEF Init, Closed, Sent, Denied
<1>11. Answerable = {}
  BY <1>8, <1>9 DEF Answerable
<1>12. PlaceInv
  BY <1>8, <1>9 DEF PlaceInv, OneAsk, OneHolder
<1>13. DeadInv
  BY <1>10, <1>11 DEF DeadInv
<1>14. FreshInv
  BY <1>5, <1>8, <1>9, <1>10, <1>11 DEF FreshInv
<1>15. ResolverInv /\ DecisionInv /\ AuditTruthful
  BY <1>4, <1>5 DEF Init, ResolverInv, DecisionInv, AuditTruthful
<1>16. QueueInv /\ LiveInv /\ AnswersItsOwn
  BY <1>11 DEF Init, QueueInv, LiveInv, AnswersItsOwn
<1>17. UnaskedInv /\ EndInv
  BY <1>8, <1>9 DEF Init, UnaskedInv, EndInv
<1>. QED
  BY <1>6, <1>12, <1>13, <1>14, <1>15, <1>16, <1>17 DEF ApprovalInv

\* The inductive step.
LEMMA NextInv == ApprovalInv /\ Next => ApprovalInv'
<1>. SUFFICES ASSUME ApprovalInv, Next PROVE ApprovalInv'
  OBVIOUS
<1>1. Shape'
  <2>1. Shape
    BY DEF ApprovalInv
  <2>. QED
    BY <2>1, CoreShape, InvocationShape, OtherShape, ResolverShape DEF Next
<1>2. Placed'
  BY PlacesKept
<1>3. Audited'
  BY AuditKept
<1>4. Ordered'
  BY QueueKept
<1>5. UnaskedInv' /\ EndInv'
  BY ModeKept, UnaskedKept, EndKept
<1>. QED
  BY <1>1, <1>2, <1>3, <1>4, <1>5 DEF ApprovalInv, Placed, Audited, Ordered

\* The invariant is about the variables alone.
LEMMA StutterInv == ApprovalInv /\ UNCHANGED vars => ApprovalInv'
<1>. SUFFICES ASSUME ApprovalInv, UNCHANGED vars PROVE ApprovalInv'
  OBVIOUS
<1>. USE DEF vars, coreVars, invVars, resolverVars
<1>1. Shape'
  BY DEF ApprovalInv, Shape, TypeOK, Target
<1>2. /\ AskAt' = AskAt /\ Queued' = Queued /\ Registering' = Registering
      /\ Coming' = Coming /\ UNCHANGED mem
  BY DEF AskAt, Queued, Registering, Coming
<1>3. Holders' = Holders /\ Held' = Held /\ Targets' = Targets
  BY DEF Holders, Held, Targets, Target
<1>4. Closed' = Closed /\ Sent' = Sent /\ Denied' = Denied
  BY DEF Closed, Sent, Denied
<1>5. Answerable' = Answerable
  BY <1>2, <1>3 DEF Answerable
<1>6. OneAsk' = OneAsk /\ OneHolder' = OneHolder
  BY <1>2, <1>3 DEF OneAsk, OneHolder, Target
<1>7. PlaceInv' /\ DeadInv' /\ FreshInv'
  BY <1>2, <1>3, <1>4, <1>5, <1>6 DEF ApprovalInv, PlaceInv, DeadInv, FreshInv
<1>8. Audited'
  BY AuditUnchanged DEF ApprovalInv, Audited
<1>9. Ordered'
  BY <1>5, QueueSame DEF ApprovalInv, Ordered
<1>10. UnaskedInv' /\ EndInv'
  BY <1>3 DEF ApprovalInv, UnaskedInv, EndInv, Lasting
<1>. QED
  BY <1>1, <1>7, <1>8, <1>9, <1>10 DEF ApprovalInv, Audited, Ordered

\* ApprovalInv holds in every reachable state, for any number of requests,
\* resolvers and faults.
THEOREM ApprovalInvariant == Spec => []ApprovalInv
<1>1. ApprovalInv /\ [Next]_vars => ApprovalInv'
  BY NextInv, StutterInv
<1>. QED
  BY InitInv, <1>1, PTL DEF Spec

\* The registry, the file and the resolvers keep their types.
THEOREM TypeCorrect == Spec => []TypeOK
<1>1. ApprovalInv => TypeOK
  BY DEF ApprovalInv, Shape
<1>. QED
  BY <1>1, ApprovalInvariant, PTL

\* notify_approval wakes a request with a decision that was taken for this request,
\* although it finds the sender by the id of the turn only.
THEOREM DecisionsReachTheirRequest == Spec => []AnswersItsOwn
<1>1. ApprovalInv => AnswersItsOwn
  BY DEF ApprovalInv
<1>. QED
  BY <1>1, ApprovalInvariant, PTL

\* The audit trail of the approvals file says what Core was told, whatever the order
\* of replies, expiries, policy changes, failed writes and restarts.
THEOREM AuditIsTrue == Spec => []AuditTruthful
<1>1. ApprovalInv => AuditTruthful
  BY DEF ApprovalInv
<1>. QED
  BY <1>1, ApprovalInvariant, PTL

\* A request that a resolver restores after the invocation is over can no longer be
\* delivered to the session that emitted it: the session manager has none under its
\* id, or one that was resumed.
THEOREM LeftoversMissTheirSession == Spec => []LeftoversMissSession
<1>1. ASSUME ApprovalInv PROVE LeftoversMissSession
  <2>1. CASE mode \notin Attended
    BY <1>1, <2>1 DEF ApprovalInv, UnaskedInv, LeftoversMissSession
  <2>2. CASE mode \in Attended
    BY <1>1, <2>2 DEF ApprovalInv, EndInv, Lasting, Attended, LeftoversMissSession
  <2>. QED
    BY <2>1, <2>2
<1>. QED
  BY <1>1, ApprovalInvariant, PTL

=============================================================================
