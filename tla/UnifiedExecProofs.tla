-------------------------- MODULE UnifiedExecProofs --------------------------
(***************************************************************************)
(* The safety properties of UnifiedExec, proved for any number of calls,   *)
(* writes, process ids, cleanups and aborts, and any limit of the store.   *)
(*                                                                         *)
(* The argument is about who claims a process id.  A call claims the id it *)
(* allocated until it ends or until its process leaves the store; a        *)
(* claimed id is reserved, and two calls claim the same one only when a    *)
(* cleanup cleared the reservations under a call in flight (stale).  So    *)
(* removing what has an id removes one's own entry, or an id is shared.    *)
(* The bound of the store rests on last_used: no two entries were used at  *)
(* the same instant, so the protected ones are too few to be all of them.  *)
(***************************************************************************)
EXTENDS UnifiedExec, FiniteSetTheorems, WellFoundedInduction, TLAPS

\* The positions from which a call gives its id back or stores its process.
Claiming == {"open", "spawned", "collect", "end", "release", "store"}

\* Where ExecCommandBegin and ExecCommandEnd stand at each position of a call.
EventInv ==
    \A c \in Calls :
        /\ pc[c] \in {"idle", "open", "spawned"} => c \notin begun
        /\ pc[c] \in {"collect", "end", "release", "store", "warn"} => c \in begun
        /\ pc[c] \notin {"over", "release"} => ended[c] = 0
        /\ pc[c] # "over" => c \notin watching
        /\ c \in watching => c \in begun /\ ended[c] = 0
        /\ ended[c] = 0 \/ (ended[c] = 1 /\ c \in begun)

\* A call has its id from the moment it is open, no process before it has spawned
\* one, and only a call that has started can have outlived a cleanup.
CallInv ==
    \A c \in Calls :
        /\ pc[c] # "idle" => id[c] \in Ids
        /\ pc[c] = "idle" => id[c] = None /\ c \notin stale
        /\ pc[c] \in {"idle", "open"} => proc[c] = "none"

\* An entry is stored under the id of its call, which has done so.
StoreInv ==
    \A i \in Ids : store[i] # None =>
        /\ id[store[i]] = i
        /\ pc[store[i]] \in {"warn", "over"}
        /\ store[i] \in begun

Claims(c) == pc[c] \in Claiming \/ c \in Stored

\* The id of c is one that a call still used when a cleanup cleared the reserved ids.
StaleId(c) == \E d \in stale : id[d] = id[c]

\* A claimed id is reserved, or a cleanup cleared the reservation ...
ClaimInv == \A c \in Calls : Claims(c) => id[c] \in reserved \/ StaleId(c)

\* ... and claimed once, or it is shared with a call that outlived a cleanup.
UniqueInv ==
    \A c, d \in Calls :
        c # d /\ Claims(c) /\ Claims(d) /\ id[c] = id[d] => IdShared(c)

\* Who owns a running process, before its exit watcher counts.
OwnerInv ==
    \A c \in Calls : proc[c] = "running" =>
        \/ pc[c] \in Owning \ {"warn"}
        \/ c \in Stored \cup doomed
        \/ IdShared(c)

\* A call of an earlier turn that did not outlive its cleanup is over, and out of
\* the store.
CleanInv ==
    \A c \in Calls : born[c] < cleanups /\ c \notin stale =>
        pc[c] \in {"idle", "over"} /\ c \notin Stored

\* While a write polls, what has its id is its target, and nothing else is about
\* to take the id.
Polls(w) ==
    /\ wpc[w] # "over" => answer[w] = None
    /\ wpc[w] = "poll" => wid[w] \in Ids /\ target[w] \in Calls
    /\ target[w] # None => pc[target[w]] # "idle"
    /\ answer[w] # None => target[w] \in Calls
    /\ wpc[w] = "poll" /\ w \notin aborted =>
           \A c \in Calls : Claims(c) /\ id[c] = wid[w] =>
                                c = target[w] \/ IdShared(target[w])

WriteInv == \A w \in Writes : Polls(w)

\* No two calls used a process at the same instant.
ClockInv ==
    /\ \A c \in begun : lastUsed[c] > 0
    /\ \A c, d \in begun : lastUsed[c] = lastUsed[d] => c = d

\* The inductive invariant.
ExecInv ==
    /\ TypeOK
    /\ EventInv
    /\ CallInv
    /\ StoreInv
    /\ ClaimInv
    /\ UniqueInv
    /\ OwnerInv
    /\ CleanInv
    /\ WriteInv
    /\ AnswerNamesTarget
    /\ ClockInv
    /\ StoreBounded

(***************************************************************************)
(* Types                                                                   *)
(***************************************************************************)

\* The initial state has the types, and the rest of the invariant holds of it
\* because no call has started.
LEMMA InitInv == Init => ExecInv
<1>. SUFFICES ASSUME Init PROVE ExecInv
  OBVIOUS
<1>. USE UnifiedExecAssumption
<1>1. TypeOK
  BY DEF Init, TypeOK, CallPcs, ProcStates
<1>2. Stored = {}
  BY DEF Init, Stored
<1>3. EventInv /\ CallInv /\ StoreInv
  BY DEF Init, EventInv, CallInv, StoreInv
<1>4. ClaimInv /\ UniqueInv
  BY <1>2 DEF Init, ClaimInv, UniqueInv, Claims, Claiming
<1>5. OwnerInv /\ CleanInv
  BY <1>2 DEF Init, OwnerInv, CleanInv
<1>6. WriteInv /\ AnswerNamesTarget
  BY DEF Init, WriteInv, Polls, AnswerNamesTarget
<1>7. ClockInv
  BY DEF Init, ClockInv
<1>8. StoreBounded
  BY <1>2, FS_EmptySet DEF StoreBounded
<1>. QED
  BY <1>1, <1>3, <1>4, <1>5, <1>6, <1>7, <1>8 DEF ExecInv

\* A call that moves on keeps the types of its position.
LEMMA GotoType ==
    ASSUME TypeOK, NEW c \in Calls, NEW from, NEW to \in CallPcs, Goto(c, from, to)
    PROVE  pc' \in [Calls -> CallPcs]
  BY DEF TypeOK, Goto

\* What a step does to a process is one of the four states.
LEMMA DropType == ASSUME TypeOK, DropUnheld PROVE proc' \in [Calls -> ProcStates]
  BY DEF TypeOK, DropUnheld, ProcStates

\* Removing an id keeps the types of the store.
LEMMA RemoveType ==
    ASSUME TypeOK, NEW i, Remove(i)
    PROVE  reserved' \subseteq Ids /\ store' \in [Ids -> Calls \cup {None}]
  BY DEF TypeOK, Remove

\* Every step of an exec_command call keeps the types.
LEMMA CallTypes ==
    ASSUME TypeOK, NEW c \in Calls, CallStep(c)
    PROVE  TypeOK'
<1>1. CASE AllocateProcessId(c)
  <2>1. pc' \in [Calls -> CallPcs]
    BY <1>1, GotoType DEF AllocateProcessId, CallPcs
  <2>2. id' \in [Calls -> Ids \cup {None}] /\ reserved' \subseteq Ids
    BY <1>1 DEF AllocateProcessId, TypeOK
  <2>3. born' \in [Calls -> Nat]
    BY <1>1 DEF AllocateProcessId, TypeOK
  <2>. QED
    BY <1>1, <2>1, <2>2, <2>3 DEF AllocateProcessId, TypeOK, eventVars, writeVars, turnVars
<1>2. CASE RejectCall(c)
  <2>1. pc' \in [Calls -> CallPcs]
    BY <1>2, GotoType DEF RejectCall, CallPcs
  <2>. QED
    BY <1>2, <2>1, DropType, RemoveType DEF RejectCall, TypeOK, eventVars, writeVars, turnVars
<1>3. CASE InterceptFails(c)
  <2>1. pc' \in [Calls -> CallPcs]
    BY <1>3, GotoType DEF InterceptFails, CallPcs
  <2>. QED
    BY <1>3, <2>1 DEF InterceptFails, TypeOK, storeVars, eventVars, writeVars, turnVars
<1>4. CASE SpawnProcess(c)
  <2>1. pc' \in [Calls -> CallPcs]
    BY <1>4, GotoType DEF SpawnProcess, CallPcs, Owning
  <2>2. proc' \in [Calls -> ProcStates]
    BY <1>4 DEF SpawnProcess, TypeOK, ProcStates
  <2>. QED
    BY <1>4, <2>1, <2>2 DEF SpawnProcess, TypeOK, storeVars, eventVars, writeVars, turnVars
<1>5. CASE Escalate(c)
  <2>1. pc' \in [Calls -> CallPcs]
    BY <1>5, GotoType DEF Escalate, CallPcs, Owning
  <2>2. proc' \in [Calls -> ProcStates]
    BY <1>5 DEF Escalate, TypeOK, ProcStates
  <2>. QED
    BY <1>5, <2>1, <2>2 DEF Escalate, TypeOK, storeVars, eventVars, writeVars, turnVars
<1>6. CASE EmitBegin(c)
  <2>1. pc' \in [Calls -> CallPcs]
    BY <1>6, GotoType DEF EmitBegin, CallPcs, Owning
  <2>2. clock' \in Nat /\ lastUsed' \in [Calls -> 0..clock']
    <3>1. lastUsed \in [Calls -> 0..clock] /\ clock \in Nat
      BY DEF TypeOK
    <3>2. clock' = clock + 1 /\ lastUsed' = [lastUsed EXCEPT ![c] = clock + 1]
      BY <1>6 DEF EmitBegin
    <3>. QED
      BY <3>1, <3>2
  <2>. QED
    BY <1>6, <2>1, <2>2 DEF EmitBegin, TypeOK, writeVars, turnVars
<1>7. CASE CollectOutput(c)
  <2>1. pc' \in [Calls -> CallPcs]
    BY <1>7, GotoType DEF CollectOutput, CallPcs, Owning
  <2>. QED
    BY <1>7, <2>1 DEF CollectOutput, TypeOK, storeVars, eventVars, writeVars, turnVars
<1>8. CASE EmitEnd(c)
  <2>1. pc' \in [Calls -> CallPcs]
    BY <1>8, GotoType DEF EmitEnd, CallPcs, Owning
  <2>2. ended' \in [Calls -> Nat]
    BY <1>8 DEF EmitEnd, TypeOK
  <2>. QED
    BY <1>8, <2>1, <2>2 DEF EmitEnd, TypeOK, storeVars, writeVars, turnVars
<1>9. CASE ReleaseProcessId(c)
  <2>1. pc' \in [Calls -> CallPcs]
    BY <1>9, GotoType DEF ReleaseProcessId, CallPcs
  <2>. QED
    BY <1>9, <2>1, DropType, RemoveType
    DEF ReleaseProcessId, TypeOK, eventVars, writeVars, turnVars
<1>10. CASE StoreProcess(c)
  <2>1. pc' \in [Calls -> CallPcs]
    BY <1>10 DEF StoreProcess, TypeOK, CallPcs, Owning
  <2>2. store' \in [Ids -> Calls \cup {None}]
    BY <1>10 DEF StoreProcess, TypeOK
  <2>3. proc' \in [Calls -> ProcStates]
    BY <1>10 DEF StoreProcess, TypeOK, ProcStates
  <2>4. reserved' \subseteq Ids /\ watching' \subseteq Calls
    BY <1>10 DEF StoreProcess, TypeOK
  <2>. QED
    BY <1>10, <2>1, <2>2, <2>3, <2>4 DEF StoreProcess, TypeOK, writeVars, turnVars
<1>11. CASE SpawnExitWatcher(c)
  <2>1. pc' \in [Calls -> CallPcs]
    BY <1>11, GotoType DEF SpawnExitWatcher, CallPcs
  <2>. QED
    BY <1>11, <2>1 DEF SpawnExitWatcher, TypeOK, storeVars, writeVars, turnVars
<1>12. CASE DropCall(c)
  <2>1. pc' \in [Calls -> CallPcs]
    BY <1>12 DEF DropCall, TypeOK, CallPcs
  <2>. QED
    BY <1>12, <2>1, DropType DEF DropCall, TypeOK, storeVars, eventVars, writeVars, turnVars
<1>. QED
  BY <1>1, <1>2, <1>3, <1>4, <1>5, <1>6, <1>7, <1>8, <1>9, <1>10, <1>11, <1>12 DEF CallStep

\* Every other step keeps the types, too.
LEMMA OtherTypes ==
    ASSUME TypeOK, WriteInv, Next, \A c \in Calls : ~CallStep(c)
    PROVE  TypeOK'
<1>1. ASSUME NEW c \in Calls, ExitProcess(c) PROVE TypeOK'
  <2>1. proc' \in [Calls -> ProcStates]
    BY <1>1 DEF ExitProcess, TypeOK, ProcStates
  <2>. QED
    BY <1>1, <2>1 DEF ExitProcess, TypeOK, storeVars, callVars, eventVars, writeVars, turnVars
<1>2. ASSUME NEW c \in Calls, WatcherEmitsEnd(c) PROVE TypeOK'
  <2>1. ended' \in [Calls -> Nat]
    BY <1>2 DEF WatcherEmitsEnd, TypeOK
  <2>. QED
    BY <1>2, <2>1 DEF WatcherEmitsEnd, TypeOK, storeVars, callVars, writeVars, turnVars
<1>0. ASSUME NEW c \in Calls, StreamEnds(c) PROVE TypeOK'
  BY <1>0 DEF StreamEnds, TypeOK, storeVars, callVars, writeVars, turnVars
<1>3. ASSUME NEW c \in Calls, TerminateEntry(c) PROVE TypeOK'
  <2>1. proc' \in [Calls -> ProcStates]
    BY <1>3 DEF TerminateEntry, TypeOK, ProcStates
  <2>. QED
    BY <1>3, <2>1 DEF TerminateEntry, TypeOK, storeVars, callVars, eventVars, writeVars
<1>4. ASSUME NEW w \in Writes, NEW i \in Ids, PrepareProcessHandles(w, i) PROVE TypeOK'
  <2>1. wid' \in [Writes -> Ids \cup {None}] /\ target' \in [Writes -> Calls \cup {None}]
    BY <1>4 DEF PrepareProcessHandles, TypeOK
  <2>2. wpc' \in [Writes -> {"idle", "poll", "over"}]
    BY <1>4 DEF PrepareProcessHandles, TypeOK
  <2>3. clock' \in Nat /\ lastUsed' \in [Calls -> 0..clock']
    <3>1. lastUsed \in [Calls -> 0..clock] /\ clock \in Nat
      BY DEF TypeOK
    <3>2. \/ clock' = clock /\ lastUsed' = lastUsed
          \/ clock' = clock + 1 /\ lastUsed' = [lastUsed EXCEPT ![store[i]] = clock + 1]
      BY <1>4 DEF PrepareProcessHandles
    <3>. QED
      BY <3>1, <3>2
  <2>. QED
    BY <1>4, <2>1, <2>2, <2>3
    DEF PrepareProcessHandles, TypeOK, callVars, eventVars, turnVars
<1>5. ASSUME NEW w \in Writes, StdinClosed(w) \/ DropWrite(w) PROVE TypeOK'
  <2>1. wpc' \in [Writes -> {"idle", "poll", "over"}]
    BY <1>5 DEF StdinClosed, DropWrite, TypeOK
  <2>. QED
    BY <1>5, <2>1
    DEF StdinClosed, DropWrite, TypeOK, storeVars, callVars, eventVars, turnVars
<1>6. ASSUME NEW w \in Writes, RefreshProcessState(w) PROVE TypeOK'
  <2>1. wpc' \in [Writes -> {"idle", "poll", "over"}]
    BY <1>6 DEF RefreshProcessState, TypeOK
  <2>2. store[wid[w]] \in Calls \cup {None}
    BY <1>6 DEF RefreshProcessState, TypeOK, WriteInv, Polls
  <2>3. answer' \in [Writes -> Calls \cup {None}]
    BY <1>6, <2>2 DEF RefreshProcessState, TypeOK
  <2>4. reserved' \subseteq Ids /\ store' \in [Ids -> Calls \cup {None}]
    BY <1>6, RemoveType DEF RefreshProcessState, TypeOK
  <2>. QED
    BY <1>6, <2>1, <2>3, <2>4 DEF RefreshProcessState, TypeOK, callVars, eventVars, turnVars
<1>7. ASSUME AbortCalls PROVE TypeOK'
  BY <1>7 DEF AbortCalls, TypeOK, InFlight, Writing, storeVars, callVars, eventVars, writeVars
<1>8. ASSUME DrainStore PROVE TypeOK'
  BY <1>8 DEF DrainStore, TypeOK, InFlight, Stored, callVars, eventVars, writeVars
<1>. QED
  BY <1>0, <1>1, <1>2, <1>3, <1>4, <1>5, <1>6, <1>7, <1>8 DEF Next, WriteStep

(***************************************************************************)
(* Process ids                                                             *)
(***************************************************************************)

\* A call in the store is found under its own id.
LEMMA StoredHasId ==
    ASSUME TypeOK, StoreInv, NEW c \in Stored
    PROVE  /\ c \in Calls /\ c \in begun /\ pc[c] \in {"warn", "over"}
           /\ id[c] \in Ids /\ store[id[c]] = c
  BY UnifiedExecAssumption DEF TypeOK, StoreInv, Stored

\* What every step but an allocation and a cleanup does to the claims: none is made,
\* and an id leaves the reserved ones with its claims, or it is shared.
Steady ==
    /\ UNCHANGED <<id, born, cleanups, stale>>
    /\ begun \subseteq begun'
    /\ \A c \in Calls : pc[c] = "idle" <=> pc'[c] = "idle"
    /\ \A c \in Calls : pc[c] = "over" => pc'[c] = "over"
    /\ \A c \in Calls : pc[c] = "warn" => pc'[c] \in {"warn", "over"}
    /\ \A c \in Calls : pc'[c] \in Claiming => pc[c] \in Claiming
    /\ \A i \in Ids : \/ store'[i] \in {store[i], None}
                      \/ /\ store'[i] \in Calls
                         /\ pc[store'[i]] = "store"
                         /\ pc'[store'[i]] \in {"warn", "over"}
                         /\ id[store'[i]] = i
    /\ \A c \in Calls : Claims(c)' /\ id[c] \in reserved \ reserved' => IdShared(c)

\* A steady step changes nothing about the ids that are shared or stale.
LEMMA SharedKept ==
    ASSUME Steady, NEW c
    PROVE  /\ IdShared(c) <=> IdShared(c)'
           /\ StaleId(c) <=> StaleId(c)'
  BY DEF Steady, IdShared, StaleId

\* A shared id is stale, and a stale id that two calls have is shared.
LEMMA SharedIsStale ==
    ASSUME TypeOK, NEW c \in Calls
    PROVE  /\ IdShared(c) => StaleId(c)
           /\ \A d \in Calls \ {c} : id[c] = id[d] /\ StaleId(c) => IdShared(c)
<1>1. stale \subseteq Calls
  BY DEF TypeOK
<1>2. IdShared(c) => StaleId(c)
  BY <1>1 DEF IdShared, StaleId
<1>3. ASSUME NEW d \in Calls \ {c}, id[c] = id[d], StaleId(c) PROVE IdShared(c)
  <2>1. PICK e \in stale : id[e] = id[c]
    BY <1>3 DEF StaleId
  <2>2. CASE e = c
    BY <1>3, <2>1, <2>2 DEF IdShared
  <2>3. CASE e # c
    BY <1>1, <2>1, <2>3 DEF IdShared
  <2>. QED
    BY <2>2, <2>3
<1>. QED
  BY <1>2, <1>3

\* A steady step stores nothing but the process of a call at that point ...
LEMMA SteadyStored ==
    ASSUME Steady, NEW c \in Calls, c \in Stored'
    PROVE  c \in Stored \/ pc[c] = "store"
  BY UnifiedExecAssumption DEF Steady, Stored

\* ... so it makes no claim.
LEMMA SteadyClaims ==
    ASSUME Steady, NEW c \in Calls, Claims(c)'
    PROVE  Claims(c)
<1>1. CASE c \in Stored'
  BY <1>1, SteadyStored DEF Claims, Claiming
<1>2. CASE pc'[c] \in Claiming
  BY <1>2 DEF Steady, Claims
<1>. QED
  BY <1>1, <1>2 DEF Claims

\* A steady step keeps the entries under the ids of their calls, every claimed id
\* reserved and claimed once, and the calls of earlier turns out.
LEMMA SteadyKeeps ==
    ASSUME ExecInv, Steady
    PROVE  StoreInv' /\ ClaimInv' /\ UniqueInv' /\ CleanInv'
<1>. USE DEF ExecInv
<1>1. StoreInv'
  <2>. SUFFICES ASSUME NEW i \in Ids, store'[i] # None
                PROVE  /\ id'[store'[i]] = i
                       /\ pc'[store'[i]] \in {"warn", "over"}
                       /\ store'[i] \in begun'
    BY DEF StoreInv
  <2>0. id' = id /\ begun \subseteq begun'
    BY DEF Steady
  <2>1. CASE store'[i] = store[i]
    <3>1. store[i] \in Calls /\ id[store[i]] = i /\ pc[store[i]] \in {"warn", "over"}
          /\ store[i] \in begun
      BY <2>1 DEF TypeOK, StoreInv
    <3>2. pc'[store[i]] \in {"warn", "over"}
      BY <3>1 DEF Steady
    <3>. QED
      BY <2>0, <2>1, <3>1, <3>2
  <2>2. CASE /\ store'[i] \in Calls /\ pc[store'[i]] = "store"
             /\ pc'[store'[i]] \in {"warn", "over"} /\ id[store'[i]] = i
    BY <2>0, <2>2 DEF EventInv
  <2>. QED
    BY <2>1, <2>2 DEF Steady
<1>2. ClaimInv'
  <2>. SUFFICES ASSUME NEW c \in Calls, Claims(c)'
                PROVE  id'[c] \in reserved' \/ StaleId(c)'
    BY DEF ClaimInv
  <2>1. id[c] \in reserved \/ StaleId(c)
    BY SteadyClaims DEF ClaimInv
  <2>2. id[c] \in reserved \ reserved' => StaleId(c)
    BY SharedIsStale DEF Steady
  <2>3. id' = id
    BY DEF Steady
  <2>. QED
    BY <2>1, <2>2, <2>3, SharedKept
<1>3. UniqueInv'
  <2>. SUFFICES ASSUME NEW c \in Calls, NEW d \in Calls, c # d, Claims(c)', Claims(d)',
                       id'[c] = id'[d]
                PROVE  IdShared(c)'
    BY DEF UniqueInv
  <2>1. Claims(c) /\ Claims(d)
    BY SteadyClaims
  <2>2. id[c] = id[d]
    BY DEF Steady
  <2>. QED
    BY <2>1, <2>2, SharedKept DEF UniqueInv
<1>4. CleanInv'
  <2>. SUFFICES ASSUME NEW c \in Calls, born'[c] < cleanups', c \notin stale'
                PROVE  pc'[c] \in {"idle", "over"} /\ c \notin Stored'
    BY DEF CleanInv
  <2>1. born[c] < cleanups /\ c \notin stale
    BY DEF Steady
  <2>2. pc[c] \in {"idle", "over"} /\ c \notin Stored
    BY <2>1 DEF CleanInv
  <2>. QED
    BY <2>2, SteadyStored DEF Steady
<1>. QED
  BY <1>1, <1>2, <1>3, <1>4

\* A step that leaves the calls and the store alone is steady.
LEMMA KeepSteady ==
    ASSUME TypeOK, UNCHANGED <<reserved, store, pc, id, born, begun, cleanups, stale>>
    PROVE  Steady
  BY DEF Steady, TypeOK, Claims, Stored

\* So is one that moves a call in flight towards its end ...
LEMMA MoveSteady ==
    ASSUME TypeOK, UNCHANGED <<reserved, store, id, born, cleanups, stale>>,
           begun \subseteq begun', NEW c \in Calls, NEW to,
           pc' = [pc EXCEPT ![c] = to], pc[c] \notin {"idle", "over"},
           \/ to = "over"
           \/ pc[c] \in Claiming /\ to \in Claiming
    PROVE  Steady
<1>1. \A d \in Calls : /\ d # c => pc'[d] = pc[d]
                       /\ d = c => pc'[d] = to
  BY DEF TypeOK
<1>2. to # "idle"
  BY DEF Claiming
<1>3. reserved \ reserved' = {}
  OBVIOUS
<1>4. \A d \in Calls : pc[d] = "idle" <=> pc'[d] = "idle"
  BY <1>1, <1>2
<1>5. \A d \in Calls : pc[d] = "over" => pc'[d] = "over"
  BY <1>1
<1>6. \A d \in Calls : pc[d] = "warn" => pc'[d] \in {"warn", "over"}
  BY <1>1 DEF Claiming
<1>7. \A d \in Calls : pc'[d] \in Claiming => pc[d] \in Claiming
  BY <1>1 DEF Claiming
<1>8. \A i \in Ids : store'[i] \in {store[i], None}
  OBVIOUS
<1>. QED
  BY <1>3, <1>4, <1>5, <1>6, <1>7, <1>8 DEF Steady

\* ... and one with which a call gives its id back: whoever else claims that id
\* shares it.
LEMMA GiveBackSteady ==
    ASSUME ExecInv, UNCHANGED <<id, born, begun, cleanups, stale>>,
           NEW c \in Calls, pc[c] \in Claiming,
           pc' = [pc EXCEPT ![c] = "over"], Remove(id[c])
    PROVE  Steady
<1>. USE DEF ExecInv
<1>1. \A d \in Calls : /\ d # c => pc'[d] = pc[d]
                       /\ d = c => pc'[d] = "over"
  BY DEF TypeOK
<1>2. \A i \in Ids : store'[i] \in {store[i], None}
  BY DEF TypeOK, Remove
<1>3. Stored' \subseteq Stored
  BY <1>2, UnifiedExecAssumption DEF Stored
<1>4. c \notin Stored
  BY StoredHasId DEF Claiming
<1>5. ASSUME NEW d \in Calls, Claims(d)', id[d] \in reserved \ reserved'
      PROVE  IdShared(d)
  <2>1. id[d] = id[c]
    BY <1>5 DEF Remove
  <2>2. d # c
    BY <1>1, <1>3, <1>4, <1>5 DEF Claims, Claiming
  <2>3. Claims(d)
    BY <1>1, <1>3, <1>5, <2>2 DEF Claims
  <2>4. Claims(c)
    BY DEF Claims
  <2>. QED
    BY <2>1, <2>2, <2>3, <2>4 DEF UniqueInv
<1>6. \A d \in Calls : pc[d] = "idle" <=> pc'[d] = "idle"
  BY <1>1 DEF Claiming
<1>7. \A d \in Calls : pc[d] = "over" => pc'[d] = "over"
  BY <1>1
<1>8. \A d \in Calls : pc[d] = "warn" => pc'[d] \in {"warn", "over"}
  BY <1>1
<1>9. \A d \in Calls : pc'[d] \in Claiming => pc[d] \in Claiming
  BY <1>1 DEF Claiming
<1>. QED
  BY <1>2, <1>5, <1>6, <1>7, <1>8, <1>9 DEF Steady

\* What pruning takes is in the store.
LEMMA PruneIsStored == Prune \subseteq Stored
  BY DEF Prune, ProcessToPrune, LeastRecent

\* Storing a process: the entries that are pruned or overwritten let go of their
\* ids, and whoever claims one of these shares it.
LEMMA StoreSteady ==
    ASSUME ExecInv, NEW c \in Calls, StoreProcess(c)
    PROVE  /\ Steady
           /\ \A i \in Ids : store'[i] = IF i = id[c] THEN c
                                         ELSE IF store[i] \in Prune THEN None ELSE store[i]
           /\ id[c] \in Ids /\ c \in Stored' /\ c \notin Stored
<1>. USE DEF ExecInv
<1>0. /\ pc[c] = "store" /\ pc'[c] \in {"warn", "over"}
      /\ \A d \in Calls : d # c => pc'[d] = pc[d]
      /\ UNCHANGED <<id, born, cleanups, stale, begun>>
  BY DEF StoreProcess, TypeOK, turnVars
<1>1. id[c] \in Ids
  BY <1>0 DEF CallInv
<1>2. \A i \in Ids : store'[i] = IF i = id[c] THEN c
                                 ELSE IF store[i] \in Prune THEN None ELSE store[i]
  BY DEF StoreProcess, TypeOK
<1>3. c \notin Stored
  BY <1>0, StoredHasId
<1>4. c \in Stored'
  BY <1>1, <1>2 DEF Stored
<1>5. \A d \in Calls \ {c} : d \in Stored' => d \in Stored /\ d \notin Prune
  BY <1>2, UnifiedExecAssumption DEF Stored
<1>6. ASSUME NEW d \in Calls, Claims(d)', id[d] \in reserved \ reserved'
      PROVE  IdShared(d)
  <2>1. PICK i \in Ids : i = id[d] /\ store[i] \in Prune
    BY <1>6 DEF StoreProcess, TypeOK
  <2>2. /\ store[i] \in Calls /\ store[i] \in Stored /\ id[store[i]] = i
        /\ Claims(store[i])
    <3>1. store[i] \in Stored
      BY <2>1, PruneIsStored
    <3>2. store[i] # None
      BY <3>1, UnifiedExecAssumption DEF Stored
    <3>. QED
      BY <3>1, <3>2 DEF Stored, StoreInv, Claims
  <2>3. Claims(d)
    BY <1>0, <1>5, <1>6 DEF Claims, Claiming
  <2>4. d # store[i]
    <3>. SUFFICES ASSUME d = store[i] PROVE FALSE
      OBVIOUS
    <3>1. d # c
      BY <1>3, <2>2
    <3>2. pc'[d] = pc[d] /\ pc[d] \in {"warn", "over"}
      BY <1>0, <2>2, <3>1, StoredHasId
    <3>3. d \notin Stored'
      BY <1>5, <2>1, <3>1
    <3>. QED
      BY <1>6, <3>2, <3>3 DEF Claims, Claiming
  <2>. QED
    BY <2>1, <2>2, <2>3, <2>4 DEF UniqueInv
<1>7. \A i \in Ids : \/ store'[i] \in {store[i], None}
                     \/ /\ store'[i] \in Calls
                        /\ pc[store'[i]] = "store"
                        /\ pc'[store'[i]] \in {"warn", "over"}
                        /\ id[store'[i]] = i
  BY <1>0, <1>2
<1>8. \A d \in Calls : /\ pc[d] = "idle" <=> pc'[d] = "idle"
                       /\ pc[d] = "over" => pc'[d] = "over"
                       /\ pc[d] = "warn" => pc'[d] \in {"warn", "over"}
                       /\ pc'[d] \in Claiming => pc[d] \in Claiming
  BY <1>0 DEF Claiming
<1>9. Steady
  BY <1>0, <1>6, <1>7, <1>8 DEF Steady
<1>. QED
  BY <1>1, <1>2, <1>3, <1>4, <1>9

\* refresh_process_state removes the entry of an exited process: whoever else
\* claims its id shares it.
LEMMA RefreshSteady ==
    ASSUME ExecInv, NEW w \in Writes, RefreshProcessState(w)
    PROVE  /\ Steady
           /\ \A i \in Ids : \/ store'[i] = store[i]
                             \/ store'[i] = None /\ proc[store[i]] = "exited"
<1>. USE DEF ExecInv
<1>0. UNCHANGED <<pc, id, born, begun, cleanups, stale>>
  BY DEF RefreshProcessState, callVars, eventVars, turnVars
<1>1. CASE UNCHANGED <<reserved, store>>
  BY <1>0, <1>1, KeepSteady
<1>2. CASE store[wid[w]] # None /\ proc[store[wid[w]]] = "exited" /\ Remove(wid[w])
  <2>1. wid[w] \in Ids
    BY DEF RefreshProcessState, WriteInv, Polls
  <2>2. \A i \in Ids : /\ i # wid[w] => store'[i] = store[i]
                       /\ i = wid[w] => store'[i] = None
    BY <1>2, <2>1 DEF Remove, TypeOK
  <2>3. Stored' \subseteq Stored
    BY <2>2, UnifiedExecAssumption DEF Stored
  <2>4. ASSUME NEW d \in Calls, Claims(d)', id[d] \in reserved \ reserved'
        PROVE  IdShared(d)
    <3>1. id[d] = wid[w]
      BY <1>2, <2>4 DEF Remove
    <3>2. Claims(d)
      BY <1>0, <2>3, <2>4 DEF Claims
    <3>3. /\ store[wid[w]] \in Calls /\ store[wid[w]] \in Stored
          /\ id[store[wid[w]]] = wid[w] /\ pc[store[wid[w]]] \in {"warn", "over"}
      BY <1>2, <2>1 DEF TypeOK, Stored, StoreInv
    <3>4. store[wid[w]] \notin Stored'
      BY <2>2, <3>3, UnifiedExecAssumption DEF Stored, StoreInv
    <3>5. d # store[wid[w]]
      BY <1>0, <2>4, <3>3, <3>4 DEF Claims, Claiming
    <3>. QED
      BY <3>1, <3>2, <3>3, <3>5 DEF UniqueInv, Claims
  <2>5. \A i \in Ids : store'[i] \in {store[i], None}
    BY <2>2
  <2>. QED
    BY <1>0, <1>2, <2>2, <2>4, <2>5 DEF Steady
<1>. QED
  BY <1>1, <1>2 DEF RefreshProcessState

\* Every step but an allocation and a cleanup is steady.
LEMMA CallSteady ==
    ASSUME ExecInv, NEW c \in Calls, CallStep(c), ~AllocateProcessId(c)
    PROVE  Steady
<1>. USE DEF ExecInv
<1>2. CASE RejectCall(c)
  BY <1>2, GiveBackSteady DEF RejectCall, Goto, Claiming, eventVars, turnVars
<1>3. CASE InterceptFails(c)
  BY <1>3, MoveSteady DEF InterceptFails, Goto, storeVars, eventVars, turnVars
<1>4. CASE SpawnProcess(c)
  BY <1>4, MoveSteady DEF SpawnProcess, Goto, Claiming, storeVars, eventVars, turnVars
<1>5. CASE Escalate(c)
  BY <1>5, MoveSteady DEF Escalate, Goto, Claiming, storeVars, eventVars, turnVars
<1>6. CASE EmitBegin(c)
  BY <1>6, MoveSteady DEF EmitBegin, Goto, Claiming, turnVars
<1>7. CASE CollectOutput(c)
  BY <1>7, MoveSteady DEF CollectOutput, Goto, Claiming, storeVars, eventVars, turnVars
<1>8. CASE EmitEnd(c)
  BY <1>8, MoveSteady DEF EmitEnd, Goto, Claiming, storeVars, turnVars
<1>9. CASE ReleaseProcessId(c)
  BY <1>9, GiveBackSteady DEF ReleaseProcessId, Goto, Claiming, eventVars, turnVars
<1>10. CASE StoreProcess(c)
  BY <1>10, StoreSteady
<1>11. CASE SpawnExitWatcher(c)
  BY <1>11, MoveSteady DEF SpawnExitWatcher, Goto, storeVars, turnVars
<1>12. CASE DropCall(c)
  BY <1>12, MoveSteady DEF DropCall, InFlight, storeVars, eventVars, turnVars
<1>. QED
  BY <1>2, <1>3, <1>4, <1>5, <1>6, <1>7, <1>8, <1>9, <1>10, <1>11, <1>12 DEF CallStep

\* So are the steps of processes, watchers and writes, and an abort.
LEMMA OtherSteady ==
    ASSUME ExecInv, Next, \A c \in Calls : ~CallStep(c), ~DrainStore
    PROVE  Steady
<1>. USE DEF ExecInv
<1>1. ASSUME NEW c \in Calls, \/ ExitProcess(c) \/ StreamEnds(c)
                              \/ WatcherEmitsEnd(c) \/ TerminateEntry(c)
      PROVE  Steady
  BY <1>1, KeepSteady
  DEF ExitProcess, StreamEnds, WatcherEmitsEnd, TerminateEntry, storeVars, callVars,
      eventVars, turnVars
<1>2. ASSUME NEW w \in Writes, NEW i \in Ids, PrepareProcessHandles(w, i) PROVE Steady
  BY <1>2, KeepSteady DEF PrepareProcessHandles, callVars, eventVars, turnVars
<1>3. ASSUME NEW w \in Writes, StdinClosed(w) \/ DropWrite(w) PROVE Steady
  BY <1>3, KeepSteady DEF StdinClosed, DropWrite, storeVars, callVars, eventVars, turnVars
<1>4. ASSUME NEW w \in Writes, RefreshProcessState(w) PROVE Steady
  BY <1>4, RefreshSteady
<1>5. ASSUME AbortCalls PROVE Steady
  BY <1>5, KeepSteady DEF AbortCalls, storeVars, callVars, eventVars
<1>. QED
  BY <1>1, <1>2, <1>3, <1>4, <1>5 DEF Next, WriteStep

\* allocate_process_id makes no id less shared: until then the call had none.
LEMMA AllocateShares ==
    ASSUME ExecInv, NEW c \in Calls, AllocateProcessId(c), NEW d \in Calls \ {c}
    PROVE  /\ IdShared(d) => IdShared(d)'
           /\ StaleId(d) <=> StaleId(d)'
<1>. USE DEF ExecInv
<1>1. /\ stale' = stale /\ stale \subseteq Calls
      /\ \A e \in Calls \ {c} : id'[e] = id[e]
      /\ pc[c] = "idle"
  BY DEF AllocateProcessId, Goto, TypeOK, turnVars
<1>2. c \notin stale /\ id[c] = None
  BY <1>1 DEF CallInv
<1>3. ASSUME IdShared(d) PROVE IdShared(d)'
  <2>1. PICK e \in Calls \ {d} : id[e] = id[d] /\ {d, e} \cap stale # {}
    BY <1>3 DEF IdShared
  <2>2. e # c
    <3>. SUFFICES ASSUME e = c PROVE FALSE
      OBVIOUS
    <3>1. d \in stale /\ id[d] = None
      BY <1>2, <2>1
    <3>2. id[d] \in Ids
      BY <3>1 DEF CallInv
    <3>. QED
      BY <3>1, <3>2, UnifiedExecAssumption
  <2>3. id'[e] = id'[d] /\ {d, e} \cap stale' # {}
    BY <1>1, <2>1, <2>2
  <2>. QED
    BY <2>1, <2>3 DEF IdShared
<1>4. StaleId(d) <=> StaleId(d)'
  BY <1>1, <1>2 DEF StaleId
<1>. QED
  BY <1>3, <1>4

\* allocate_process_id takes an id that nobody claims, or one that is shared.
LEMMA AllocateKeeps ==
    ASSUME ExecInv, NEW c \in Calls, AllocateProcessId(c)
    PROVE  StoreInv' /\ ClaimInv' /\ UniqueInv' /\ CleanInv'
<1>. USE DEF ExecInv
<1>0. UNCHANGED <<store, begun, cleanups, stale>>
  BY DEF AllocateProcessId, eventVars, turnVars
<1>1. PICK i \in Ids \ reserved : id' = [id EXCEPT ![c] = i] /\ reserved' = reserved \cup {i}
  BY DEF AllocateProcessId
<1>2. /\ \A d \in Calls \ {c} : pc'[d] = pc[d] /\ id'[d] = id[d] /\ born'[d] = born[d]
      /\ pc[c] = "idle" /\ pc'[c] = "open" /\ id'[c] = i /\ born'[c] = cleanups
  BY <1>1 DEF AllocateProcessId, Goto, TypeOK
<1>3. Stored' = Stored
  BY <1>0 DEF Stored
<1>4. c \notin Stored /\ c \notin stale
  BY <1>2, StoredHasId DEF CallInv
<1>5. \A d \in Calls \ {c} : Claims(d)' = Claims(d)
  BY <1>2, <1>3 DEF Claims
<1>6. \A d \in Calls \ {c} : (IdShared(d) => IdShared(d)') /\ (StaleId(d) <=> StaleId(d)')
  BY AllocateShares
<1>7. StoreInv'
  <2>. SUFFICES ASSUME NEW j \in Ids, store[j] # None
                PROVE  /\ id'[store[j]] = j /\ pc'[store[j]] \in {"warn", "over"}
                       /\ store[j] \in begun'
    BY <1>0 DEF StoreInv
  <2>1. store[j] \in Calls \ {c}
    BY <1>4 DEF TypeOK, Stored
  <2>. QED
    BY <1>0, <1>2, <2>1 DEF StoreInv
<1>8. ClaimInv'
  <2>. SUFFICES ASSUME NEW d \in Calls, Claims(d)'
                PROVE  id'[d] \in reserved' \/ StaleId(d)'
    BY DEF ClaimInv
  <2>1. CASE d = c
    BY <1>1, <1>2, <2>1
  <2>2. CASE d # c
    BY <1>1, <1>2, <1>5, <1>6, <2>2 DEF ClaimInv
  <2>. QED
    BY <2>1, <2>2
<1>9. UniqueInv'
  <2>1. ASSUME NEW d \in Calls \ {c}, Claims(d), id[d] = i
        PROVE  IdShared(d)' /\ IdShared(c)'
    <3>1. StaleId(d)
      BY <1>1, <2>1 DEF ClaimInv
    <3>2. PICK e \in stale : id[e] = i /\ e \in Calls \ {c}
      BY <1>4, <2>1, <3>1 DEF StaleId, TypeOK
    <3>3. e \in stale' /\ id'[e] = i /\ id'[d] = i /\ id'[c] = i
      BY <1>0, <1>2, <2>1, <3>2
    <3>4. IdShared(c)'
      BY <3>2, <3>3 DEF IdShared
    <3>5. IdShared(d)'
      BY <2>1, <3>2, <3>3 DEF IdShared
    <3>. QED
      BY <3>4, <3>5
  <2>. SUFFICES ASSUME NEW d \in Calls, NEW e \in Calls, d # e, Claims(d)', Claims(e)',
                       id'[d] = id'[e]
                PROVE  IdShared(d)'
    BY DEF UniqueInv
  <2>2. CASE d = c
    BY <1>2, <1>5, <2>1, <2>2
  <2>3. CASE e = c
    BY <1>2, <1>5, <2>1, <2>3
  <2>4. CASE d # c /\ e # c
    BY <1>2, <1>5, <1>6, <2>4 DEF UniqueInv
  <2>. QED
    BY <2>2, <2>3, <2>4
<1>10. CleanInv'
  <2>. SUFFICES ASSUME NEW d \in Calls, born'[d] < cleanups, d \notin stale
                PROVE  pc'[d] \in {"idle", "over"} /\ d \notin Stored
    BY <1>0, <1>3 DEF CleanInv
  <2>1. d # c
    BY <1>2 DEF TypeOK
  <2>. QED
    BY <1>2, <2>1 DEF CleanInv
<1>. QED
  BY <1>7, <1>8, <1>9, <1>10

\* A cleanup empties the store, and the calls it leaves in flight are stale.
LEMMA DrainKeeps ==
    ASSUME ExecInv, DrainStore
    PROVE  StoreInv' /\ ClaimInv' /\ UniqueInv' /\ CleanInv'
<1>. USE DEF ExecInv
<1>0. /\ UNCHANGED <<pc, id, born, begun>> /\ stale' = stale \cup InFlight
      /\ \A i \in Ids : store'[i] = None
  BY DEF DrainStore, callVars, eventVars
<1>1. Stored' = {}
  BY <1>0, UnifiedExecAssumption DEF Stored
<1>2. \A c \in Calls : Claims(c)' => c \in stale' /\ StaleId(c)'
  BY <1>0, <1>1 DEF Claims, Claiming, InFlight, StaleId
<1>3. \A c \in Calls : c \notin stale' => pc'[c] \in {"idle", "over"}
  BY <1>0 DEF InFlight
<1>4. UniqueInv'
  BY <1>2 DEF UniqueInv, IdShared
<1>. QED
  BY <1>0, <1>1, <1>2, <1>3, <1>4 DEF StoreInv, ClaimInv, CleanInv

(***************************************************************************)
(* Events and positions                                                    *)
(***************************************************************************)

\* Begin and End follow the position of their call: a step of one call concerns its
\* own events only.
LEMMA EventStep ==
    ASSUME TypeOK, EventInv, NEW c \in Calls, CallStep(c)
    PROVE  EventInv'
<1>. SUFFICES ASSUME NEW d \in Calls
              PROVE  /\ pc'[d] \in {"idle", "open", "spawned"} => d \notin begun'
                     /\ pc'[d] \in {"collect", "end", "release", "store", "warn"} => d \in begun'
                     /\ pc'[d] \notin {"over", "release"} => ended'[d] = 0
                     /\ pc'[d] # "over" => d \notin watching'
                     /\ d \in watching' => d \in begun' /\ ended'[d] = 0
                     /\ ended'[d] = 0 \/ (ended'[d] = 1 /\ d \in begun')
  BY DEF EventInv
<1>1. CASE AllocateProcessId(c)
  BY <1>1 DEF AllocateProcessId, TypeOK, EventInv, Goto, eventVars
<1>2. CASE RejectCall(c)
  BY <1>2 DEF RejectCall, TypeOK, EventInv, Goto, eventVars
<1>3. CASE InterceptFails(c)
  BY <1>3 DEF InterceptFails, TypeOK, EventInv, Goto, eventVars
<1>4. CASE SpawnProcess(c)
  BY <1>4 DEF SpawnProcess, TypeOK, EventInv, Goto, eventVars
<1>5. CASE Escalate(c)
  BY <1>5 DEF Escalate, TypeOK, EventInv, Goto, eventVars
<1>6. CASE EmitBegin(c)
  BY <1>6 DEF EmitBegin, TypeOK, EventInv, Goto
<1>7. CASE CollectOutput(c)
  BY <1>7 DEF CollectOutput, TypeOK, EventInv, Goto, eventVars
<1>8. CASE EmitEnd(c)
  BY <1>8 DEF EmitEnd, TypeOK, EventInv, Goto
<1>9. CASE ReleaseProcessId(c)
  BY <1>9 DEF ReleaseProcessId, TypeOK, EventInv, Goto, eventVars
<1>10. CASE StoreProcess(c)
  BY <1>10 DEF StoreProcess, TypeOK, EventInv
<1>11. CASE SpawnExitWatcher(c)
  BY <1>11 DEF SpawnExitWatcher, TypeOK, EventInv, Goto
<1>12. CASE DropCall(c)
  BY <1>12 DEF DropCall, TypeOK, EventInv, eventVars, InFlight
<1>. QED
  BY <1>1, <1>2, <1>3, <1>4, <1>5, <1>6, <1>7, <1>8, <1>9, <1>10, <1>11, <1>12 DEF CallStep

\* The exit watcher reports once and is gone; the other steps report nothing.
LEMMA EventOther ==
    ASSUME TypeOK, EventInv, Next, \A c \in Calls : ~CallStep(c)
    PROVE  EventInv'
<1>1. ASSUME NEW c \in Calls, WatcherEmitsEnd(c) PROVE EventInv'
  <2>1. UNCHANGED <<pc, begun>> /\ c \in watching /\ watching' = watching \ {c}
    BY <1>1 DEF WatcherEmitsEnd, callVars
  <2>2. /\ \A d \in Calls \ {c} : ended'[d] = ended[d]
        /\ ended'[c] = ended[c] + 1
    BY <1>1 DEF WatcherEmitsEnd, TypeOK
  <2>3. pc[c] = "over" /\ c \in begun /\ ended[c] = 0
    BY <2>1 DEF EventInv
  <2>. QED
    BY <2>1, <2>2, <2>3 DEF EventInv
<1>2. ASSUME UNCHANGED <<pc, watching, begun, ended>> PROVE EventInv'
  BY <1>2 DEF EventInv
<1>3. ASSUME NEW c \in Calls, ExitProcess(c) \/ StreamEnds(c) \/ TerminateEntry(c)
      PROVE  UNCHANGED <<pc, watching, begun, ended>>
  BY <1>3 DEF ExitProcess, StreamEnds, TerminateEntry, callVars, eventVars
<1>4. ASSUME NEW w \in Writes, WriteStep(w) PROVE UNCHANGED <<pc, watching, begun, ended>>
  BY <1>4 DEF WriteStep, PrepareProcessHandles, StdinClosed, RefreshProcessState, DropWrite,
              callVars, eventVars
<1>5. ASSUME AbortCalls \/ DrainStore PROVE UNCHANGED <<pc, watching, begun, ended>>
  BY <1>5 DEF AbortCalls, DrainStore, callVars, eventVars
<1>. QED
  BY <1>1, <1>2, <1>3, <1>4, <1>5 DEF Next


\* A call gets its id with its first step, and its process after it.
LEMMA CallInvStep ==
    ASSUME TypeOK, CallInv, NEW c \in Calls, CallStep(c)
    PROVE  CallInv'
<1>. SUFFICES ASSUME NEW d \in Calls
              PROVE  /\ pc'[d] # "idle" => id'[d] \in Ids
                     /\ pc'[d] = "idle" => id'[d] = None /\ d \notin stale'
                     /\ pc'[d] \in {"idle", "open"} => proc'[d] = "none"
  BY DEF CallInv
<1>1. CASE AllocateProcessId(c)
  BY <1>1 DEF AllocateProcessId, TypeOK, CallInv, Goto, turnVars
<1>2. CASE RejectCall(c)
  BY <1>2 DEF RejectCall, TypeOK, CallInv, Goto, turnVars, DropUnheld
<1>3. CASE InterceptFails(c)
  BY <1>3 DEF InterceptFails, TypeOK, CallInv, Goto, turnVars
<1>4. CASE SpawnProcess(c)
  BY <1>4 DEF SpawnProcess, TypeOK, CallInv, Goto, turnVars
<1>5. CASE Escalate(c)
  BY <1>5 DEF Escalate, TypeOK, CallInv, Goto, turnVars
<1>6. CASE EmitBegin(c)
  BY <1>6 DEF EmitBegin, TypeOK, CallInv, Goto, turnVars
<1>7. CASE CollectOutput(c)
  BY <1>7 DEF CollectOutput, TypeOK, CallInv, Goto, turnVars
<1>8. CASE EmitEnd(c)
  BY <1>8 DEF EmitEnd, TypeOK, CallInv, Goto, turnVars
<1>9. CASE ReleaseProcessId(c)
  BY <1>9 DEF ReleaseProcessId, TypeOK, CallInv, Goto, turnVars, DropUnheld
<1>10. CASE StoreProcess(c)
  BY <1>10 DEF StoreProcess, TypeOK, CallInv, turnVars
<1>11. CASE SpawnExitWatcher(c)
  BY <1>11 DEF SpawnExitWatcher, TypeOK, CallInv, Goto, turnVars
<1>12. CASE DropCall(c)
  BY <1>12 DEF DropCall, TypeOK, CallInv, turnVars, DropUnheld, InFlight
<1>. QED
  BY <1>1, <1>2, <1>3, <1>4, <1>5, <1>6, <1>7, <1>8, <1>9, <1>10, <1>11, <1>12 DEF CallStep

\* The other steps move no call; a cleanup makes stale only calls that have started.
LEMMA CallInvOther ==
    ASSUME TypeOK, CallInv, Next, \A c \in Calls : ~CallStep(c)
    PROVE  CallInv'
<1>1. ASSUME NEW c \in Calls, ExitProcess(c) \/ TerminateEntry(c) PROVE CallInv'
  BY <1>1 DEF ExitProcess, TerminateEntry, TypeOK, CallInv, callVars, turnVars
<1>2. ASSUME NEW c \in Calls, StreamEnds(c) \/ WatcherEmitsEnd(c) PROVE CallInv'
  BY <1>2 DEF StreamEnds, WatcherEmitsEnd, CallInv, callVars, turnVars
<1>3. ASSUME NEW w \in Writes, WriteStep(w) PROVE CallInv'
  <2>1. UNCHANGED <<pc, id, proc, stale>>
    BY <1>3 DEF WriteStep, PrepareProcessHandles, StdinClosed, RefreshProcessState, DropWrite,
                callVars, turnVars
  <2>. QED
    BY <2>1 DEF CallInv
<1>4. ASSUME AbortCalls PROVE CallInv'
  BY <1>4 DEF AbortCalls, CallInv, callVars
<1>5. ASSUME DrainStore PROVE CallInv'
  BY <1>5 DEF DrainStore, CallInv, InFlight, callVars
<1>. QED
  BY <1>1, <1>2, <1>3, <1>4, <1>5 DEF Next

(***************************************************************************)
(* Owners of running processes                                             *)
(***************************************************************************)

\* A call ends and lets go of its process; its entry, if it has one, still holds it.
LEMMA OwnerEnds ==
    ASSUME ExecInv, NEW c \in Calls, pc[c] \notin {"idle", "over"},
           pc' = [pc EXCEPT ![c] = "over"], DropUnheld,
           UNCHANGED <<id, watching, doomed, stale>>,
           \/ UNCHANGED store
           \/ pc[c] \in Claiming /\ Remove(id[c])
    PROVE  OwnerInv'
<1>. USE DEF ExecInv
<1>. SUFFICES ASSUME NEW d \in Calls, proc'[d] = "running"
              PROVE  \/ pc'[d] \in Owning \ {"warn"}
                     \/ d \in Stored' \cup doomed'
                     \/ IdShared(d)'
  BY DEF OwnerInv
<1>1. proc[d] = "running" /\ Held(d)'
  BY DEF DropUnheld
<1>2. IdShared(d)' = IdShared(d)
  BY DEF IdShared
<1>3. CASE d = c
  <2>1. pc'[d] = "over"
    BY <1>3 DEF TypeOK
  <2>2. d \notin watching'
    BY <1>3 DEF EventInv
  <2>. QED
    BY <1>1, <2>1, <2>2 DEF Held, Owning, Stored
<1>4. CASE d # c
  <2>1. pc'[d] = pc[d]
    BY <1>4 DEF TypeOK
  <2>2. CASE d \in Stored
    <3>1. store[id[d]] = d /\ id[d] \in Ids
      BY <2>2, StoredHasId
    <3>2. CASE store'[id[d]] = d
      BY <3>1, <3>2 DEF Stored
    <3>3. CASE store'[id[d]] # d
      <4>1. id[d] = id[c] /\ pc[c] \in Claiming
        BY <3>1, <3>3 DEF Remove, TypeOK
      <4>. QED
        BY <1>2, <1>4, <2>2, <4>1 DEF UniqueInv, Claims
    <3>. QED
      BY <3>2, <3>3
  <2>. QED
    BY <1>1, <1>2, <2>1, <2>2 DEF OwnerInv
<1>. QED
  BY <1>3, <1>4

\* A call that goes on keeps its process.
LEMMA OwnerMoves ==
    ASSUME TypeOK, OwnerInv, NEW c \in Calls,
           NEW to \in Owning \ {"warn"}, pc' = [pc EXCEPT ![c] = to],
           \A d \in Calls \ {c} : proc'[d] = proc[d],
           UNCHANGED <<store, id, doomed, stale>>
    PROVE  OwnerInv'
<1>1. Stored' = Stored
  BY DEF Stored
<1>2. \A d \in Calls : IdShared(d)' = IdShared(d)
  BY DEF IdShared
<1>. QED
  BY <1>1, <1>2 DEF OwnerInv, TypeOK

\* Every step of an exec_command call leaves each running process with an owner.
LEMMA OwnerStep ==
    ASSUME ExecInv, NEW c \in Calls, CallStep(c)
    PROVE  OwnerInv'
<1>. USE DEF ExecInv
<1>1. CASE AllocateProcessId(c)
  <2>1. pc[c] = "idle" /\ proc[c] # "running"
    BY <1>1 DEF AllocateProcessId, Goto, CallInv
  <2>2. \A d \in Calls \ {c} : pc'[d] = pc[d] /\ id'[d] = id[d]
    BY <1>1 DEF AllocateProcessId, Goto, TypeOK
  <2>3. UNCHANGED <<store, proc, doomed, stale>>
    BY <1>1 DEF AllocateProcessId, turnVars
  <2>5. \A d \in Calls \ {c} : IdShared(d) => IdShared(d)'
    BY <1>1, AllocateShares
  <2>6. Stored' = Stored
    BY <2>3 DEF Stored
  <2>. QED
    BY <2>1, <2>2, <2>3, <2>5, <2>6 DEF OwnerInv
<1>2. CASE RejectCall(c)
  BY <1>2, OwnerEnds DEF RejectCall, Goto, Claiming, eventVars, turnVars
<1>3. CASE InterceptFails(c)
  <2>1. proc[c] # "running" /\ UNCHANGED <<store, proc, id, doomed, stale>>
    BY <1>3 DEF InterceptFails, Goto, CallInv, storeVars, turnVars
  <2>2. \A d \in Calls \ {c} : pc'[d] = pc[d]
    BY <1>3 DEF InterceptFails, Goto, TypeOK
  <2>. QED
    BY <2>1, <2>2 DEF OwnerInv, IdShared, Stored
<1>4. CASE SpawnProcess(c)
  <2>1. \A d \in Calls \ {c} : proc'[d] = proc[d]
    BY <1>4 DEF SpawnProcess, TypeOK
  <2>. QED
    BY <1>4, <2>1, OwnerMoves DEF SpawnProcess, Goto, Owning, storeVars, turnVars
<1>5. CASE Escalate(c)
  <2>1. /\ proc'[c] = "none"
        /\ \A d \in Calls \ {c} : proc'[d] = proc[d] /\ pc'[d] = pc[d]
    BY <1>5 DEF Escalate, Goto, TypeOK
  <2>2. UNCHANGED <<store, id, doomed, stale>>
    BY <1>5 DEF Escalate, storeVars, turnVars
  <2>. QED
    BY <2>1, <2>2 DEF OwnerInv, IdShared, Stored
<1>6. CASE EmitBegin(c)
  BY <1>6, OwnerMoves DEF EmitBegin, Goto, Owning, turnVars
<1>7. CASE CollectOutput(c)
  BY <1>7, OwnerMoves DEF CollectOutput, Goto, Owning, storeVars, turnVars
<1>8. CASE EmitEnd(c)
  BY <1>8, OwnerMoves DEF EmitEnd, Goto, Owning, storeVars, turnVars
<1>9. CASE ReleaseProcessId(c)
  BY <1>9, OwnerEnds DEF ReleaseProcessId, Goto, Claiming, eventVars, turnVars
<1>10. CASE StoreProcess(c)
  <2>. SUFFICES ASSUME NEW d \in Calls, proc'[d] = "running"
                PROVE  \/ pc'[d] \in Owning \ {"warn"}
                       \/ d \in Stored' \cup doomed'
                       \/ IdShared(d)'
    BY DEF OwnerInv
  <2>1. proc[d] = "running" /\ d \notin Prune
    BY <1>10 DEF StoreProcess
  <2>2. UNCHANGED <<id, doomed, stale>> /\ pc[c] = "store"
    BY <1>10 DEF StoreProcess, turnVars
  <2>3. IdShared(d)' = IdShared(d)
    BY <2>2 DEF IdShared
  <2>4. CASE d = c
    BY <1>10, <2>4, StoreSteady
  <2>5. CASE d # c
    <3>1. pc'[d] = pc[d]
      BY <1>10, <2>5 DEF StoreProcess, TypeOK
    <3>2. CASE d \in Stored
      <4>1. store[id[d]] = d /\ id[d] \in Ids
        BY <3>2, StoredHasId
      <4>2. CASE id[d] = id[c]
        BY <2>2, <2>3, <2>5, <3>2, <4>2 DEF UniqueInv, Claims, Claiming
      <4>3. CASE id[d] # id[c]
        <5>1. store'[id[d]] = d
          BY <1>10, <2>1, <4>1, <4>3, StoreSteady
        <5>. QED
          BY <4>1, <5>1 DEF Stored
      <4>. QED
        BY <4>2, <4>3
    <3>. QED
      BY <2>1, <2>2, <2>3, <3>1, <3>2 DEF OwnerInv
  <2>. QED
    BY <2>4, <2>5
<1>11. CASE SpawnExitWatcher(c)
  <2>1. UNCHANGED <<store, proc, id, doomed, stale>> /\ pc[c] = "warn"
    BY <1>11 DEF SpawnExitWatcher, Goto, storeVars, turnVars
  <2>2. \A d \in Calls \ {c} : pc'[d] = pc[d]
    BY <1>11 DEF SpawnExitWatcher, Goto, TypeOK
  <2>. QED
    BY <2>1, <2>2 DEF OwnerInv, IdShared, Stored
<1>12. CASE DropCall(c)
  BY <1>12, OwnerEnds DEF DropCall, InFlight, storeVars, eventVars, turnVars
<1>. QED
  BY <1>1, <1>2, <1>3, <1>4, <1>5, <1>6, <1>7, <1>8, <1>9, <1>10, <1>11, <1>12 DEF CallStep

\* So does every other step: a cleanup dooms the entries it takes, and only what
\* has exited is removed by a write.
LEMMA OwnerOther ==
    ASSUME ExecInv, Next, \A c \in Calls : ~CallStep(c)
    PROVE  OwnerInv'
<1>. USE DEF ExecInv
<1>1. ASSUME NEW c \in Calls, ExitProcess(c) PROVE OwnerInv'
  BY <1>1 DEF ExitProcess, OwnerInv, TypeOK, IdShared, Stored, storeVars, callVars, turnVars
<1>2. ASSUME NEW c \in Calls, StreamEnds(c) \/ WatcherEmitsEnd(c) PROVE OwnerInv'
  BY <1>2 DEF StreamEnds, WatcherEmitsEnd, OwnerInv, IdShared, Stored, storeVars, callVars,
              turnVars
<1>3. ASSUME NEW c \in Calls, TerminateEntry(c) PROVE OwnerInv'
  BY <1>3 DEF TerminateEntry, OwnerInv, TypeOK, IdShared, Stored, storeVars, callVars
<1>4. ASSUME NEW w \in Writes, NEW i \in Ids, PrepareProcessHandles(w, i) PROVE OwnerInv'
  BY <1>4 DEF PrepareProcessHandles, OwnerInv, IdShared, Stored, callVars, turnVars
<1>5. ASSUME NEW w \in Writes, StdinClosed(w) \/ DropWrite(w) PROVE OwnerInv'
  BY <1>5 DEF StdinClosed, DropWrite, OwnerInv, IdShared, Stored, storeVars, callVars, turnVars
<1>6. ASSUME NEW w \in Writes, RefreshProcessState(w) PROVE OwnerInv'
  <2>1. UNCHANGED <<pc, proc, id, doomed, stale>>
    BY <1>6 DEF RefreshProcessState, callVars, turnVars
  <2>2. \A d \in Calls : d \in Stored /\ proc[d] = "running" => d \in Stored'
    <3>. SUFFICES ASSUME NEW d \in Calls, d \in Stored, proc[d] = "running"
                  PROVE  d \in Stored'
      OBVIOUS
    <3>1. store[id[d]] = d /\ id[d] \in Ids
      BY StoredHasId
    <3>2. store'[id[d]] = d
      BY <1>6, <3>1, RefreshSteady
    <3>. QED
      BY <3>1, <3>2 DEF Stored
  <2>3. \A d \in Calls : IdShared(d)' = IdShared(d)
    BY <2>1 DEF IdShared
  <2>. QED
    BY <2>1, <2>2, <2>3 DEF OwnerInv
<1>7. ASSUME AbortCalls PROVE OwnerInv'
  BY <1>7 DEF AbortCalls, OwnerInv, IdShared, Stored, storeVars, callVars
<1>8. ASSUME DrainStore PROVE OwnerInv'
  <2>1. UNCHANGED <<pc, proc, id>> /\ doomed = {} /\ doomed' = Stored /\ stale \subseteq stale'
    BY <1>8 DEF DrainStore, Quiet, callVars
  <2>2. \A d \in Calls : IdShared(d) => IdShared(d)'
    BY <2>1 DEF IdShared
  <2>. QED
    BY <2>1, <2>2 DEF OwnerInv
<1>. QED
  BY <1>1, <1>2, <1>3, <1>4, <1>5, <1>6, <1>7, <1>8 DEF Next, WriteStep

(***************************************************************************)
(* The answers of write_stdin                                              *)
(***************************************************************************)

\* The answer of one write.
Answers(w) ==
    w \notin aborted /\ answer[w] # None => answer[w] = target[w] \/ IdShared(target[w])

\* A steady step in which a write has no part leaves what is known of it.
LEMMA PollsKept ==
    ASSUME ExecInv, Steady, aborted \subseteq aborted', NEW w \in Writes,
           wpc'[w] = wpc[w], wid'[w] = wid[w], target'[w] = target[w], answer'[w] = answer[w]
    PROVE  Polls(w)' /\ Answers(w)'
<1>. USE DEF ExecInv
<1>0. Polls(w) /\ Answers(w)
  BY DEF WriteInv, AnswerNamesTarget, Answers
<1>1. target[w] \in Calls \cup {None}
  BY DEF TypeOK
<1>2. target'[w] # None => pc'[target'[w]] # "idle"
  BY <1>0, <1>1 DEF Polls, Steady
<1>4. IdShared(target[w]) => IdShared(target[w])'
  <2>. DEFINE b == target[w]
              Shares(d) == id[d] = id[b] /\ {b, d} \cap stale # {}
  <2>. SUFFICES ASSUME \E d \in Calls \ {b} : Shares(d)
                PROVE  \E d \in Calls \ {target'[w]} :
                          id'[d] = id'[target'[w]] /\ {target'[w], d} \cap stale' # {}
    BY DEF IdShared
  <2>. QED
    BY DEF Steady
<1>5. ASSUME wpc'[w] = "poll", w \notin aborted', NEW c \in Calls, Claims(c)', id'[c] = wid'[w]
      PROVE  c = target'[w] \/ IdShared(target[w])'
  <2>1. Claims(c) /\ id[c] = wid[w] /\ wpc[w] = "poll" /\ w \notin aborted
    BY <1>5, SteadyClaims DEF Steady
  <2>. QED
    BY <1>0, <1>4, <2>1 DEF Polls
<1>6. Polls(w)'
  BY <1>0, <1>2, <1>5 DEF Polls
<1>7. Answers(w)'
  BY <1>0, <1>4 DEF Answers
<1>. QED
  BY <1>6, <1>7

\* A write that is not aborted keeps calls from starting and a cleanup from running:
\* both wait for the lock (Quiet).
LEMMA QuietPolls ==
    ASSUME ExecInv, Quiet, NEW w \in Writes, w \notin aborted
    PROVE  wpc[w] # "poll"
  BY DEF Quiet, Writing

\* write_stdin finds its process in the store: what has its id is that process.
LEMMA PrepareKeeps ==
    ASSUME ExecInv, NEW w \in Writes, NEW i \in Ids, PrepareProcessHandles(w, i)
    PROVE  Polls(w)' /\ Answers(w)'
<1>. USE DEF ExecInv
<1>1. /\ wid'[w] = i /\ target'[w] = store[i] /\ answer'[w] = answer[w]
      /\ wpc[w] = "idle" /\ wpc'[w] = IF store[i] = None THEN "over" ELSE "poll"
  BY DEF PrepareProcessHandles, TypeOK
<1>2. UNCHANGED <<store, pc, id, stale, aborted>>
  BY DEF PrepareProcessHandles, callVars, turnVars
<1>3. answer'[w] = None
  BY <1>1 DEF WriteInv, Polls
<1>4. store[i] # None => /\ store[i] \in Calls /\ store[i] \in Stored
                         /\ id[store[i]] = i /\ pc[store[i]] # "idle"
  BY DEF TypeOK, StoreInv, Stored
<1>5. ASSUME store[i] # None, NEW c \in Calls, Claims(c), id[c] = i
      PROVE  c = store[i] \/ IdShared(store[i])
  BY <1>4, <1>5 DEF UniqueInv, Claims
<1>6. \A c \in Calls : Claims(c)' = Claims(c)
  BY <1>2 DEF Claims, Stored
<1>7. Answers(w)'
  BY <1>3 DEF Answers
<1>8. ASSUME wpc'[w] = "poll", NEW c \in Calls, Claims(c)', id'[c] = wid'[w]
      PROVE  c = target'[w] \/ IdShared(target[w])'
  BY <1>1, <1>2, <1>5, <1>6, <1>8 DEF IdShared
<1>9. Polls(w)'
  BY <1>1, <1>2, <1>3, <1>4, <1>8 DEF Polls
<1>. QED
  BY <1>7, <1>9

\* A write that ends without looking the id up again answers nothing.
LEMMA EndKeeps ==
    ASSUME ExecInv, NEW w \in Writes, StdinClosed(w) \/ DropWrite(w)
    PROVE  Polls(w)' /\ Answers(w)'
<1>. USE DEF ExecInv
<1>1. wpc[w] = "poll" /\ wpc'[w] = "over" /\ UNCHANGED <<target, answer, pc>>
  BY DEF StdinClosed, DropWrite, Writing, TypeOK, callVars
<1>2. answer[w] = None /\ (target[w] # None => pc[target[w]] # "idle")
  BY <1>1 DEF WriteInv, Polls
<1>. QED
  BY <1>1, <1>2 DEF Polls, Answers

\* What refresh_process_state finds under the id is the target, or the id is shared.
LEMMA RefreshKeeps ==
    ASSUME ExecInv, NEW w \in Writes, RefreshProcessState(w)
    PROVE  Polls(w)' /\ Answers(w)'
<1>. USE DEF ExecInv
<1>1. /\ wpc[w] = "poll" /\ wpc'[w] = "over" /\ answer'[w] = store[wid[w]]
      /\ UNCHANGED <<target, pc, id, stale, aborted>>
  BY DEF RefreshProcessState, TypeOK, callVars, turnVars
<1>2. wid[w] \in Ids /\ target[w] \in Calls /\ pc[target[w]] # "idle"
  BY <1>1, UnifiedExecAssumption DEF WriteInv, Polls
<1>3. Polls(w)'
  BY <1>1, <1>2 DEF Polls
<1>4. ASSUME w \notin aborted, store[wid[w]] # None
      PROVE  store[wid[w]] = target[w] \/ IdShared(target[w])
  <2>1. store[wid[w]] \in Calls /\ Claims(store[wid[w]]) /\ id[store[wid[w]]] = wid[w]
    BY <1>2, <1>4 DEF TypeOK, StoreInv, Claims, Stored
  <2>. QED
    BY <1>1, <1>4, <2>1 DEF WriteInv, Polls
<1>5. Answers(w)'
  BY <1>1, <1>4 DEF Answers, IdShared
<1>. QED
  BY <1>3, <1>5

\* No call starts and no cleanup runs while a write that is not aborted polls, so
\* they leave what is known of the writes.
LEMMA QuietKeeps ==
    ASSUME ExecInv, NEW w \in Writes,
           DrainStore \/ \E c \in Calls : AllocateProcessId(c)
    PROVE  Polls(w)' /\ Answers(w)'
<1>. USE DEF ExecInv
<1>1. UNCHANGED <<wpc, wid, target, answer, aborted>> /\ Quiet /\ stale \subseteq stale'
  BY DEF DrainStore, AllocateProcessId, writeVars, turnVars
<1>2. \A d \in Calls : pc[d] # "idle" => pc'[d] # "idle" /\ id'[d] = id[d]
  BY DEF DrainStore, AllocateProcessId, Goto, TypeOK, callVars
<1>3. Polls(w) /\ Answers(w)
  BY DEF WriteInv, AnswerNamesTarget, Answers
<1>4. target[w] \in Calls \cup {None}
  BY DEF TypeOK
<1>5. wpc[w] = "poll" => w \in aborted
  BY <1>1, QuietPolls
<1>6. Polls(w)'
  BY <1>1, <1>2, <1>3, <1>4, <1>5 DEF Polls
<1>7. ASSUME answer[w] # None, IdShared(target[w])
      PROVE  IdShared(target[w])'
  <2>1. target[w] \in Calls /\ pc[target[w]] # "idle"
    BY <1>3, <1>7, UnifiedExecAssumption DEF Polls
  <2>2. PICK d \in Calls \ {target[w]} : id[d] = id[target[w]] /\ {target[w], d} \cap stale # {}
    BY <1>7 DEF IdShared
  <2>3. id[d] \in Ids
    BY <2>1, <2>2 DEF CallInv
  <2>4. pc[d] # "idle"
    BY <2>3, UnifiedExecAssumption DEF CallInv
  <2>5. id'[d] = id'[target[w]] /\ {target[w], d} \cap stale' # {}
    BY <1>1, <1>2, <2>1, <2>2, <2>4
  <2>. QED
    BY <1>1, <2>2, <2>5 DEF IdShared
<1>8. Answers(w)'
  BY <1>1, <1>3, <1>7 DEF Answers
<1>. QED
  BY <1>6, <1>8

\* Every step keeps what is known of the writes, and their answers.
LEMMA WritesKept ==
    ASSUME ExecInv, Next
    PROVE  WriteInv' /\ AnswerNamesTarget'
<1>. USE DEF ExecInv
<1>. SUFFICES ASSUME NEW v \in Writes PROVE Polls(v)' /\ Answers(v)'
  BY DEF WriteInv, AnswerNamesTarget, Answers
<1>1. CASE DrainStore \/ \E c \in Calls : AllocateProcessId(c)
  BY <1>1, QuietKeeps
<1>2. ASSUME NEW c \in Calls, CallStep(c), ~AllocateProcessId(c)
      PROVE  Polls(v)' /\ Answers(v)'
  <2>1. Steady
    BY <1>2, CallSteady
  <2>2. UNCHANGED <<writeVars, aborted>>
    BY <1>2 DEF CallStep, RejectCall, InterceptFails, SpawnProcess, Escalate, EmitBegin,
                CollectOutput, EmitEnd, ReleaseProcessId, StoreProcess, SpawnExitWatcher,
                DropCall, turnVars
  <2>. QED
    BY <2>1, <2>2, PollsKept DEF writeVars
<1>3. ASSUME \A c \in Calls : ~CallStep(c), ~DrainStore
      PROVE  Polls(v)' /\ Answers(v)'
  <2>1. Steady
    BY <1>3, OtherSteady
  <2>2. ASSUME NEW c \in Calls, \/ ExitProcess(c) \/ StreamEnds(c)
                                \/ WatcherEmitsEnd(c) \/ TerminateEntry(c)
        PROVE  Polls(v)' /\ Answers(v)'
    <3>1. UNCHANGED <<writeVars, aborted>>
      BY <2>2 DEF ExitProcess, StreamEnds, WatcherEmitsEnd, TerminateEntry, turnVars
    <3>. QED
      BY <2>1, <3>1, PollsKept DEF writeVars
  <2>3. ASSUME AbortCalls PROVE Polls(v)' /\ Answers(v)'
    <3>1. UNCHANGED writeVars /\ aborted \subseteq aborted'
      BY <2>3 DEF AbortCalls
    <3>. QED
      BY <2>1, <3>1, PollsKept DEF writeVars
  <2>4. ASSUME NEW w \in Writes, WriteStep(w) PROVE Polls(v)' /\ Answers(v)'
    <3>1. CASE v = w
      BY <2>4, <3>1, PrepareKeeps, EndKeeps, RefreshKeeps DEF WriteStep
    <3>2. CASE v # w
      <4>1. /\ aborted' = aborted /\ wpc'[v] = wpc[v] /\ wid'[v] = wid[v]
            /\ target'[v] = target[v] /\ answer'[v] = answer[v]
        BY <2>4, <3>2 DEF WriteStep, PrepareProcessHandles, StdinClosed, RefreshProcessState,
                          DropWrite, TypeOK, turnVars
      <4>. QED
        BY <2>1, <4>1, PollsKept
    <3>. QED
      BY <3>1, <3>2
  <2>. QED
    BY <1>3, <2>2, <2>3, <2>4 DEF Next
<1>. QED
  BY <1>1, <1>2, <1>3 DEF Next

(***************************************************************************)
(* The bound of the store                                                  *)
(***************************************************************************)

\* A step that starts no poll of a process leaves last_used alone; one that does
\* takes an instant of its own.
LEMMA ClockKept ==
    ASSUME ExecInv, Next
    PROVE  ClockInv'
<1>. USE DEF ExecInv
<1>1. CASE UNCHANGED <<lastUsed, begun>>
  BY <1>1 DEF ClockInv
<1>2. ASSUME NEW c \in Calls, c \in begun', begun' \subseteq begun \cup {c},
             lastUsed' = [lastUsed EXCEPT ![c] = clock + 1]
      PROVE  ClockInv'
  <2>1. clock \in Nat /\ lastUsed \in [Calls -> 0..clock] /\ begun \subseteq Calls
    BY DEF TypeOK
  <2>2. lastUsed'[c] = clock + 1 /\ \A d \in Calls \ {c} : lastUsed'[d] = lastUsed[d]
    BY <1>2, <2>1
  <2>3. \A d \in Calls \ {c} : lastUsed[d] \in 0..clock
    BY <2>1
  <2>4. \A d \in begun' : lastUsed'[d] > 0
    BY <1>2, <2>1, <2>2, <2>3 DEF ClockInv
  <2>5. \A d, e \in begun' : lastUsed'[d] = lastUsed'[e] => d = e
    <3>. SUFFICES ASSUME NEW d \in begun', NEW e \in begun', lastUsed'[d] = lastUsed'[e], d # e
                  PROVE  FALSE
      OBVIOUS
    <3>1. CASE d = c
      BY <1>2, <2>1, <2>2, <2>3, <3>1
    <3>2. CASE e = c
      BY <1>2, <2>1, <2>2, <2>3, <3>2
    <3>3. CASE d # c /\ e # c
      BY <1>2, <2>1, <2>2, <3>3 DEF ClockInv
    <3>. QED
      BY <3>1, <3>2, <3>3
  <2>. QED
    BY <2>4, <2>5 DEF ClockInv
<1>3. ASSUME NEW c \in Calls, CallStep(c) PROVE ClockInv'
  <2>1. CASE EmitBegin(c)
    BY <1>2, <2>1 DEF EmitBegin
  <2>. QED
    BY <1>1, <1>3, <2>1
    DEF CallStep, AllocateProcessId, RejectCall, InterceptFails, SpawnProcess, Escalate,
        CollectOutput, EmitEnd, ReleaseProcessId, StoreProcess, SpawnExitWatcher, DropCall,
        storeVars, eventVars
<1>4. ASSUME NEW w \in Writes, WriteStep(w) PROVE ClockInv'
  <2>1. ASSUME NEW i \in Ids, PrepareProcessHandles(w, i) PROVE ClockInv'
    <3>1. begun' = begun
      BY <2>1 DEF PrepareProcessHandles, eventVars
    <3>2. CASE store[i] = None
      BY <1>1, <2>1, <3>1, <3>2 DEF PrepareProcessHandles
    <3>3. CASE store[i] # None
      <4>1. store[i] \in Calls /\ store[i] \in begun
        BY <3>3 DEF TypeOK, StoreInv
      <4>. QED
        BY <1>2, <2>1, <3>1, <3>3, <4>1 DEF PrepareProcessHandles
    <3>. QED
      BY <3>2, <3>3
  <2>. QED
    BY <1>1, <1>4, <2>1
    DEF WriteStep, StdinClosed, RefreshProcessState, DropWrite, storeVars, eventVars
<1>5. ASSUME NEW c \in Calls, \/ ExitProcess(c) \/ StreamEnds(c)
                              \/ WatcherEmitsEnd(c) \/ TerminateEntry(c)
      PROVE  ClockInv'
  BY <1>1, <1>5
  DEF ExitProcess, StreamEnds, WatcherEmitsEnd, TerminateEntry, storeVars, eventVars
<1>6. ASSUME AbortCalls \/ DrainStore PROVE ClockInv'
  BY <1>1, <1>6 DEF AbortCalls, DrainStore, storeVars, eventVars
<1>. QED
  BY <1>3, <1>4, <1>5, <1>6 DEF Next

\* A set of natural numbers that is not empty has a least element.
LEMMA NatSetMin ==
    ASSUME NEW S, S \subseteq Nat, S # {}
    PROVE  \E m \in S : \A n \in S : m <= n
<1>1. PICK m \in S : \A n \in S : ~(<<n, m>> \in OpToRel(<, Nat))
  BY NatLessThanWellFounded, WFMin, Zenon
<1>2. \A n \in S : ~(n < m)
  BY <1>1 DEF OpToRel
<1>. QED
  BY <1>2

\* Of calls there is always one that was used least recently.
LEMMA LeastRecentExists ==
    ASSUME TypeOK, NEW S, S \subseteq Calls, S # {}
    PROVE  LeastRecent(S) # {}
<1>1. \A c \in S : lastUsed[c] \in Nat
  BY DEF TypeOK
<1>2. PICK m \in {lastUsed[c] : c \in S} : \A n \in {lastUsed[c] : c \in S} : m <= n
  BY <1>1, NatSetMin
<1>3. PICK c \in S : lastUsed[c] = m
  BY <1>2
<1>. QED
  BY <1>2, <1>3 DEF LeastRecent

\* A full store has a process that pruning may take: the least recently used one
\* has all the others after it, and these are not fewer than the protected ones.
LEMMA PruneTakes ==
    ASSUME ExecInv, Cardinality(Stored) >= MaxProcs
    PROVE  Prune # {}
<1>. USE DEF ExecInv
<1>0. /\ MaxProcs \in Nat /\ Protected \in Nat /\ Protected < MaxProcs /\ IsFiniteSet(Calls)
  BY UnifiedExecAssumption
<1>1. Stored \subseteq Calls /\ Stored \subseteq begun
  BY StoredHasId
<1>2. IsFiniteSet(Stored) /\ Cardinality(Stored) \in Nat
  BY <1>0, <1>1, FS_Subset, FS_CardinalityType
<1>3. Stored # {}
  BY <1>0, <1>2, FS_EmptySet
<1>4. PICK c \in Stored : \A d \in Stored : lastUsed[c] <= lastUsed[d]
  BY <1>1, <1>3, LeastRecentExists DEF LeastRecent
<1>5. {d \in Stored : lastUsed[d] > lastUsed[c]} = Stored \ {c}
  <2>1. \A d \in Stored : lastUsed[d] \in Nat
    BY <1>1 DEF TypeOK
  <2>2. \A d \in Stored : d # c => lastUsed[d] # lastUsed[c]
    BY <1>1 DEF ClockInv
  <2>. QED
    BY <1>4, <2>1, <2>2
<1>6. Cardinality(Stored \ {c}) = Cardinality(Stored) - 1
  BY <1>2, FS_RemoveElement
<1>7. c \notin MostRecent
  <2>1. ~(Cardinality(Stored \ {c}) < Protected)
    BY <1>0, <1>2, <1>6
  <2>. QED
    BY <1>5, <2>1 DEF MostRecent
<1>8. ~(Cardinality(Stored) < MaxProcs)
  BY <1>0, <1>2
<1>9. ProcessToPrune # {}
  <2>. DEFINE candidates == Stored \ MostRecent
              exited == {d \in candidates : proc[d] = "exited"}
              chosen == IF exited # {} THEN exited ELSE candidates
  <2>1. chosen # {} /\ chosen \subseteq Calls
    BY <1>1, <1>7
  <2>2. LeastRecent(chosen) # {}
    BY <2>1, LeastRecentExists
  <2>. QED
    BY <2>2 DEF ProcessToPrune
<1>. QED
  BY <1>8, <1>9 DEF Prune

\* Storing a process keeps the store within its bound.
LEMMA StoreKeepsBound ==
    ASSUME ExecInv, NEW c \in Calls, StoreProcess(c)
    PROVE  StoreBounded'
<1>. USE DEF ExecInv
<1>0. MaxProcs \in Nat /\ Protected \in Nat /\ Protected < MaxProcs /\ IsFiniteSet(Calls)
  BY UnifiedExecAssumption
<1>1. IsFiniteSet(Stored) /\ Cardinality(Stored) \in Nat /\ Stored \subseteq Calls
  BY <1>0, FS_Subset, FS_CardinalityType DEF Stored
<1>2. Stored' \subseteq (Stored \ Prune) \cup {c}
  BY StoreSteady, UnifiedExecAssumption DEF Stored
<1>3. IsFiniteSet(Stored \ Prune) /\ Cardinality(Stored \ Prune) \in Nat
  BY <1>1, FS_Subset, FS_CardinalityType
<1>4. Cardinality(Stored \ Prune) < MaxProcs
  <2>1. CASE Cardinality(Stored) < MaxProcs
    <3>1. Cardinality(Stored \ Prune) <= Cardinality(Stored)
      BY <1>1, FS_Subset
    <3>. QED
      BY <1>0, <1>1, <1>3, <2>1, <3>1
  <2>2. CASE ~(Cardinality(Stored) < MaxProcs)
    <3>1. Cardinality(Stored) = MaxProcs
      BY <1>0, <1>1, <2>2 DEF StoreBounded
    <3>2. PICK d \in Prune : d \in Stored
      BY <1>0, <3>1, PruneTakes, PruneIsStored
    <3>3. Cardinality(Stored \ {d}) = MaxProcs - 1
      BY <1>1, <3>1, <3>2, FS_RemoveElement
    <3>4. IsFiniteSet(Stored \ {d}) /\ Stored \ Prune \subseteq Stored \ {d}
      BY <1>1, <3>2, FS_Subset
    <3>5. Cardinality(Stored \ Prune) <= Cardinality(Stored \ {d})
      BY <3>4, FS_Subset
    <3>. QED
      BY <1>0, <1>3, <3>3, <3>5
  <2>. QED
    BY <2>1, <2>2
<1>5. /\ IsFiniteSet((Stored \ Prune) \cup {c})
      /\ Cardinality((Stored \ Prune) \cup {c}) <= Cardinality(Stored \ Prune) + 1
  <2>1. /\ IsFiniteSet((Stored \ Prune) \cup {c})
        /\ \/ Cardinality((Stored \ Prune) \cup {c}) = Cardinality(Stored \ Prune)
           \/ Cardinality((Stored \ Prune) \cup {c}) = Cardinality(Stored \ Prune) + 1
    BY <1>3, FS_AddElement
  <2>. QED
    BY <1>3, <2>1
<1>6. Cardinality(Stored') <= Cardinality((Stored \ Prune) \cup {c}) /\ IsFiniteSet(Stored')
  BY <1>2, <1>5, FS_Subset
<1>7. Cardinality(Stored') \in Nat /\ Cardinality((Stored \ Prune) \cup {c}) \in Nat
  BY <1>5, <1>6, FS_CardinalityType
<1>8. Cardinality(Stored') <= MaxProcs
  BY <1>0, <1>3, <1>4, <1>5, <1>6, <1>7
<1>. QED
  BY <1>8 DEF StoreBounded

\* No other step stores a process.
LEMMA OnlyStoreProcess ==
    ASSUME ExecInv, Next, \A c \in Calls : ~StoreProcess(c)
    PROVE  Stored' \subseteq Stored
<1>. USE DEF ExecInv
<1>1. ASSUME \A i \in Ids : store'[i] \in {store[i], None} PROVE Stored' \subseteq Stored
  BY <1>1, UnifiedExecAssumption DEF Stored
<1>2. ASSUME NEW c \in Calls, CallStep(c) PROVE \A i \in Ids : store'[i] \in {store[i], None}
  BY <1>2 DEF CallStep, AllocateProcessId, RejectCall, InterceptFails, SpawnProcess, Escalate,
              EmitBegin, CollectOutput, EmitEnd, ReleaseProcessId, SpawnExitWatcher, DropCall,
              Remove, TypeOK, storeVars
<1>3. ASSUME NEW w \in Writes, WriteStep(w)
      PROVE  \A i \in Ids : store'[i] \in {store[i], None}
  BY <1>3 DEF WriteStep, PrepareProcessHandles, StdinClosed, RefreshProcessState, DropWrite,
              Remove, TypeOK, storeVars
<1>4. ASSUME NEW c \in Calls, \/ ExitProcess(c) \/ StreamEnds(c)
                              \/ WatcherEmitsEnd(c) \/ TerminateEntry(c)
      PROVE  \A i \in Ids : store'[i] \in {store[i], None}
  BY <1>4 DEF ExitProcess, StreamEnds, WatcherEmitsEnd, TerminateEntry, storeVars
<1>5. ASSUME AbortCalls \/ DrainStore PROVE \A i \in Ids : store'[i] \in {store[i], None}
  BY <1>5 DEF AbortCalls, DrainStore, storeVars
<1>. QED
  BY <1>1, <1>2, <1>3, <1>4, <1>5 DEF Next

\* Every step keeps the store within its bound.
LEMMA BoundKept ==
    ASSUME ExecInv, Next
    PROVE  StoreBounded'
<1>1. CASE \E c \in Calls : StoreProcess(c)
  BY <1>1, StoreKeepsBound
<1>2. CASE \A c \in Calls : ~StoreProcess(c)
  <2>0. MaxProcs \in Nat /\ IsFiniteSet(Calls)
    BY UnifiedExecAssumption
  <2>1. Stored' \subseteq Stored
    BY <1>2, OnlyStoreProcess
  <2>2. IsFiniteSet(Stored)
    BY <2>0, FS_Subset DEF Stored
  <2>3. Cardinality(Stored') <= Cardinality(Stored) /\ IsFiniteSet(Stored')
    BY <2>1, <2>2, FS_Subset
  <2>4. Cardinality(Stored') \in Nat /\ Cardinality(Stored) \in Nat
    BY <2>2, <2>3, FS_CardinalityType
  <2>5. Cardinality(Stored) <= MaxProcs
    BY DEF ExecInv, StoreBounded
  <2>. QED
    BY <2>0, <2>3, <2>4, <2>5 DEF StoreBounded
<1>. QED
  BY <1>1, <1>2

(***************************************************************************)
(* The theorems                                                            *)
(***************************************************************************)

\* Every step keeps the invariant.
LEMMA NextInv == ASSUME ExecInv, Next PROVE ExecInv'
<1>. USE DEF ExecInv
<1>1. TypeOK'
  BY CallTypes, OtherTypes
<1>2. EventInv'
  BY EventStep, EventOther
<1>3. CallInv'
  BY CallInvStep, CallInvOther
<1>4. StoreInv' /\ ClaimInv' /\ UniqueInv' /\ CleanInv'
  <2>1. CASE DrainStore
    BY <2>1, DrainKeeps
  <2>2. ASSUME NEW c \in Calls, CallStep(c)
        PROVE  StoreInv' /\ ClaimInv' /\ UniqueInv' /\ CleanInv'
    BY <2>2, AllocateKeeps, CallSteady, SteadyKeeps
  <2>3. CASE ~DrainStore /\ \A c \in Calls : ~CallStep(c)
    BY <2>3, OtherSteady, SteadyKeeps
  <2>. QED
    BY <2>1, <2>2, <2>3
<1>5. OwnerInv'
  BY OwnerStep, OwnerOther
<1>6. WriteInv' /\ AnswerNamesTarget'
  BY WritesKept
<1>7. ClockInv'
  BY ClockKept
<1>8. StoreBounded'
  BY BoundKept
<1>. QED
  BY <1>1, <1>2, <1>3, <1>4, <1>5, <1>6, <1>7, <1>8

\* A stuttering step does, too.
LEMMA StutterInv == ASSUME ExecInv, UNCHANGED vars PROVE ExecInv'
<1>. USE DEF ExecInv, vars, storeVars, callVars, eventVars, writeVars, turnVars
<1>0. Stored' = Stored
  BY DEF Stored
<1>1. TypeOK' /\ EventInv' /\ CallInv' /\ StoreInv'
  BY DEF TypeOK, EventInv, CallInv, StoreInv
<1>2. \A c : /\ IdShared(c)' = IdShared(c)
             /\ StaleId(c)' = StaleId(c)
             /\ Claims(c)' = Claims(c)
  BY <1>0 DEF IdShared, StaleId, Claims
<1>3. ClaimInv' /\ UniqueInv' /\ OwnerInv' /\ CleanInv'
  BY <1>0, <1>2 DEF ClaimInv, UniqueInv, OwnerInv, CleanInv
<1>4. WriteInv' /\ AnswerNamesTarget'
  BY <1>2 DEF WriteInv, Polls, AnswerNamesTarget
<1>5. ClockInv' /\ StoreBounded'
  BY <1>0 DEF ClockInv, StoreBounded
<1>. QED
  BY <1>1, <1>3, <1>4, <1>5

\* The invariant holds in every state that the store of unified exec, its calls,
\* writes, watchers and cleanups can reach.
THEOREM ExecInvariant == Spec => []ExecInv
<1>1. ExecInv /\ [Next]_vars => ExecInv'
  BY NextInv, StutterInv
<1>. QED
  BY InitInv, <1>1, PTL DEF Spec

\* Every variable has its type, and no last_used lies in the future.
THEOREM TypeCorrect == Spec => []TypeOK
<1>1. ExecInv => TypeOK
  BY DEF ExecInv
<1>. QED
  BY ExecInvariant, <1>1, PTL

\* The store never holds more than MAX_UNIFIED_EXEC_PROCESSES: whenever it is full,
\* prune_processes_if_needed finds a process that it may take.
THEOREM StoreAlwaysBounded == Spec => []StoreBounded
<1>1. ExecInv => StoreBounded
  BY DEF ExecInv
<1>. QED
  BY ExecInvariant, <1>1, PTL

\* ExecCommandEnd is emitted once at most for a call, after its ExecCommandBegin,
\* although the call, its exit watcher and an abort race for it.
THEOREM OneEndPerCall == Spec => []EndOnce
<1>1. ExecInv => EndOnce
  BY DEF ExecInv, EventInv, EndOnce
<1>. QED
  BY ExecInvariant, <1>1, PTL

\* A running process has an owner that ends it or is where the next cleanup finds
\* it, unless a call that outlived a cleanup has the same process id.
THEOREM ProcessesAreOwned == Spec => []NoProcessLost
<1>1. ExecInv => NoProcessLost
  BY DEF ExecInv, OwnerInv, NoProcessLost
<1>. QED
  BY ExecInvariant, <1>1, PTL

\* Once terminate_all_processes is over no process of an earlier turn runs, but for
\* those of calls that were still in flight at a cleanup and those whose id such a
\* call has as well.
THEOREM CleanupLeavesNothing == Spec => []CleanupComplete
<1>1. ExecInv => CleanupComplete
  <2>. SUFFICES ASSUME ExecInv, NEW c \in Calls, doomed = {}, born[c] < cleanups,
                       c \notin stale, ~IdShared(c)
                PROVE  proc[c] # "running"
    BY DEF CleanupComplete
  <2>2. pc[c] \in {"idle", "over"} /\ c \notin Stored
    BY DEF ExecInv, CleanInv
  <2>. QED
    BY <2>2 DEF ExecInv, OwnerInv, Owning
<1>. QED
  BY ExecInvariant, <1>1, PTL

\* The two lookups of write_stdin find the same process: its response names the
\* call whose process got the input.
THEOREM WriteAnswersItsTarget == Spec => []AnswerNamesTarget
<1>1. ExecInv => AnswerNamesTarget
  BY DEF ExecInv
<1>. QED
  BY ExecInvariant, <1>1, PTL

\* Storing a process takes a running one from the store only when no exited one
\* may go, and never a protected one.
THEOREM PruningIsFair == Spec => PruneSparesRunning
<1>. DEFINE Spares ==
         \A c \in Stored \ Stored', e \in Stored' \ Stored :
             proc[c] = "running" /\ id[c] # id[e] =>
                 /\ c \notin MostRecent
                 /\ \A d \in Stored : proc[d] = "exited" => d \in MostRecent
<1>1. ASSUME ExecInv, Next PROVE Spares
  <2>. SUFFICES ASSUME NEW c \in Stored, c \notin Stored', NEW e \in Stored', e \notin Stored,
                       proc[c] = "running", id[c] # id[e]
                PROVE  /\ c \notin MostRecent
                       /\ \A d \in Stored : proc[d] = "exited" => d \in MostRecent
    OBVIOUS
  <2>. USE <1>1 DEF ExecInv
  <2>1. PICK b \in Calls : StoreProcess(b)
    BY OnlyStoreProcess
  <2>2. e = b
    BY <2>1, StoreSteady, UnifiedExecAssumption DEF Stored
  <2>3. c \in Calls /\ id[c] \in Ids /\ store[id[c]] = c
    BY StoredHasId
  <2>4. store'[id[c]] # c
    BY <2>3 DEF Stored
  <2>5. c \in Prune
    BY <2>1, <2>2, <2>3, <2>4, StoreSteady
  <2>6. c \in ProcessToPrune
    BY <2>5 DEF Prune
  <2>. QED
    BY <2>6 DEF ProcessToPrune, LeastRecent
<1>2. ExecInv /\ [Next]_vars => [Spares]_vars
  BY <1>1
<1>. QED
  BY ExecInvariant, <1>2, PTL DEF Spec, PruneSparesRunning

=============================================================================
