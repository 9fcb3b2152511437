------------------------------ MODULE UnifiedExec ------------------------------
(***************************************************************************)
(* The process store of unified exec (crates/core/src/unified_exec): the   *)
(* exec_command and write_stdin tools, the store they share, the detached  *)
(* tasks that stream a process's output and report its exit, and the       *)
(* session-wide cleanup at the end of a turn.                              *)
(*                                                                         *)
(* The two tools do not support parallel calls, so of the calls in flight  *)
(* at most one is not aborted.  An aborted call is a Tokio task that may   *)
(* still finish the poll it is in, past the cleanup of its turn; it ends   *)
(* where it is dropped.  A process is killed when its last owner goes: the *)
(* call that opened it, its store entry, its exit watcher.                 *)
(*                                                                         *)
(* Left out: approval (TurnLifecycle has it), the output itself and the    *)
(* yield times, so a poll may end at any moment.                           *)
(***************************************************************************)
EXTENDS Naturals, FiniteSets

CONSTANTS Calls,       \* exec_command calls, each opens one process
          Writes,      \* write_stdin calls
          Ids,         \* process ids
          MaxProcs,    \* MAX_UNIFIED_EXEC_PROCESSES
          Warning,     \* WARNING_UNIFIED_EXEC_PROCESSES
          Protected,   \* most recently used processes that pruning spares
          MaxCleanups, \* bound: cleanups in a behaviour
          MaxAborts,   \* bound: calls that are aborted
          None         \* no call, no id

ASSUME UnifiedExecAssumption ==
    /\ {MaxProcs, Warning, Protected, MaxCleanups, MaxAborts} \subseteq Nat
    /\ Protected < MaxProcs
    /\ Warning <= MaxProcs
    /\ IsFiniteSet(Calls)
    /\ None \notin Calls \cup Ids
    /\ Calls \cap Writes = {}

VARIABLES
    reserved,  \* ProcessStore.reserved_process_ids
    store,     \* ProcessStore.processes: the call that opened the process
    lastUsed,  \* ProcessEntry.last_used
    clock,     \* Instant::now()
    pc,        \* where an exec_command call is
    id,        \* id[c]: the process id it allocated
    escalated, \* calls on their second attempt, without the sandbox
    proc,      \* proc[c]: the process of call c
    streaming, \* calls whose output is streamed: output_drained has no permit yet
    watching,  \* calls with an exit watcher
    begun,     \* calls whose ExecCommandBegin was emitted
    ended,     \* ended[c]: ExecCommandEnd events emitted for c
    wpc,       \* where a write_stdin call is
    wid,       \* wid[w]: the process id it names,
    target,    \*   the call whose process got the input,
    answer,    \*   and the call that its response names
    aborted,   \* calls of either kind that were aborted
    cleanups,  \* cleanups so far
    born,      \* born[c]: cleanups before call c
    doomed,    \* entries drained by a cleanup and not terminated yet
    stale      \* calls in flight when a cleanup cleared the reserved ids

storeVars == <<reserved, store, lastUsed, clock>>
callVars  == <<pc, id, escalated, born>>
eventVars == <<streaming, watching, begun, ended>>
writeVars == <<wpc, wid, target, answer>>
turnVars  == <<aborted, cleanups, doomed, stale>>
vars == <<storeVars, callVars, proc, eventVars, writeVars, turnVars>>

\* The positions of a call, and those in which it owns a process.
Owning   == {"spawned", "collect", "end", "release", "store", "warn"}
CallPcs  == Owning \cup {"idle", "open", "over"}
ProcStates == {"none", "running", "exited", "killed"}

Init ==
    /\ reserved = {}
    /\ store = [i \in Ids |-> None]
    /\ lastUsed = [c \in Calls |-> 0]
    /\ clock = 0
    /\ pc = [c \in Calls |-> "idle"]
    /\ id = [c \in Calls |-> None]
    /\ escalated = {}
    /\ born = [c \in Calls |-> 0]
    /\ proc = [c \in Calls |-> "none"]
    /\ streaming = {}
    /\ watching = {}
    /\ begun = {}
    /\ ended = [c \in Calls |-> 0]
    /\ wpc = [w \in Writes |-> "idle"]
    /\ wid = [w \in Writes |-> None]
    /\ target = [w \in Writes |-> None]
    /\ answer = [w \in Writes |-> None]
    /\ aborted = {}
    /\ cleanups = 0
    /\ doomed = {}
    /\ stale = {}

InFlight == {c \in Calls : pc[c] \notin {"idle", "over"}}
Writing  == {w \in Writes : wpc[w] = "poll"}

\* Mutant: the tools support parallel calls.
QuietParallel == doomed = {}

\* The write lock of ToolCallRuntime: a tool call starts when no call of the
\* turn runs, and a turn starts when the cleanup of the last one is over.
Quiet == InFlight \cup Writing \subseteq aborted /\ doomed = {}

Held(c) ==
    \/ pc[c] \in Owning
    \/ \E i \in Ids : store[i] = c
    \/ c \in watching
    \/ c \in doomed

\* Drop for UnifiedExecProcess: a process is terminated with its last owner.
DropUnheld == proc' = [c \in Calls |-> IF proc[c] = "running" /\ ~Held(c)' THEN "killed"
                                       ELSE proc[c]]

Goto(c, from, to) == pc[c] = from /\ pc' = [pc EXCEPT ![c] = to]

\* ProcessStore::remove drops the reservation and whatever entry has the id.
Remove(i) ==
    /\ reserved' = reserved \ {i}
    /\ store' = [store EXCEPT ![i] = None]

(***************************************************************************)
(* exec_command                                                            *)
(***************************************************************************)

\* Mutant: a random id that is not checked against the reserved ones.
AllocateAnyProcessId(c) ==
    /\ Quiet
    /\ Goto(c, "idle", "open")
    /\ \E i \in Ids : /\ id' = [id EXCEPT ![c] = i]
                      /\ reserved' = reserved \cup {i}
    /\ born' = [born EXCEPT ![c] = cleanups]
    /\ UNCHANGED <<store, lastUsed, clock, escalated, proc, eventVars, writeVars, turnVars>>

\* allocate_process_id: some id that is not reserved, reserved at once.
AllocateProcessId(c) ==
    /\ Quiet
    /\ Goto(c, "idle", "open")
    /\ \E i \in Ids \ reserved : /\ id' = [id EXCEPT ![c] = i]
                                 /\ reserved' = reserved \cup {i}
    /\ born' = [born EXCEPT ![c] = cleanups]
    /\ UNCHANGED <<store, lastUsed, clock, escalated, proc, eventVars, writeVars, turnVars>>

\* The call ends early and gives its id back: escalation the policy does not
\* allow, a command that is an apply_patch, or an open_session_with_sandbox that
\* fails (rejected, not spawned, denied by the sandbox without a retry).
RejectCall(c) ==
    /\ \/ Goto(c, "open", "over")
       \/ Goto(c, "spawned", "over") /\ proc[c] = "exited" /\ c \notin escalated
    /\ Remove(id[c])
    /\ UNCHANGED <<lastUsed, clock, id, escalated, born, eventVars, writeVars, turnVars>>
    /\ DropUnheld

\* An error of intercept_apply_patch returns without giving the id back.
InterceptFails(c) ==
    /\ Goto(c, "open", "over")
    /\ c \notin escalated
    /\ UNCHANGED <<storeVars, id, escalated, born, proc, eventVars, writeVars, turnVars>>

\* open_session_with_exec_env.
SpawnProcess(c) ==
    /\ Goto(c, "open", "spawned")
    /\ proc' = [proc EXCEPT ![c] = "running"]
    /\ UNCHANGED <<storeVars, id, escalated, born, eventVars, writeVars, turnVars>>

\* A process that exits at once and looks denied by the sandbox is dropped, and
\* the orchestrator tries once more without the sandbox.
Escalate(c) ==
    /\ proc[c] = "exited"
    /\ c \notin escalated
    /\ Goto(c, "spawned", "open")
    /\ escalated' = escalated \cup {c}
    /\ proc' = [proc EXCEPT ![c] = "none"]
    /\ UNCHANGED <<storeVars, id, born, eventVars, writeVars, turnVars>>

\* from_spawned returns the managed process; ExecCommandBegin is emitted, its
\* output is streamed, and the poll starts, which is the entry's first last_used.
EmitBegin(c) ==
    /\ Goto(c, "spawned", "collect")
    /\ begun' = begun \cup {c}
    /\ streaming' = streaming \cup {c}
    /\ clock' = clock + 1
    /\ lastUsed' = [lastUsed EXCEPT ![c] = clock + 1]
    /\ UNCHANGED <<reserved, store, id, escalated, born, proc, watching, ended,
                   writeVars, turnVars>>

\* collect_output_until_deadline returns; has_exited is read once.
CollectOutput(c) ==
    /\ Goto(c, "collect", IF proc[c] = "exited" THEN "end" ELSE "store")
    /\ UNCHANGED <<storeVars, id, escalated, born, proc, eventVars, writeVars, turnVars>>

\* Mutant: a command that ended is stored all the same.
EmitEndStores(c) ==
    /\ Goto(c, "end", "store")
    /\ ended' = [ended EXCEPT ![c] = @ + 1]
    /\ UNCHANGED <<storeVars, id, escalated, born, proc, streaming, watching, begun,
                   writeVars, turnVars>>

\* A short-lived command ends here ...
EmitEnd(c) ==
    /\ Goto(c, "end", "release")
    /\ ended' = [ended EXCEPT ![c] = @ + 1]
    /\ UNCHANGED <<storeVars, id, escalated, born, proc, streaming, watching, begun,
                   writeVars, turnVars>>

\* ... and gives its id back.
ReleaseProcessId(c) ==
    /\ Goto(c, "release", "over")
    /\ Remove(id[c])
    /\ UNCHANGED <<lastUsed, clock, id, escalated, born, eventVars, writeVars, turnVars>>
    /\ DropUnheld

(***************************************************************************)
(* store_process with its pruning                                          *)
(***************************************************************************)
Stored == {c \in Calls : \E i \in Ids : store[i] = c}

MostRecent ==
    {c \in Stored : Cardinality({d \in Stored : lastUsed[d] > lastUsed[c]}) < Protected}

LeastRecent(S) == {c \in S : \A d \in S : lastUsed[c] <= lastUsed[d]}

\* Mutant: whether a process has exited does not matter.
ProcessToPruneAny == LeastRecent(Stored \ MostRecent)

\* process_id_to_prune_from_meta: the least recently used process outside the
\* protected ones, an exited one if there is any.
ProcessToPrune ==
    LET candidates == Stored \ MostRecent
        exited     == {c \in candidates : proc[c] = "exited"}
    IN LeastRecent(IF exited # {} THEN exited ELSE candidates)

\* Mutant: the check is off by one.
PruneLate == IF Cardinality(Stored) <= MaxProcs THEN {} ELSE ProcessToPrune

\* prune_processes_if_needed.
Prune == IF Cardinality(Stored) < MaxProcs THEN {} ELSE ProcessToPrune

\* Mutant: the exit watcher is only spawned with the warning.
StoreProcessUnwatched(c) ==
    LET pruned == Prune
        kept   == [i \in Ids |-> IF store[i] \in pruned THEN None ELSE store[i]]
    IN /\ pc[c] = "store"
       /\ store' = [kept EXCEPT ![id[c]] = c]
       /\ reserved' = reserved \ {i \in Ids : store[i] \in pruned}
       /\ pc' = [pc EXCEPT ![c] = IF Cardinality(Stored') >= Warning THEN "warn" ELSE "over"]
       /\ UNCHANGED <<lastUsed, clock, id, escalated, born, streaming, watching,
                      begun, ended, writeVars, turnVars>>
       /\ proc' = [d \in Calls |-> IF proc[d] = "running" /\ (d \in pruned \/ ~Held(d)')
                                   THEN "killed" ELSE proc[d]]

\* store_process: prune, insert (an entry with the same id is dropped), and
\* spawn the exit watcher; the call can be dropped in between only while it
\* records the warning for the model.
StoreProcess(c) ==
    LET pruned == Prune
        kept   == [i \in Ids |-> IF store[i] \in pruned THEN None ELSE store[i]]
    IN /\ pc[c] = "store"
       /\ store' = [kept EXCEPT ![id[c]] = c]
       /\ reserved' = reserved \ {i \in Ids : store[i] \in pruned}
       /\ pc' = [pc EXCEPT ![c] = IF Cardinality(Stored') >= Warning THEN "warn" ELSE "over"]
       /\ watching' = IF pc'[c] = "over" THEN watching \cup {c} ELSE watching
       /\ UNCHANGED <<lastUsed, clock, id, escalated, born, streaming, begun, ended,
                      writeVars, turnVars>>
       /\ proc' = [d \in Calls |-> IF proc[d] = "running" /\ (d \in pruned \/ ~Held(d)')
                                   THEN "killed" ELSE proc[d]]

SpawnExitWatcher(c) ==
    /\ Goto(c, "warn", "over")
    /\ watching' = watching \cup {c}
    /\ UNCHANGED <<storeVars, id, escalated, born, proc, streaming, begun, ended,
                   writeVars, turnVars>>

(***************************************************************************)
(* The process and its detached tasks                                      *)
(***************************************************************************)
ExitProcess(c) ==
    /\ proc[c] = "running"
    /\ proc' = [proc EXCEPT ![c] = "exited"]
    /\ UNCHANGED <<storeVars, callVars, eventVars, writeVars, turnVars>>

\* The streaming task ends when the output is closed or the grace period after the
\* exit is over.  output_drained keeps its permit until the watcher asks for it, if
\* that is not spawned yet; only the watcher does, and only after the exit, so an
\* output that is closed earlier makes no difference.
StreamEnds(c) ==
    /\ c \in streaming
    /\ proc[c] \in {"exited", "killed"}
    /\ streaming' = streaming \ {c}
    /\ UNCHANGED <<storeVars, callVars, proc, watching, begun, ended, writeVars, turnVars>>

\* The exit watcher: once the exit token is cancelled, by the exit waiter or by
\* terminate, and the streaming task has drained the output, it emits
\* ExecCommandEnd and lets go of the process.
WatcherEmitsEnd(c) ==
    /\ c \in watching \ streaming
    /\ proc[c] \in {"exited", "killed"}
    /\ ended' = [ended EXCEPT ![c] = @ + 1]
    /\ watching' = watching \ {c}
    /\ UNCHANGED <<storeVars, callVars, proc, streaming, begun, writeVars, turnVars>>

(***************************************************************************)
(* write_stdin                                                             *)
(***************************************************************************)

\* prepare_process_handles: the entry is used now; then the input goes to its
\* process and the call polls.  An unknown id is an error.
PrepareProcessHandles(w, i) ==
    /\ Quiet
    /\ wpc[w] = "idle"
    /\ wid' = [wid EXCEPT ![w] = i]
    /\ target' = [target EXCEPT ![w] = store[i]]
    /\ IF store[i] = None
       THEN /\ wpc' = [wpc EXCEPT ![w] = "over"]
            /\ UNCHANGED <<lastUsed, clock>>
       ELSE /\ wpc' = [wpc EXCEPT ![w] = "poll"]
            /\ clock' = clock + 1
            /\ lastUsed' = [lastUsed EXCEPT ![store[i]] = clock + 1]
    /\ UNCHANGED <<reserved, store, callVars, proc, eventVars, answer, turnVars>>

\* A command without a terminal has no stdin: an error for any input.
StdinClosed(w) ==
    /\ wpc[w] = "poll"
    /\ wpc' = [wpc EXCEPT ![w] = "over"]
    /\ UNCHANGED <<storeVars, callVars, proc, eventVars, wid, target, answer, turnVars>>

\* refresh_process_state: looks the id up again, names the call it finds, and
\* removes the entry if its process has exited.
RefreshProcessState(w) ==
    LET c == store[wid[w]]
    IN /\ wpc[w] = "poll"
       /\ wpc' = [wpc EXCEPT ![w] = "over"]
       /\ answer' = [answer EXCEPT ![w] = c]
       /\ IF c # None /\ proc[c] = "exited" THEN Remove(wid[w])
          ELSE UNCHANGED <<reserved, store>>
       /\ UNCHANGED <<lastUsed, clock, callVars, proc, eventVars, wid, target, turnVars>>

(***************************************************************************)
(* Abort and cleanup                                                       *)
(***************************************************************************)

\* The turn is cancelled or the sampling request fails: every call in flight is
\* aborted.
AbortCalls ==
    /\ ~(InFlight \cup Writing \subseteq aborted)
    /\ Cardinality(aborted) < MaxAborts
    /\ aborted' = aborted \cup InFlight \cup Writing
    /\ UNCHANGED <<storeVars, callVars, proc, eventVars, writeVars, cleanups, doomed, stale>>

\* The future of an aborted call is dropped.
DropCall(c) ==
    /\ c \in InFlight \cap aborted
    /\ pc' = [pc EXCEPT ![c] = "over"]
    /\ UNCHANGED <<storeVars, id, escalated, born, eventVars, writeVars, turnVars>>
    /\ DropUnheld

DropWrite(w) ==
    /\ w \in Writing \cap aborted
    /\ wpc' = [wpc EXCEPT ![w] = "over"]
    /\ UNCHANGED <<storeVars, callVars, proc, eventVars, wid, target, answer, turnVars>>

\* Mutant: the entries are dropped and their processes are left to their owners.
DrainStoreOnly ==
    /\ Quiet
    /\ cleanups < MaxCleanups
    /\ cleanups' = cleanups + 1
    /\ doomed' = {}
    /\ store' = [i \in Ids |-> None]
    /\ reserved' = {}
    /\ stale' = stale \cup InFlight
    /\ UNCHANGED <<lastUsed, clock, callVars, eventVars, writeVars, aborted>>
    /\ DropUnheld

\* terminate_all_processes takes every entry and clears the reserved ids under
\* the store lock ...
DrainStore ==
    /\ Quiet
    /\ cleanups < MaxCleanups
    /\ cleanups' = cleanups + 1
    /\ doomed' = Stored
    /\ store' = [i \in Ids |-> None]
    /\ reserved' = {}
    /\ stale' = stale \cup InFlight
    /\ UNCHANGED <<lastUsed, clock, callVars, proc, eventVars, writeVars, aborted>>

\* ... and terminates the processes one by one after it.
TerminateEntry(c) ==
    /\ c \in doomed
    /\ doomed' = doomed \ {c}
    /\ proc' = [proc EXCEPT ![c] = IF @ = "running" THEN "killed" ELSE @]
    /\ UNCHANGED <<storeVars, callVars, eventVars, writeVars, aborted, cleanups, stale>>

(***************************************************************************)
(* Specification                                                           *)
(***************************************************************************)
CallStep(c) ==
    \/ AllocateProcessId(c) \/ RejectCall(c) \/ InterceptFails(c) \/ SpawnProcess(c)
    \/ Escalate(c) \/ EmitBegin(c) \/ CollectOutput(c) \/ EmitEnd(c) \/ ReleaseProcessId(c)
    \/ StoreProcess(c) \/ SpawnExitWatcher(c) \/ DropCall(c)

WriteStep(w) ==
    \/ \E i \in Ids : PrepareProcessHandles(w, i)
    \/ StdinClosed(w) \/ RefreshProcessState(w) \/ DropWrite(w)

Next ==
    \/ \E c \in Calls : \/ CallStep(c) \/ ExitProcess(c) \/ StreamEnds(c)
                        \/ WatcherEmitsEnd(c) \/ TerminateEntry(c)
    \/ \E w \in Writes : WriteStep(w)
    \/ AbortCalls \/ DrainStore

\* Calls in flight, the detached tasks and a cleanup that has begun are runnable
\* Tokio tasks.  A process may run for ever, and nobody owes another tool call.
Fairness ==
    \A c \in Calls : /\ WF_vars(pc[c] # "idle" /\ CallStep(c))
                     /\ WF_vars(StreamEnds(c))
                     /\ WF_vars(WatcherEmitsEnd(c))
                     /\ WF_vars(TerminateEntry(c))

Spec == Init /\ [][Next]_vars /\ Fairness

(***************************************************************************)
(* Properties                                                              *)
(***************************************************************************)

\* Every variable has its type, and no entry was used in the future.
TypeOK ==
    /\ reserved \subseteq Ids
    /\ store \in [Ids -> Calls \cup {None}]
    /\ clock \in Nat
    /\ lastUsed \in [Calls -> 0..clock]
    /\ pc \in [Calls -> CallPcs]
    /\ id \in [Calls -> Ids \cup {None}]
    /\ escalated \subseteq Calls
    /\ born \in [Calls -> Nat]
    /\ proc \in [Calls -> ProcStates]
    /\ streaming \subseteq Calls
    /\ watching \subseteq Calls
    /\ begun \subseteq Calls
    /\ ended \in [Calls -> Nat]
    /\ wpc \in [Writes -> {"idle", "poll", "over"}]
    /\ wid \in [Writes -> Ids \cup {None}]
    /\ target \in [Writes -> Calls \cup {None}]
    /\ answer \in [Writes -> Calls \cup {None}]
    /\ aborted \subseteq Calls \cup Writes
    /\ cleanups \in Nat
    /\ doomed \subseteq Calls
    /\ stale \subseteq Calls

\* Another call has the id of c as well: one of the two was in flight when a cleanup
\* cleared the reserved ids.
IdShared(c) == \E d \in Calls \ {c} : id[d] = id[c] /\ {c, d} \cap stale # {}

\* The store keeps its limit: pruning makes room before every insertion.
StoreBounded == Cardinality(Stored) <= MaxProcs

\* ExecCommandEnd is emitted at most once for a call and only after its Begin,
\* by the call itself or by the exit watcher ("a single ExecCommandEnd event").
EndOnce == \A c \in Calls : ended[c] <= IF c \in begun THEN 1 ELSE 0

\* No process is lost: one that runs is owned by its call or is where the next
\* cleanup finds it, also when its call was aborted and stored it after the cleanup
\* of its turn; the exception is an id that was given to a second call meanwhile.
NoProcessLost ==
    \A c \in Calls : proc[c] = "running" =>
        \/ pc[c] \in Owning
        \/ c \in Stored \cup doomed
        \/ IdShared(c)

\* When a turn's cleanup is over no process of the turn runs: the next turn starts
\* without it.  That holds of the calls that had returned or been dropped by then:
\* an aborted call in its last poll may store its process after the cleanup, which
\* then runs on until the next one, and an id cleared under such a call may hide
\* the process of another.
CleanupComplete ==
    \A c \in Calls : doomed = {} /\ born[c] < cleanups /\ proc[c] = "running"
                        => c \in stale \/ IdShared(c)

\* The response of write_stdin names the call whose process got the input, or
\* none when its entry is gone, although the store is looked up twice: an id is
\* not given to another process during a call.
AnswerNamesTarget ==
    \A w \in Writes \ aborted : answer[w] # None => \/ answer[w] = target[w]
                                                    \/ IdShared(target[w])

\* When a call stores its process and another one has to go, pruning takes no
\* running process while an exited one could go, and never a protected one.
PruneSparesRunning ==
    [][\A c \in Stored \ Stored', e \in Stored' \ Stored :
          proc[c] = "running" /\ id[c] # id[e] =>
              /\ c \notin MostRecent
              /\ \A d \in Stored : proc[d] = "exited" => d \in MostRecent]_vars

\* The exit of a process is reported even if no further tool call is made: by
\* the call or by the watcher, unless the call was aborted.
ExitReported ==
    \A c \in Calls : (c \in begun \ aborted /\ proc[c] \in {"exited", "killed"})
                        ~> (ended[c] = 1 \/ c \in aborted)

\* Each ExecCommandBegin is paired with an ExecCommandEnd once its process is
\* gone ("The per-item lifecycle is always ...").
BeginIsPaired ==
    \A c \in Calls : (c \in begun /\ proc[c] \in {"exited", "killed"}) ~> (ended[c] = 1)
=============================================================================
