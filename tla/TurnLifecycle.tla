----------------------------- MODULE TurnLifecycle -----------------------------
(***************************************************************************)
(* The life of a turn in a savfox session (crates/core).                   *)
(*                                                                         *)
(* Three kinds of actors run concurrently on the Tokio runtime:            *)
(*   - clients, which put commands on the bounded submission queue;        *)
(*   - the submission loop (the coordinator), which takes one command at a *)
(*     time, starts the task of a turn, aborts it, and answers targeted    *)
(*     interrupts;                                                         *)
(*   - the task of each turn, which samples the model, runs tools, waits   *)
(*     for approvals, and finally tries to complete its own turn.          *)
(* They share Session.active_turn (a mutex around the ActiveTurn and its   *)
(* TurnState), the process store of unified exec, the conversation history *)
(* and the agent status.  Completion by the task and cancellation by the   *)
(* coordinator race for the ownership of the turn.                         *)
(*                                                                         *)
(* A turn is named by the id of the submission that started it.  A step is *)
(* the code between two points where another actor can be scheduled; an    *)
(* aborted Tokio task may still finish the poll it is in, so a killed task *)
(* keeps taking steps until Die drops it.                                  *)
(***************************************************************************)
EXTENDS Naturals, Sequences, FiniteSets

CONSTANTS MaxSub,      \* bound: submissions in a behaviour
          MaxRounds,   \* bound: sampling requests of one turn
          SqCapacity,  \* SUBMISSION_CHANNEL_CAPACITY
          Ops          \* the operations clients use

ASSUME ConstantsAssumption ==
    /\ MaxSub \in Nat
    /\ MaxRounds \in Nat
    /\ SqCapacity \in Nat
    /\ Ops \subseteq {"UserInput", "Aux", "Interrupt", "InterruptTurn",
                     "ExecApproval", "Shutdown"}

Turns == 1..MaxSub

(***************************************************************************)
(* Commands on the submission queue.  Aux stands for the submissions that  *)
(* replace the running turn by a task that never reads pending input:      *)
(* Undo, Compact, Review and RunUserShellCommand.                          *)
(***************************************************************************)
Decisions == {"Approved", "Denied", "Abort"}

UserInputs     == [op : {"UserInput"}, id : Turns, empty : BOOLEAN]
AuxCommands    == [op : {"Aux"}, id : Turns]
Interrupts     == [op : {"Interrupt"}, id : Turns]
TurnInterrupts == [op : {"InterruptTurn"}, id : Turns]
Approvals      == [op : {"ExecApproval"}, id : Turns, turn : Turns, decision : Decisions]
Shutdowns      == [op : {"Shutdown"}, id : Turns]

Submissions == UserInputs \cup AuxCommands \cup Interrupts \cup Approvals \cup Shutdowns
Commands    == Submissions \cup TurnInterrupts
NoCommand   == [op |-> "None", id |-> 0]

\* The input a command carries, named by its id; an empty items list has none.
Content(c) == IF c.op = "UserInput" /\ ~c.empty THEN {c.id} ELSE {}

\* Where a task is: "absent" before spawn_task, "done" and "dead" at the end.
RunPcs    == {"begin", "prompt", "loop", "took", "sample", "tool", "approval",
              "exec", "auxrun", "flush", "finish"}
StartedPcs == {"prompt", "loop", "took", "sample", "tool", "approval", "exec"}
FinishPcs == {"close", "unlock", "emit"}
TaskPcs   == RunPcs \cup FinishPcs \cup {"absent", "ready", "notify", "done", "dead"}

CoordPcs  == {"recv", "interrupt", "take", "cancel", "wait", "emit", "close",
              "spawn", "register", "start", "shutdown", "exited"}

Statuses  == {"PendingInit", "Running", "Completed", "Errored", "Shutdown"}
Terminals == {"complete", "aborted"}
Free      == 0

VARIABLES
    nextId,           \* SessionHandle.next_id
    sq,               \* tx_sub / rx_sub, a bounded FIFO channel
    targeted,         \* turns some client has sent an InterruptTurn for
    cpc,              \* the submission loop: where it is,
    cmd,              \*   the command it handles,
    victims,          \*   and the tasks it drained from the active turn
    pc,               \* pc[t]: where the task of turn t is
    kind,             \* kind[t]: "regular" or "aux"
    round,            \* round[t]: sampling requests made
    held,             \* held[t]: inputs task t took and has not recorded yet
    active,           \* the tasks of Session.active_turn; {} when it is None
    lock,             \* the task that holds active_turn across an await, or Free
    pendingInput,     \* TurnState.pending_input (submission ids)
    pendingApprovals, \* keys of TurnState.pending_approvals
    decision,         \* decision[t]: what was sent on t's approval channel, or "kept"
                      \*   when its sender is stored nowhere and never dropped
    cancelled,        \* turns whose cancellation token is cancelled
    killed,           \* turns whose join handle was aborted
    procs,            \* turns with a process in the unified exec store
    history,          \* inputs recorded in the conversation history
    marked,           \* turns with a turn_aborted marker in the history
    accepted,         \* user inputs the session took responsibility for
    terminals,        \* terminals[t]: terminal events emitted for t, in order
    status,           \* the agent_status watch channel
    acked, nacked     \* InterruptTurn answered true, answered false

sqVars    == <<nextId, sq, targeted>>
coordVars == <<cpc, cmd, victims>>
taskVars  == <<pc, kind, round, held>>
turnVars  == <<active, lock, pendingInput, pendingApprovals>>
stopVars  == <<cancelled, killed>>
histVars  == <<history, marked, accepted>>
eventVars == <<terminals, status>>
ackVars   == <<acked, nacked>>
vars == <<sqVars, coordVars, taskVars, turnVars, decision, stopVars, procs,
          histVars, eventVars, ackVars>>

Init ==
    /\ nextId = 1
    /\ sq = <<>>
    /\ targeted = {}
    /\ cpc = "recv"
    /\ cmd = NoCommand
    /\ victims = {}
    /\ pc = [t \in Turns |-> "absent"]
    /\ kind = [t \in Turns |-> "regular"]
    /\ round = [t \in Turns |-> 0]
    /\ held = [t \in Turns |-> {}]
    /\ active = {}
    /\ lock = Free
    /\ pendingInput = {}
    /\ pendingApprovals = {}
    /\ decision = [t \in Turns |-> "none"]
    /\ cancelled = {}
    /\ killed = {}
    /\ procs = {}
    /\ history = {}
    /\ marked = {}
    /\ accepted = {}
    /\ terminals = [t \in Turns |-> <<>>]
    /\ status = "PendingInit"
    /\ acked = {}
    /\ nacked = {}

(***************************************************************************)
(* Clients                                                                 *)
(***************************************************************************)

\* submit: the next id, then a send that blocks while the channel is full and
\* fails once the loop has dropped the receiver.
Submit(c) ==
    /\ nextId <= MaxSub
    /\ c.id = nextId
    /\ cpc # "exited"
    /\ Len(sq) < SqCapacity
    /\ nextId' = nextId + 1
    /\ sq' = Append(sq, c)
    /\ UNCHANGED <<targeted, coordVars, taskVars, turnVars, decision, stopVars,
                   procs, histVars, eventVars, ackVars>>

\* Mutant: a priority channel, where the interrupt overtakes the submissions.
SubmitInterruptTurnFirst(t) ==
    /\ t < nextId
    /\ t \notin targeted
    /\ cpc # "exited"
    /\ Len(sq) < SqCapacity
    /\ targeted' = targeted \cup {t}
    /\ sq' = <<[op |-> "InterruptTurn", id |-> t]>> \o sq
    /\ UNCHANGED <<nextId, coordVars, taskVars, turnVars, decision, stopVars,
                   procs, histVars, eventVars, ackVars>>

\* interrupt_turn: on the same queue, so it cannot overtake the submission that
\* starts its turn.  A client only knows ids that submit has returned.
SubmitInterruptTurn(t) ==
    /\ t < nextId
    /\ t \notin targeted
    /\ cpc # "exited"
    /\ Len(sq) < SqCapacity
    /\ targeted' = targeted \cup {t}
    /\ sq' = Append(sq, [op |-> "InterruptTurn", id |-> t])
    /\ UNCHANGED <<nextId, coordVars, taskVars, turnVars, decision, stopVars,
                   procs, histVars, eventVars, ackVars>>

(***************************************************************************)
(* The submission loop                                                     *)
(***************************************************************************)

\* rx_sub.recv(): the head of the queue is a command of kind op.
Receive(op) ==
    /\ cpc = "recv"
    /\ sq # <<>>
    /\ Head(sq).op = op
    /\ sq' = Tail(sq)
    /\ cmd' = Head(sq)
    /\ UNCHANGED <<nextId, targeted>>

\* user_input_or_turn when a constraint rejects the settings update:
\* new_turn_with_sub_id emits an Error event and nothing else happens.
RejectUserInput ==
    /\ Receive("UserInput")
    /\ status' = "Errored"
    /\ UNCHANGED <<cpc, victims, taskVars, turnVars, decision, stopVars, procs,
                   histVars, terminals, ackVars>>

\* inject_input succeeds: a turn is active and its TurnState takes the input,
\* even an empty one.
InjectInput ==
    /\ Receive("UserInput")
    /\ lock = Free
    /\ active # {}
    /\ pendingInput' = pendingInput \cup {Head(sq).id}
    /\ accepted' = accepted \cup Content(Head(sq))
    /\ UNCHANGED <<cpc, victims, taskVars, active, lock, pendingApprovals, decision,
                   stopVars, procs, history, marked, eventVars, ackVars>>

\* inject_input finds no turn: spawn_task starts by aborting everything.
StartRegular ==
    /\ Receive("UserInput")
    /\ lock = Free
    /\ active = {}
    /\ cpc' = "take"
    /\ accepted' = accepted \cup Content(Head(sq))
    /\ UNCHANGED <<victims, taskVars, turnVars, decision, stopVars, procs, history,
                   marked, eventVars, ackVars>>

\* Mutant: an auxiliary task that starts beside the running one.
StartAuxBeside ==
    /\ Receive("Aux")
    /\ cpc' = "spawn"
    /\ UNCHANGED <<victims, taskVars, turnVars, decision, stopVars, procs, histVars,
                   eventVars, ackVars>>

\* undo, compact, review, run_user_shell_command call spawn_task at once; a
\* review request that does not resolve is an Error event and no task.
StartAux ==
    /\ Receive("Aux")
    /\ \/ cpc' = "take" /\ UNCHANGED status
       \/ status' = "Errored" /\ UNCHANGED cpc
    /\ UNCHANGED <<victims, taskVars, turnVars, decision, stopVars, procs, histVars,
                   terminals, ackVars>>

\* Op::Interrupt, and an approval answered with Abort, go to interrupt_task.
RecvInterrupt ==
    /\ \/ Receive("Interrupt")
       \/ Receive("ExecApproval") /\ Head(sq).decision = "Abort"
    /\ cpc' = "interrupt"
    /\ UNCHANGED <<victims, taskVars, turnVars, decision, stopVars, procs, histVars,
                   eventVars, ackVars>>

\* interrupt_task looks at active_turn under the lock, then releases it: the
\* turn may end before abort_all_tasks takes the lock again.
InterruptTask ==
    /\ cpc = "interrupt"
    /\ lock = Free
    /\ cpc' = IF active # {} THEN "take" ELSE "recv"
    /\ UNCHANGED <<sqVars, cmd, victims, taskVars, turnVars, decision, stopVars,
                   procs, histVars, eventVars, ackVars>>

\* notify_approval: remove the sender keyed by the turn and send the decision.
NotifyApproval ==
    /\ Receive("ExecApproval")
    /\ Head(sq).decision # "Abort"
    /\ lock = Free
    /\ LET t == Head(sq).turn
       IN /\ decision' = IF t \in pendingApprovals
                         THEN [decision EXCEPT ![t] = Head(sq).decision]
                         ELSE decision
          /\ pendingApprovals' = pendingApprovals \ {t}
    /\ UNCHANGED <<cpc, victims, taskVars, active, lock, pendingInput, stopVars,
                   procs, histVars, eventVars, ackVars>>

\* active.take() and clear_pending under the lock.
TakeActiveTurn ==
    /\ lock = Free
    /\ victims' = active
    /\ active' = {}
    /\ pendingInput' = {}
    /\ pendingApprovals' = {}
    /\ UNCHANGED lock

\* Mutant: the answer true does not wait for the abort.
RefuseInterruptTurnAcks ==
    /\ Receive("InterruptTurn")
    /\ lock = Free
    /\ Head(sq).id \notin active
    /\ acked' = acked \cup {Head(sq).id}
    /\ UNCHANGED <<cpc, victims, taskVars, turnVars, decision, stopVars, procs,
                   histVars, eventVars, nacked>>

\* interrupt_turn refuses unless the named turn is the active one ...
RefuseInterruptTurn ==
    /\ Receive("InterruptTurn")
    /\ lock = Free
    /\ Head(sq).id \notin active
    /\ nacked' = nacked \cup {Head(sq).id}
    /\ UNCHANGED <<cpc, victims, taskVars, turnVars, decision, stopVars, procs,
                   histVars, eventVars, acked>>

\* ... and otherwise takes the turn in the same critical section.
InterruptTurn ==
    /\ Receive("InterruptTurn")
    /\ Head(sq).id \in active
    /\ TakeActiveTurn
    /\ cpc' = "cancel"
    /\ UNCHANGED <<taskVars, decision, stopVars, procs, histVars, eventVars, ackVars>>

RecvShutdown ==
    /\ Receive("Shutdown")
    /\ cpc' = "take"
    /\ UNCHANGED <<victims, taskVars, turnVars, decision, stopVars, procs, histVars,
                   eventVars, ackVars>>

\* abort_all_tasks: take_all_running_tasks.
TakeAllRunningTasks ==
    /\ cpc = "take"
    /\ TakeActiveTurn
    /\ cpc' = IF active = {} THEN "close" ELSE "cancel"
    /\ UNCHANGED <<sqVars, cmd, taskVars, decision, stopVars, procs, histVars,
                   eventVars, ackVars>>

\* handle_task_abort: a task already cancelled is only dropped, which aborts its
\* handle; otherwise cancel its token and wait.
CancelTask ==
    /\ cpc = "cancel"
    /\ IF victims \subseteq cancelled
       THEN /\ cpc' = "close"
            /\ victims' = {}
            /\ killed' = killed \cup victims
       ELSE /\ cpc' = "wait"
            /\ UNCHANGED <<victims, killed>>
    /\ cancelled' = cancelled \cup victims
    /\ UNCHANGED <<sqVars, cmd, taskVars, turnVars, decision, procs, histVars,
                   eventVars, ackVars>>

\* TurnAbortReason: Replaced when a new task takes over, Interrupted otherwise.
AbortReason == IF cmd.op \in {"UserInput", "Aux"} THEN "Replaced" ELSE "Interrupted"

\* Mutant: no timeout, only the notification, which is lost when it comes early.
KillTaskNoTimeout ==
    /\ cpc = "wait"
    /\ \A t \in victims : pc[t] = "notify"
    /\ cpc' = "emit"
    /\ killed' = killed \cup victims
    /\ marked' = IF AbortReason = "Interrupted" THEN marked \cup victims ELSE marked
    /\ UNCHANGED <<sqVars, cmd, victims, taskVars, turnVars, decision, cancelled,
                   procs, history, accepted, eventVars, ackVars>>

\* Mutant: every abort is treated as a replacement.
KillTaskNoMarker ==
    /\ cpc = "wait"
    /\ cpc' = "emit"
    /\ killed' = killed \cup victims
    /\ UNCHANGED <<sqVars, cmd, victims, taskVars, turnVars, decision, cancelled,
                   procs, histVars, eventVars, ackVars>>

\* The wait ends when the task notifies or when the graceful interruption
\* timeout expires, whichever comes first; then the handle is aborted and an
\* interrupted turn leaves its marker in the history.
KillTask ==
    /\ cpc = "wait"
    /\ cpc' = "emit"
    /\ killed' = killed \cup victims
    /\ marked' = IF AbortReason = "Interrupted" THEN marked \cup victims ELSE marked
    /\ UNCHANGED <<sqVars, cmd, victims, taskVars, turnVars, decision, cancelled,
                   procs, history, accepted, eventVars, ackVars>>

EmitTurnAborted ==
    /\ cpc = "emit"
    /\ cpc' = "close"
    /\ terminals' = [t \in Turns |-> IF t \in victims THEN Append(terminals[t], "aborted")
                                     ELSE terminals[t]]
    /\ status' = "Errored"
    /\ victims' = {}
    /\ UNCHANGED <<sqVars, cmd, taskVars, turnVars, decision, stopVars, procs,
                   histVars, ackVars>>

\* close_unified_exec_processes, then back to whatever asked for the abort;
\* a targeted interrupt is answered true.
CloseProcesses ==
    /\ cpc = "close"
    /\ procs' = {}
    /\ cpc' = CASE cmd.op \in {"UserInput", "Aux"} -> "spawn"
                [] cmd.op = "Shutdown" -> "shutdown"
                [] OTHER -> "recv"
    /\ acked' = IF cmd.op = "InterruptTurn" THEN acked \cup {cmd.id} ELSE acked
    /\ UNCHANGED <<sqVars, cmd, victims, taskVars, turnVars, decision, stopVars,
                   histVars, eventVars, nacked>>

\* Mutant: no start signal, the task runs before it is registered.
SpawnTaskRunning ==
    /\ cpc = "spawn"
    /\ cpc' = "register"
    /\ pc' = [pc EXCEPT ![cmd.id] = "begin"]
    /\ kind' = [kind EXCEPT ![cmd.id] = IF cmd.op = "Aux" THEN "aux" ELSE "regular"]
    /\ held' = [held EXCEPT ![cmd.id] = Content(cmd)]
    /\ UNCHANGED <<sqVars, cmd, victims, round, turnVars, decision, stopVars, procs,
                   histVars, eventVars, ackVars>>

\* spawn_task: the Tokio task exists but waits for the start signal.
SpawnTask ==
    /\ cpc = "spawn"
    /\ cpc' = "register"
    /\ pc' = [pc EXCEPT ![cmd.id] = "ready"]
    /\ kind' = [kind EXCEPT ![cmd.id] = IF cmd.op = "Aux" THEN "aux" ELSE "regular"]
    /\ held' = [held EXCEPT ![cmd.id] = Content(cmd)]
    /\ UNCHANGED <<sqVars, cmd, victims, round, turnVars, decision, stopVars, procs,
                   histVars, eventVars, ackVars>>

\* register_new_active_task: a fresh ActiveTurn with a fresh TurnState.
RegisterNewActiveTask ==
    /\ cpc = "register"
    /\ lock = Free
    /\ cpc' = "start"
    /\ active' = {cmd.id}
    /\ pendingInput' = {}
    /\ pendingApprovals' = {}
    /\ UNCHANGED <<sqVars, cmd, victims, taskVars, lock, decision, stopVars, procs,
                   histVars, eventVars, ackVars>>

\* start.send(()): ownership is published before the task can run.
StartTask ==
    /\ cpc = "start"
    /\ cpc' = "recv"
    /\ pc' = [pc EXCEPT ![cmd.id] = "begin"]
    /\ UNCHANGED <<sqVars, cmd, victims, kind, round, held, turnVars, decision,
                   stopVars, procs, histVars, eventVars, ackVars>>

\* The rest of shutdown: terminate the processes once more, drop the rollout
\* recorder, emit ShutdownComplete and leave the loop.
ShutdownSession ==
    /\ cpc = "shutdown"
    /\ cpc' = "exited"
    /\ procs' = {}
    /\ status' = "Shutdown"
    /\ UNCHANGED <<sqVars, cmd, victims, taskVars, turnVars, decision, stopVars,
                   histVars, terminals, ackVars>>

CoordStep ==
    \/ RejectUserInput \/ InjectInput \/ StartRegular \/ StartAux
    \/ RecvInterrupt \/ InterruptTask \/ NotifyApproval
    \/ RefuseInterruptTurn \/ InterruptTurn \/ RecvShutdown
    \/ TakeAllRunningTasks \/ CancelTask \/ KillTask \/ EmitTurnAborted
    \/ CloseProcesses \/ SpawnTask \/ RegisterNewActiveTask \/ StartTask
    \/ ShutdownSession

(***************************************************************************)
(* The task of turn t                                                      *)
(***************************************************************************)
Goto(t, from, to) == pc[t] = from /\ pc' = [pc EXCEPT ![t] = to]

\* A step of the task that touches neither the submission queue nor what only
\* the submission loop writes.
TaskFrame == UNCHANGED <<sqVars, coordVars, kind, stopVars, marked, accepted, ackVars>>

\* run_turn returns at once for an empty input, and emits TurnStarted otherwise.
BeginRegular(t) ==
    /\ kind[t] = "regular"
    /\ Goto(t, "begin", IF held[t] = {} THEN "flush" ELSE "prompt")
    /\ status' = IF held[t] = {} THEN status ELSE "Running"
    /\ UNCHANGED <<round, held, turnVars, decision, procs, history, terminals>>
    /\ TaskFrame

\* The other tasks' run: the shell and compaction tasks emit TurnStarted, undo
\* and review do not.
BeginAux(t) ==
    /\ kind[t] = "aux"
    /\ Goto(t, "begin", "auxrun")
    /\ status' \in {status, "Running"}
    /\ UNCHANGED <<round, held, turnVars, decision, procs, history, terminals>>
    /\ TaskFrame

\* record_user_prompt_and_emit_turn_item.
RecordPrompt(t) ==
    /\ Goto(t, "prompt", "loop")
    /\ history' = history \cup held[t]
    /\ held' = [held EXCEPT ![t] = {}]
    /\ UNCHANGED <<round, turnVars, decision, procs, eventVars>>
    /\ TaskFrame

\* Mutant: the pending input is copied and not taken.
GetPendingInputCopies(t) ==
    /\ Goto(t, "loop", "took")
    /\ lock = Free
    /\ held' = [held EXCEPT ![t] = pendingInput]
    /\ UNCHANGED <<round, turnVars, decision, procs, history, eventVars>>
    /\ TaskFrame

\* get_pending_input: whatever turn is active gives up its input, the caller's
\* turn or not.
GetPendingInput(t) ==
    /\ Goto(t, "loop", "took")
    /\ lock = Free
    /\ held' = [held EXCEPT ![t] = pendingInput]
    /\ pendingInput' = {}
    /\ UNCHANGED <<round, active, lock, pendingApprovals, decision, procs, history,
                   eventVars>>
    /\ TaskFrame

\* record_conversation_items of the pending input, then the sampling request.
RecordPending(t) ==
    /\ Goto(t, "took", "sample")
    /\ history' = history \cup held[t]
    /\ held' = [held EXCEPT ![t] = {}]
    /\ UNCHANGED <<round, turnVars, decision, procs, eventVars>>
    /\ TaskFrame

\* The model asks for a tool: the turn needs a follow-up request.
SampleToolCall(t) ==
    /\ round[t] < MaxRounds
    /\ Goto(t, "sample", "tool")
    /\ round' = [round EXCEPT ![t] = @ + 1]
    /\ UNCHANGED <<held, turnVars, decision, procs, history, eventVars>>
    /\ TaskFrame

\* response.completed with a message only: follow up if has_pending_input.
SampleCompleted(t) ==
    /\ lock = Free
    /\ Goto(t, "sample", IF pendingInput # {} THEN "loop" ELSE "flush")
    /\ UNCHANGED <<round, held, turnVars, decision, procs, history, eventVars>>
    /\ TaskFrame

\* The stream failed after its retries: an Error event, and the turn ends.
SampleError(t) ==
    /\ Goto(t, "sample", "flush")
    /\ status' = "Errored"
    /\ UNCHANGED <<round, held, turnVars, decision, procs, history, terminals>>
    /\ TaskFrame

\* A cancelled token ends the request (TurnAborted) and any tool call in flight.
ObserveCancel(t) ==
    /\ t \in cancelled
    /\ pc[t] \in {"prompt", "sample", "tool", "approval", "exec"}
    /\ pc' = [pc EXCEPT ![t] = IF @ \in {"prompt", "sample"} THEN "flush" ELSE "loop"]
    /\ UNCHANGED <<round, held, turnVars, decision, procs, history, eventVars>>
    /\ TaskFrame

\* Mutant: the TurnState has room for one sender.
RequestApprovalOneSlot(t) ==
    /\ Goto(t, "tool", "approval")
    /\ lock = Free
    /\ decision' = [decision EXCEPT ![t] = IF active = {} THEN "kept" ELSE "none"]
    /\ pendingApprovals' = IF active = {} THEN pendingApprovals ELSE {t}
    /\ UNCHANGED <<round, held, active, lock, pendingInput, procs, history, eventVars>>
    /\ TaskFrame

\* request_command_approval: the sender is stored under the turn's id in the
\* TurnState of whatever turn is active; with no turn it stays where it is, and the
\* task waits until it is aborted.
RequestCommandApproval(t) ==
    /\ Goto(t, "tool", "approval")
    /\ lock = Free
    /\ decision' = [decision EXCEPT ![t] = IF active = {} THEN "kept" ELSE "none"]
    /\ pendingApprovals' = IF active = {} THEN pendingApprovals
                           ELSE pendingApprovals \cup {t}
    /\ UNCHANGED <<round, held, active, lock, pendingInput, procs, history, eventVars>>
    /\ TaskFrame

\* rx_approve.await: a decision, or Denied once the sender is gone.
ApprovalAnswered(t) ==
    /\ t \notin pendingApprovals /\ decision[t] # "kept"
    /\ Goto(t, "approval", IF decision[t] = "Approved" THEN "exec" ELSE "loop")
    /\ UNCHANGED <<round, held, turnVars, decision, procs, history, eventVars>>
    /\ TaskFrame

\* The policy asks for no approval.
SkipApproval(t) ==
    /\ Goto(t, "tool", "exec")
    /\ UNCHANGED <<round, held, turnVars, decision, procs, history, eventVars>>
    /\ TaskFrame

\* exec_command leaves a live process in the store, or none: the command was
\* forbidden, failed, or has exited by the time the call returns.
ExecCommand(t) ==
    /\ Goto(t, "exec", "loop")
    /\ procs' \in {procs, procs \cup {t}}
    /\ UNCHANGED <<round, held, turnVars, decision, history, eventVars>>
    /\ TaskFrame

AuxReturns(t) ==
    /\ Goto(t, "auxrun", "flush")
    /\ UNCHANGED <<round, held, turnVars, decision, procs, history, eventVars>>
    /\ TaskFrame

\* flush_rollout, then on_task_finished unless the token is cancelled by now.
FlushRollout(t) ==
    /\ Goto(t, "flush", IF t \in cancelled THEN "notify" ELSE "finish")
    /\ UNCHANGED <<round, held, turnVars, decision, procs, history, eventVars>>
    /\ TaskFrame

\* Mutant: no check that the active turn still owns the task.
OnTaskFinishedUnowned(t) ==
    /\ lock = Free
    /\ Goto(t, "finish", "close")
    /\ active' = active \ {t}
    /\ lock' = t
    /\ UNCHANGED <<round, held, pendingInput, pendingApprovals, decision, procs,
                   history, eventVars>>
    /\ TaskFrame

\* Mutant: active_turn is unlocked before the process cleanup.
OnTaskFinishedUnlocked(t) ==
    /\ lock = Free
    /\ Goto(t, "finish", IF t \in active THEN "close" ELSE "notify")
    /\ active' = active \ {t}
    /\ UNCHANGED <<round, held, lock, pendingInput, pendingApprovals, decision, procs,
                   history, eventVars>>
    /\ TaskFrame

\* on_task_finished: give up unless the active turn still owns the task,
\* otherwise remove it and keep active_turn locked.
OnTaskFinished(t) ==
    /\ lock = Free
    /\ IF t \in active
       THEN /\ Goto(t, "finish", "close")
            /\ active' = active \ {t}
            /\ lock' = t
       ELSE /\ Goto(t, "finish", "notify")
            /\ UNCHANGED <<active, lock>>
    /\ UNCHANGED <<round, held, pendingInput, pendingApprovals, decision, procs,
                   history, eventVars>>
    /\ TaskFrame

\* Mutant: completion leaves the processes running.
FinishCloseSkipped(t) ==
    /\ Goto(t, "close", "unlock")
    /\ UNCHANGED <<round, held, turnVars, decision, procs, history, eventVars>>
    /\ TaskFrame

\* close_unified_exec_processes under the active_turn lock.
FinishClose(t) ==
    /\ Goto(t, "close", "unlock")
    /\ procs' = {}
    /\ UNCHANGED <<round, held, turnVars, decision, history, eventVars>>
    /\ TaskFrame

\* *active = None drops the TurnState with what is pending; drop(active).
FinishUnlock(t) ==
    /\ Goto(t, "unlock", "emit")
    /\ lock' = Free
    /\ pendingInput' = {}
    /\ pendingApprovals' = {}
    /\ UNCHANGED <<round, held, active, decision, procs, history, eventVars>>
    /\ TaskFrame

EmitTurnComplete(t) ==
    /\ Goto(t, "emit", "notify")
    /\ terminals' = [terminals EXCEPT ![t] = Append(@, "complete")]
    /\ status' = "Completed"
    /\ UNCHANGED <<round, held, turnVars, decision, procs, history>>
    /\ TaskFrame

NotifyDone(t) ==
    /\ Goto(t, "notify", "done")
    /\ UNCHANGED <<round, held, turnVars, decision, procs, history, eventVars>>
    /\ TaskFrame

\* The runtime drops the future of an aborted task at an await point, and with
\* it the guard of active_turn.
Die(t) ==
    /\ t \in killed
    /\ pc[t] \notin {"absent", "done", "dead"}
    /\ pc' = [pc EXCEPT ![t] = "dead"]
    /\ held' = [held EXCEPT ![t] = {}]
    /\ lock' = IF lock = t THEN Free ELSE lock
    /\ UNCHANGED <<round, active, pendingInput, pendingApprovals, decision, procs,
                   history, eventVars>>
    /\ TaskFrame

TaskStep(t) ==
    \/ BeginRegular(t) \/ BeginAux(t) \/ RecordPrompt(t)
    \/ GetPendingInput(t) \/ RecordPending(t)
    \/ SampleToolCall(t) \/ SampleCompleted(t) \/ SampleError(t) \/ ObserveCancel(t)
    \/ SkipApproval(t) \/ RequestCommandApproval(t) \/ ApprovalAnswered(t)
    \/ ExecCommand(t) \/ AuxReturns(t) \/ FlushRollout(t)
    \/ OnTaskFinished(t) \/ FinishClose(t) \/ FinishUnlock(t)
    \/ EmitTurnComplete(t) \/ NotifyDone(t) \/ Die(t)

(***************************************************************************)
(* Specification.  The submission loop and the tasks are Tokio tasks: a    *)
(* runnable one is eventually polled, model streams have idle timeouts and *)
(* the active_turn mutex is fair.  Clients owe nothing, so a task may wait *)
(* for an approval for ever.                                               *)
(***************************************************************************)
Client == \/ \E c \in Submissions : c.op \in Ops /\ Submit(c)
          \/ "InterruptTurn" \in Ops /\ \E t \in Turns : SubmitInterruptTurn(t)

Next == Client \/ CoordStep \/ \E t \in Turns : TaskStep(t)

Fairness == WF_vars(CoordStep) /\ \A t \in Turns : WF_vars(TaskStep(t))

Spec == Init /\ [][Next]_vars /\ Fairness

(***************************************************************************)
(* Properties                                                              *)
(***************************************************************************)

\* Every variable has its type and the submission channel keeps its capacity.
TypeOK ==
    /\ nextId \in 1..(MaxSub + 1)
    /\ sq \in Seq(Commands) /\ Len(sq) <= SqCapacity
    /\ targeted \subseteq Turns
    /\ cpc \in CoordPcs
    /\ cmd \in Commands \cup {NoCommand}
    /\ victims \subseteq Turns
    /\ pc \in [Turns -> TaskPcs]
    /\ kind \in [Turns -> {"regular", "aux"}]
    /\ round \in [Turns -> 0..MaxRounds]
    /\ held \in [Turns -> SUBSET Turns]
    /\ active \subseteq Turns
    /\ lock \in Turns \cup {Free}
    /\ pendingInput \subseteq Turns
    /\ pendingApprovals \subseteq Turns
    /\ decision \in [Turns -> Decisions \cup {"none", "kept"}]
    /\ cancelled \subseteq Turns
    /\ killed \subseteq Turns
    /\ procs \subseteq Turns
    /\ history \subseteq Turns
    /\ marked \subseteq Turns
    /\ accepted \subseteq Turns
    /\ terminals \in [Turns -> Seq(Terminals)]
    /\ status \in Statuses
    /\ acked \subseteq Turns
    /\ nacked \subseteq Turns

\* A turn ends once: TurnComplete and TurnAborted are never both emitted for
\* it, nor one of them twice, however completion by the task and cancellation
\* by the coordinator race (on_task_finished, handle_task_abort).
SingleTerminal == \A t \in Turns : Len(terminals[t]) <= 1

\* A session runs at most one task: a task that runs and was not aborted is the
\* one the active turn owns or the one the coordinator is aborting.
OneRunningTask ==
    /\ \A t \in Turns : pc[t] \in RunPcs => t \in active \cup victims \cup killed
    /\ Cardinality(active \cup victims) <= 1

\* A published active turn has a live, uncancelled task behind it: otherwise
\* later input would be injected into a turn nobody runs (spawn_task publishes
\* ownership before even an immediately ready task can finish).
NoOrphanTurn ==
    \A t \in active : /\ pc[t] \in RunPcs \cup {"ready"}
                      /\ t \notin cancelled

\* The answer to a targeted interrupt is true: after true the turn has ended
\* with TurnAborted, after false the turn never is active again.
InterruptAnswerTruthful ==
    /\ \A t \in acked : terminals[t] = <<"aborted">>
    /\ \A t \in nacked : t \notin active

\* Each live process belongs to the active turn, to the turn that completes
\* under the lock, to the turn being aborted, or to an aborted task that was
\* still in a poll; a completed turn leaves none behind.
ProcessesOwned ==
    \A t \in procs : t \in active \cup victims \cup killed \/ lock = t

\* The session-wide process cleanup of a turn that ends never takes a process
\* of the turn that is active (on_task_finished holds the lock across it).
CleanupSparesOwner == [][\A t \in procs \ procs' : t \notin active]_vars

\* The active task that waits for an approval can still be answered: its sender
\* is stored or its decision was sent, so it is not denied behind the user's back.
LiveApprovalIsPending ==
    \A t \in active :
        pc[t] = "approval" => t \in pendingApprovals \/ decision[t] \in Decisions

\* When clients see TurnAborted of a turn that was interrupted, in whatever way
\* (Op::Interrupt, an approval answered with Abort, a targeted interrupt, shutdown),
\* the turn_aborted marker is in the history already; a turn that is replaced or
\* completes has none then, and none is added later (handle_task_abort).
MarkerPrecedesAbort ==
    [][\A t \in Turns :
          /\ terminals'[t] # terminals[t] =>
                (t \in marked <=> t \in victims /\ AbortReason = "Interrupted")
          /\ terminals[t] # <<>> => (t \in marked' <=> t \in marked)]_vars

\* A turn ends, or waits for an approval for ever.
TurnEnds ==
    \A t \in Turns : [](t \in active => <>(terminals[t] # <<>> \/ [](pc[t] = "approval")))

\* A targeted interrupt of an active turn ends it, even one whose task waits for
\* an approval or misses the cancellation (the abort after the timeout).
InterruptEndsTurn ==
    \A t \in Turns : (t \in targeted /\ t \in active) ~> (terminals[t] # <<>>)

\* A targeted interrupt is answered unless the session shuts down first.
InterruptAnswered ==
    \A t \in Turns : (t \in targeted) ~> (t \in acked \cup nacked \/ cpc = "exited")

\* As the status channel is read by waiters, a turn that has started is not
\* reported as completed (AgentStatus::Completed, "Agent is done").
RunningIsNotCompleted ==
    \A t \in active : pc[t] \in StartedPcs /\ t \notin cancelled => status # "Completed"

\* A user input the session accepted is recorded for the model, unless a turn
\* was aborted with it.
NoInputLost ==
    cancelled = {} =>
        accepted \subseteq history \cup pendingInput
                           \cup UNION {held[t] : t \in Turns}
                           \cup (IF cpc = "recv" THEN {} ELSE Content(cmd))

(***************************************************************************)
(* The inductive invariant behind the safety properties.                   *)
(***************************************************************************)

\* The coordinator handles a command that will start turn cmd.id.
StartCommand == cmd.op \in {"UserInput", "Aux"}
Starting     == StartCommand /\ cpc \in {"take", "cancel", "wait", "emit", "close", "spawn"}

\* Turn t was never spawned and nobody was told that it is not active.
Fresh(t) == pc[t] = "absent" /\ t \notin nacked

\* Each submission starts its turn at most once, and a targeted interrupt is
\* behind the submission it names.
QueueInv ==
    /\ \A i \in 1..Len(sq) : /\ sq[i].id < nextId
                             /\ sq[i].op # "InterruptTurn" => Fresh(sq[i].id)
    /\ \A i, j \in 1..Len(sq) :
            i < j /\ sq[j].op # "InterruptTurn" => sq[i].id # sq[j].id
    /\ \A t \in Turns : t >= nextId => Fresh(t)
    /\ Starting => /\ Fresh(cmd.id)
                   /\ cmd.id < nextId
                   /\ \A i \in 1..Len(sq) : sq[i].op # "InterruptTurn" => sq[i].id # cmd.id

\* What the coordinator's position says of the tasks it drained and of the turn
\* it starts.
CoordInv ==
    /\ cpc # "recv" => cmd \in Commands
    /\ victims # {} <=> cpc \in {"cancel", "wait", "emit"}
    /\ \A t, u \in active \cup victims : t = u
    /\ cpc = "cancel" => victims \cap cancelled = {}
    /\ cpc \in {"wait", "emit"} => victims \subseteq cancelled
    /\ cpc = "emit" => victims \subseteq killed
    /\ cpc \in {"cancel", "wait", "emit", "close", "spawn", "register", "shutdown", "exited"}
            => active = {}
    /\ lock # Free => active = {}
    /\ cpc = "interrupt" => cmd.op \in {"Interrupt", "ExecApproval"}
    /\ cpc = "take" => cmd.op # "InterruptTurn"
    /\ cpc = "spawn" => StartCommand
    /\ cpc \in {"register", "start"} =>
            StartCommand /\ pc[cmd.id] = "ready" /\ cmd.id \notin nacked
    /\ cpc = "start" => active = {cmd.id}
    /\ cmd.op = "InterruptTurn" /\ cpc \in {"cancel", "wait", "emit"} => victims = {cmd.id}
    /\ cmd.op = "InterruptTurn" /\ cpc = "close" => terminals[cmd.id] = <<"aborted">>

\* Who owns turn t, from where its task is.
TurnInv(t) ==
    /\ terminals[t] \in {<<>>, <<"complete">>, <<"aborted">>}
    /\ pc[t] \in {"absent", "ready"} =>
            t \notin victims \cup cancelled \cup killed /\ terminals[t] = <<>>
    /\ pc[t] = "absent" => t \notin active
    /\ pc[t] = "ready" => cpc \in {"register", "start"} /\ t = cmd.id
    /\ t \in active => /\ pc[t] \in RunPcs \cup {"ready"}
                       /\ t \notin cancelled
                       /\ terminals[t] = <<>>
    /\ t \in active => t \notin victims
    /\ t \in victims => pc[t] \in RunPcs \cup {"notify", "done", "dead"} /\ terminals[t] = <<>>
    /\ pc[t] \in RunPcs => t \in active \cup victims \cup killed
    /\ pc[t] \in FinishPcs => t \notin active \cup victims \cup cancelled /\ terminals[t] = <<>>
    /\ pc[t] \in {"close", "unlock"} <=> lock = t
    /\ t \in killed => t \in cancelled
    /\ t \in cancelled => t \in victims \/ terminals[t] = <<"aborted">>
    /\ t \in acked => terminals[t] = <<"aborted">>
    /\ t \in nacked => t \notin active /\ t < nextId
    /\ t \in procs => t \in active \cup victims \cup killed \/ pc[t] = "close"

\* The ownership protocol of active_turn as one inductive invariant: a turn is
\* owned by the active turn, by the coordinator that aborts it or by the task
\* that completes it, and by one of them only.
OwnershipInv == TypeOK /\ QueueInv /\ CoordInv /\ \A t \in Turns : TurnInv(t)

(***************************************************************************)
(* Refinement                                                              *)
(***************************************************************************)
Phase(t) ==
    CASE t \in active -> "open"
      [] t \in victims -> "aborting"
      [] pc[t] \in FinishPcs -> "finishing"
      [] terminals[t] = <<"complete">> -> "complete"
      [] terminals[t] = <<"aborted">> -> "aborted"
      [] OTHER -> "none"

Contract == INSTANCE TurnContract WITH phase <- [t \in Turns |-> Phase(t)]

\* The session keeps the contract with its clients: through every race of
\* completion, abort and replacement each turn moves as TurnContract allows and
\* each targeted interrupt is answered as it allows.
ImplementsContract == Contract!Spec
=============================================================================
