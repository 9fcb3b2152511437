# A TLA+ model of savfox

This directory holds TLA+ specifications of the concurrent core of savfox, the
TLC configurations that check them on small instances, and TLAPS proofs of the
main results for every instance. Paths below are relative to the root of the
repository; `core` stands for `crates/core/src` and `gateway` for
`crates/gateway-server/src`. The repository has some 400,000 lines, most of them
interfaces, clients and data types; modelled are the parts where concurrency,
failure and recovery decide what is correct.

## 1. Inventory

| component | state | operations | how it interacts |
|---|---|---|---|
| session turn lifecycle (`core/savfox`, `core/tasks`, `core/state/turn.rs`) | submission queue, `active_turn` with its `TurnState`, cancellation tokens, agent status | submit, interrupt, interrupt_turn, approve, shut down; spawn, abort and finish a task; take pending input | clients put commands on a queue, one submission loop takes them, each turn has a Tokio task; all share `active_turn` |
| unified exec (`core/unified_exec`) | process store, reserved ids, processes | exec_command, write_stdin, prune, terminate all | called by the tasks of turns; detached tasks stream output and report exits; the lifecycle cleans up |
| conversation history (`core/context_manager`) | items, token usage | record, normalise, truncate, roll back | written by tasks and by the submission loop |
| rollout recorder (`core/rollout`) | a file, a command queue | add, flush, shut down, resume | written by a task of its own; read again after a restart |
| compaction, review, undo, shell (`core/tasks`) | none of their own | run as tasks of a turn | replace the running turn |
| sub-agents, session manager (`core/agent`, `core/session_manager.rs`) | live agents, spawn slots | spawn, send, shut down | watch the agent status of other sessions |
| MCP connections (`core/mcp_connection_manager.rs`) | clients and their startup | start, cancel, refresh, call | an interrupt without a turn cancels the startup |
| gateway approvals (`gateway/security`, `exec_approval.rs`, `channel/session_bridge.rs`) | pending requests in memory, pending and resolved ones in a file | register, reply, resolve, expire, remove, give up | the invocation of a turn registers what Core asks; resolvers send the decision to the session |
| channel execution coordinator (`gateway/channels/runtime/coordinator.rs`) | an actor with an inbox per session, two budgets | dispatch, receive, execute, retire | between the inboxes of channels and the invocations of turns |
| Arkret native reply (`gateway/arkret_delivery.rs`, `channels/arkret/native_reply`) | a durable ledger with receipts, a watermark and one entry per message | prepare, claim, retain output and event, mark accepted, onboard | an inbox consumer drives a reply through it; the model request and the Station are outside |
| gateway queue, sessions, scheduler, resilience, pairing (`gateway`) | queues, jobs, breakers, codes | enqueue, run, trip, pair | between chat channels and sessions |
| channels, TUI, app server, CLI, web | connections, screens | translate | clients of a session or of the gateway |
| exec policy, apply patch, head/tail buffer | values | pure functions | called by tools |

What is hard here: completion and abort of a turn race for its ownership; an
aborted Tokio task may still finish the poll it is in; state is read under a
lock and used after it; cleanup is session wide while turns follow each other;
a notification that nobody waits for is lost; futures are dropped between two
events that belong together; approvals wait for people, and all those of a turn
carry one id; files are written in place or appended to after a torn line; a
transaction outlives its aborted caller; a crash leaves open whether a request
was made. `PROJECT.json` lists
these hazards at their lines, with the properties that watch them.

What makes the components correct: a turn ends exactly once and its client is
told the truth about it; one task runs at a time; no input is lost; processes
die with their turn and not before; each command begins and ends once; the
store keeps its limit; a decision reaches the request it answers, and the audit
trail is true; the rollout file rebuilds the history; accepted work is started,
in order and within its budgets; a message gets at most one model request and
one reply, across aborts and restarts.

## 2. Modules

| module | models |
|---|---|
| `TurnLifecycle` | clients, submission loop and tasks of one session |
| `TurnContract` | what a session promises its clients about turns, abstractly |
| `UnifiedExec` | the exec_command and write_stdin calls and the process store |
| `Rollout` | the conversation history, its rollout file, compaction, crash and resume |
| `Approvals` | the approval requests of a turn that the gateway runs |
| `Coordinator` | the channel execution coordinator of the gateway |
| `DispatchContract` | what the coordinator promises its sessions, abstractly |
| `NativeReply` | the native reply ledger of the Arkret channel and its consumer |
| `ReplyContract` | what native replies promise about messages, abstractly |
| `...Proofs` | theorems about the six modules of components above |
| `ReplayProofs` | the theorem that the rollout file gives the history back |
| `ReplyContractProofs` | the theorem that `NativeReply` implements `ReplyContract` |
| `MC...` | the modules TLC runs |

### TurnLifecycle

A turn is named by the id of the submission that starts it. The variables are
the fields of the code: `sq` is the channel behind `tx_sub`, `active` the tasks
of `active_turn` (empty when it is `None`), `lock` the task that holds its mutex
across an await, `pendingInput` and `pendingApprovals` the `TurnState`,
`cancelled` and `killed` the tokens and the aborted join handles, `procs` the
turns with a process in the store, `history` and `marked` what is recorded,
`terminals` the terminal events, `status` the watch channel. `cpc` and `pc` say
where the submission loop and the tasks are. `accepted`, `acked`, `nacked` and
`targeted` record what clients were told.

A step is the code between two points where another actor can run. The critical
sections of `active_turn` are one step each, except that of `on_task_finished`,
which awaits the process cleanup while it holds the lock: there `lock` is taken
by `OnTaskFinished` and given back by `FinishUnlock`. A task whose handle is
aborted goes on until `Die` drops it at an await, so all that a late poll can do
is covered. Undo, Compact, Review and RunUserShellCommand are one kind of
submission, `Aux`: they replace the running turn and never read pending input.
Inputs are named by their submission; an empty list of items carries none. The
model's answer is a choice between a tool call, a completed response and an
error. A tool call may skip or ask for approval, and may leave a process. An
approval that is asked for when no turn is active, by a task in its last poll,
has a sender that nobody can use: the task waits until it is dropped. The reason
of an abort (`AbortReason`) decides whether a marker is recorded: interrupts of
every kind record one before TurnAborted is sent, a replacement does not.

Not in it: the second approval of a command that is tried again without the
sandbox; `request_user_input` and dynamic tools, which use the same oneshot
senders as approvals; settings, lists, rollback, MCP startup.

### TurnContract

The abstract specification: a turn goes from none to open, and from there either
through finishing to complete or through aborting to aborted; a turn opens only
when no other is open or aborting, and never after a client was told that it is
not active; the answer true to a targeted interrupt comes after the abort.
`Phase` in `TurnLifecycle` is the refinement mapping. "finishing" is there
because the code lets the next turn start before TurnComplete is sent.

### UnifiedExec

Each call of exec_command opens at most one process, so a process is named by
its call. `store` maps process ids to calls, `reserved` is
`reserved_process_ids`, `lastUsed` and `clock` are the instants that pruning
compares. exec_command and write_stdin do not support parallel calls: the write
lock of `ToolCallRuntime` is `Quiet`, which lets a call start when all others in
flight were aborted. An aborted call goes on until `DropCall`, past the cleanup
of its turn if it is slow. A process dies with its last owner (`Held`): its
call, its entry, its exit watcher. The output and the yield times are left out:
a poll may end at any moment. The task that streams the output (`streaming`) ends
some time after the process did, and the exit watcher waits for it before it emits
ExecCommandEnd; the permit of `output_drained` is kept if the watcher comes later.

`stale` marks the calls that were in flight when a cleanup cleared the reserved
ids. Their ids may be given out to a second call (`IdShared`); the properties
about identity exempt calls that share an id in this way, and only these. A stale
call may also store its process after the cleanup of its turn; the process then
runs on in the next turn until the next cleanup, which finds it in the store.
`NoProcessLost` covers such a process; `CleanupComplete` is about the processes of
calls that had returned or been dropped when the cleanup came, and exempts the
stale ones openly.

### Rollout

`history` is `ContextManager.items`, an item being its kind and a number;
`queue`, `writer`, `file` and `tail` are the recorder's channel, its task and
the end of the file. Three actors record: the task of the turn, the submission
loop, and the ghost snapshot, which runs beside its turn and may outlive it.
Each changes the history first (`Change`) and then sends to the queue (`todo`,
`Send`), as `record_conversation_items` does, and may wait for a flush. Local
compaction puts the model's answer into the history only, then replaces the
history and sends one `Compacted` record; remote compaction sends the whole
replacement. A write may be cut short: by a part of the line, or by its newline
alone. The writer then ends for the rest of the session (`WriteFails`), or the
process dies (`Crash`). `Resume` reads the file as `load_rollout_items` does,
drops what does not parse, rebuilds the history (`Reconstruct`) and goes on
appending after a torn line, which costs the next item.

`cut` marks the two ways by which the code separates history and rollout without
a failure of the file: an abort between `record_into_history` and the send
(event_pipeline.rs:129), and a compaction that fails or is aborted after its
answer was recorded into the history only (compact.rs:343). `ReplayMatches`
claims nothing after them. It also leaves ghost snapshots aside: the live
history of a local compaction keeps them (compact.rs:174), the replay of its
record does not (event_pipeline.rs:153), so an undo is lost by a restart.

Not in it: items that replay skips, limits on the length of items, changes of
configuration between turns, the metadata database, forks, undo.

### Approvals

One turn and the invocation that the gateway runs for it, in five modes. An
invocation for a channel has a person to ask: on a session that outlives it
("shared") or on a fork of it ("forked"). Those of REST, hook and WS handlers are
unattended, and deny what Core asks: on a session that outlives them ("rest"), on
a temporary one ("once"), or as a cancellable stream ("stream"). Core is the part
of `TurnLifecycle` that approvals touch: `waiting`
is the request whose sender is in `pending_approvals`; since its key is the id of
the turn, a decision in `sq` answers whatever waits when it is received. `mem`
is the registry, `store` the approvals file, `closing` the removals whose denial
is still to be stored. A resolver (`call`) takes the request from memory, submits
to Core, and writes the audit entry, with an await between each; it may lose its
connection at any of them. The legacy resolve of the REST interface works from
the file alone. The invocation (`ipc`) registers each request in the file and in
memory, gives up at its deadline, and cleans up by `remove_invocation_approvals`,
by the stream's cleanup, and by removing a temporary session. The client of a
stream may go (`Cancel`): the collector is dropped and the stream's cleanup
follows. The client of another unattended call may go as well (`DropInvocation`):
the handler is dropped with the invocation, and nothing follows. `WaitEnds`
exempts this case, in which Core waits until somebody interrupts the turn.

The session manager knows a session by its id only. A change of policy removes the
emitting session (`InvalidateSession`), whose turn goes on with its invocation;
the next invocation of the logical session resumes the rollout under the same
`SessionId` (`ResumeSession`), so that `listed` has three values. A resolver that
holds a request, or takes one that was put back, then finds the resumed session and
submits to it (`DeliverStray`). `DeliveredToEmitter` states the promise of the code
that this breaks (section 4). What still holds is that a leftover never reaches the
session that asked, where it would answer the next request of the turn
(`LeftoversMissSession`), and that the emitting session applies to a request only
what was decided for it (`AnswersItsOwn`).

Not in it: what a resumed session makes of a decision that was not for it, whose
id, the id of a turn, it may use itself; and a second turn on the same session.
After a user's interrupt the collector goes on waiting for its approval, and the
abort it submits at its deadline (session_bridge.rs:743) is an interrupt of
whatever turn is active then; the comment at session_bridge.rs:815 speaks of the
turn-specific interrupt of another path. No property here is about it.

### Coordinator

A step is what is done under the registry lock, an operation on a channel, or
the grant of a permit. An actor is named by the task it was spawned with; `apc`
is its place in `run`, `held` the task for which it waits for a permit,
`running` its `JoinSet` with the executions not yet joined. `accepted` and
`started` record the order of acceptance and of start per session.

### DispatchContract

The abstract specification: one queue per session and no actor, channel or
permit. A task is accepted at the end of the queue of its session when the
gateway has room, is taken from the front of it only to be executed, when the
budgets of executions and of its session have room, and ends. The refinement
mapping gives each task the `Stage` that its place in the code amounts to, and
each session the `Backlog` of the actor that is registered for it: the task it
holds, then its inbox. Spawning, registering and retiring an actor, waiting for a
permit and joining an execution are stuttering steps. A retirement that dropped
an inbox, or an actor that started what another one still held, would not be.

### NativeReply

One Agent and one lane. `stream` is the commit stream, `ledger`, `cutoff`,
`water` and `first` the durable `NativeReplyLedger`. Each `native_...` function
is one atomic transaction with the code's checks; the consumer (`pc`) calls them
in the order of `reply`. An abort of the consumer leaves the transaction it
waits for as an orphan, applied at any later moment or never; a crash drops the
orphans and may change the model configuration, which is part of the input
digest. `sends` counts model requests, `authored` the events that were signed
for a message. The outbound queue retries until the Station commits or refuses.

An entry that was prepared under another configuration is refused for ever, and
with it the lane stands still. `UnknownSettles` exempts this case, although the
comment at factory.rs:520 wants newer inputs not to be starved. An output that
an orphan retains after its message was settled as unknown is never sent. The
comment "Required at cold startup" on `native_resume_required_existing`
(arkret_delivery.rs:1041) is not what the code does: only `native_save_onboarding`
calls it; the model follows the code.

### ReplyContract

The abstract specification, without ledger, transactions, queue or faults: the
messages of a stream are taken in order; the model is asked at most once, and
only for a mention that is the oldest unsettled message; at most one reply is
committed, to a message the model was asked about; a verdict is given once, is
true when it is given, and ends what is done for the message. In particular a
message that was settled as unknown is never replied to, although its output may
be retained later. The mapping reads `asked` from `sends`, `replied` from what the
Station committed and `verdict` from `outcome`; every transaction of the ledger,
every abort, restart, save and late transaction is a stuttering step.

## 3. Runs

| run | instance | shows |
|---|---|---|
| `turn_races` | 3 submissions of user input, auxiliary tasks, approvals and interrupts, up to 2 rounds, queue of 2 | one terminal event per turn, one running task, no orphan turn; processes and approvals belong to the turn that runs; a cleanup spares the next turn |
| `turn_contract` | all operations, 2 submissions and their targeted interrupts, one round | the contract is implemented, the ownership invariant holds, answers are truthful, markers precede TurnAborted; turns end and interrupts are answered (liveness) |
| `exec_prune` | 4 calls for a store of 3, one protected | the limit and the choice of pruning |
| `exec_store` | 2 calls, 1 write, 2 ids, an abort and a cleanup | one End per command, no lost process, complete cleanup, the right answer, exits reported (liveness) |
| `rollout` | 5 items, 1 ghost snapshot, 1 torn write, 1 restart, queue of 2 | replay gives the history, acknowledged items are read back, flushes return (liveness) |
| `approvals` | 2 requests, a channel and an operator that approve, 1 fault, all modes | decisions answer their own request, the audit is true, leftovers miss the session that asked, waits end (liveness) |
| `coordinator` | 5 tasks in every partition into sessions, 4 admissions, 3 executions, 2 per session, inboxes of 1 | bounds of session and gateway, order of starts, the contract is implemented, accepted work starts (liveness) |
| `native_reply` | a stream of 2 messages, the second possibly a live mention, 2 saved configurations, 2 model configurations, 3 faults, 2 events per message | a valid ledger, one request and one reply per message, truthful settlement, the contract is implemented, the lane goes on (liveness) |
| `turn_status`, `turn_input`, `exec_paired`, `approvals_session` | as small as the counterexample allows | the four findings below |

Bounds. Two turns are enough for every race between a turn and its successor,
three for one that outlives its successor (an aborted task in its last poll).
Two rounds in `turn_races` let a task that has run a tool look at its input
again. The third submission of `turn_races` is an approval or an interrupt
beside two turns, or a third turn. `turn_contract` has all operations together,
and its two turns and their targeted interrupts suffice for the answers: an
interrupt is answered for its own turn, and the other turn completes, replaces
it or comes before it. What the two runs check of safety is proved for any
number of submissions and rounds. A queue of two is filled and lets commands
wait behind each other. In `exec_prune` four calls on a store of three make
pruning choose between a protected, an exited and a running process; in
`exec_store` two ids suffice for reuse. In `rollout` five items make a context,
two turns with an answer or a compaction between them, and an item after the
restart that meets the torn line; a queue of two fills. In `approvals` two
requests are what a late decision can confuse, and one fault hits each step
once; deny and abort take the same path as approve up to the operation that is
submitted, so the resolvers of the run approve, while expiry, removal and the
invocation deny. In `coordinator` each budget is exceeded by the next: five
tasks for four admissions, three executions for them, two in a session. In
`native_reply` the first message is what the onboarding finds in the stream and
the second may come before or after it; three faults are an orphan, a crash and
another abort. The same properties hold with a third message, two live ones
then, for one saved configuration and three faults (255,456 states) and for two
and one fault (409,428), and those of the contract with the invariant of its
proof for two and two (1,651,164); the safety properties are proved for any
number. The bounds are guards of the actions (`Max...`); there are no state
constraints. `MCSpec` of `MCCoordinator` restricts the initial states to one
assignment of tasks to sessions for each partition of their number, since no
definition tells two tasks or two sessions apart. `exec_prune` uses symmetry in
calls and ids, which no definition tells apart; the runs with liveness
properties use none. Deadlock is not checked: a session whose clients are
silent, or an idle gateway, may stop, and a bounded instance comes to its end.
The type invariants are proved (section 5); that of `TurnLifecycle` is part of
`OwnershipInv`, which `turn_contract` checks, and otherwise the runs spend their
properties on what is harder.

Fairness. The submission loop, the tasks, the calls in flight, the watchers and
a cleanup that has begun are Tokio tasks, and the runtime polls a runnable task
eventually; model streams have idle timeouts, so a sampling request ends; the
100 ms timer ends the wait of an abort. This is weak fairness of `CoordStep`, of
each `TaskStep(t)`, of a call that has started, of its watcher and of the
termination of its entry. Clients and processes owe nothing: an approval may
never come, a process may run for ever, and the liveness properties say so.
In `Rollout` the writer task is fair: disk writes return, with success or an
error. In `Coordinator` actors are polled, a free permit is granted in the order
of waiting (Tokio's semaphore is fair), and an execution ends, since an
invocation has a deadline (session_bridge.rs:478). In `Approvals` the collector
and the submission loop are polled and the deadline passes; resolvers and their
clients owe nothing. In `NativeReply` only the consumer's task is fair; the
owner, the provider's answer and the Station owe nothing.

## 4. Findings

* `turn_status`: the status can say Completed while a turn runs, because
  TurnComplete is sent after `active_turn` is unlocked.
* `turn_input`: user input that is injected after the last `has_pending_input`
  of a turn is dropped with its `TurnState`. A turn that was started with empty
  input never looks, and loses what is injected into it in the same way.
* `exec_paired`: the item of a command that is interrupted during its first poll
  is never completed, because the future that would emit ExecCommandEnd is
  dropped. The same happens to one that is interrupted while `store_process` sends
  its warning (`Warning` is one process in this run, so that it is reached).
* `approvals_session`: a decision can be delivered to a session that was resumed
  under the id of the one that asked, although `resolve_channel_approval_reply`
  promises the exact session that emitted the request; the request goes on waiting
  while the audit trail calls it approved.

## 5. Proofs

Every safety invariant, action property and refinement that a passing run checks
is proved for all values of the constants. The assumptions are the named
`ASSUME` of each module: bounds are natural numbers, capacities are positive,
calls and tasks are finite sets, `None` is not one of the values, and fewer
processes are protected than the store may hold (8 of 64,
process_manager.rs:605, unified_exec/mod.rs:51). None of the properties is
inductive alone. Each proof module has one inductive invariant, checked by TLC
on the instance of the run and on larger ones before it was proved, then one
lemma for each action or group of actions, and a theorem for each property that
follows from it.

**`TurnLifecycleProofs`** (`ConstantsAssumption`): `OwnershipInv` (`Ownership`)
and from it `TypeOK`, `SingleTerminal`, `NoOrphanTurn`, `OneRunningTask`,
`InterruptAnswerTruthful`, `ProcessesOwned`, the action property
`CleanupSparesOwner`, and that `Spec` implements `TurnContract`
(`SessionImplementsContract`). That a turn ends once needs to know who may
still end it: `TurnInv(t)` says, from where the task of `t` is, whether the
active turn, the submission loop or the task itself owns `t`. That the
submission loop aborts what it drained and only that is `CoordInv`. That a turn
is started once, and that a targeted interrupt stands behind the submission of
its turn, is `QueueInv`, an invariant of the queue's contents: without it a turn
that was refused could still start. For the refinement each action is shown to
be a step of the contract or to leave `Phase`, `acked` and `nacked` unchanged,
using `OwnershipInv` before the step. Two properties need invariants of their own
beside it: `MarkerPrecedesAbort` (`MarkerComesFirst`) that what the submission
loop is about to report as interrupted is marked, and nothing else (`MarkInv`), and
`LiveApprovalIsPending` (`ApprovalStaysAnswerable`) only who owns the turn.

**`UnifiedExecProofs`** (`UnifiedExecAssumption`): `TypeOK`, `StoreBounded`,
`EndOnce`, `NoProcessLost`, `CleanupComplete`, `AnswerNamesTarget` and the action
property `PruneSparesRunning`. The argument is about who claims an id: a call
claims what it allocated until it ends or its process leaves the store, a claimed
id is reserved (`ClaimInv`), and two calls claim the same one only if a cleanup
cleared the reservations under a call in flight (`UniqueInv`). Thus removing
"what has this id" removes one's own entry. That the store keeps its limit needs
more than its size: pruning must find a victim, and it does because no two
processes were used at the same instant (`ClockInv`), so that the protected ones
are too few to be all. The code takes the first eight of a sorted list, which are
eight whatever the instants; `MostRecent` says the same by counting the processes
used later, and `ClockInv` is what makes the two agree.

**`RolloutProofs`** (`RolloutAssumption`): `TypeOK` and `AckedSurvives`. The
invariant is a budget (`Budget`): acknowledged or acknowledgeable items that
cannot be read, plus one if the file ends in the middle of a line, are never more
than the torn writes. It holds because a line that is torn was not acknowledged
and cannot be any more (`OpenInv`), which rests on numbers being sent once
(`FreshInv`) and on the writer ending with its first error.

**`ReplayProofs`** (on top of `RolloutProofs`): `ReplayMatches`. The argument is
about the stream of rollout items: the file, then the channel, then what the task
and the submission loop have still to send. Its replay is the history at all times,
ghost snapshots aside (`Synced`), because each change of the history puts one item
behind the stream and every other step moves items along it or adds one that replay
skips; during a local compaction the history is ahead by the model's answer.
`TurnInv` says that task and loop never both have something to send, so that the
stream has one order; `LoopInv`, `OwnInv` and `EventInv` that behind the flush the
loop waits for there is nothing but snapshots, which makes the file alone enough
when the client gets its event; `DataInv` what the items are. Replay is a fold, and
a step of it needs its equations: they are proved by induction on the length,
obtained from the well-foundedness of the natural numbers (`WFMin`, about sets, where
the induction rules of the library are about predicates and cannot be used). The
remaining lemmas say that each kind of rollout item does the same to a history with
and without its snapshots; for a rollback that is a bijection between the user turns
of the two.

**`ApprovalsProofs`** (`ApprovalsAssumption`): `TypeOK`, `AnswersItsOwn`,
`AuditTruthful` and `LeftoversMissSession`. The invariant follows the right to
answer a request, which is in one place at a time (`PlaceInv`): with its event,
the invocation that registers it, the registry, or the resolver that took it.
Once it was used, or a denial was stored for it, it is nowhere (`DeadInv`), which
makes the audit true. That a decision with the id of the turn answers its own
request needs the order of the queue: before anything that ends the turn there
is at most one decision, for the request that waits (`QueueInv`), and as long as
that request can be answered there is none (`LiveInv`). A decision that went to a
resumed session leaves the queue of the emitting one as it is; an unattended
invocation registers nothing (`UnaskedInv`), so that dropping it leaves no request
in the registry.

**`CoordinatorProofs`** (`CoordinatorAssumption`): `TypeOK`, `AcceptedBound`,
`SessionBound` and `StartsInOrder`. The live actor of a session is the one that
is registered (`ActorInv`), so that the bound of an actor is that of its session;
permits and the tasks that count against them add up to the budgets
(`BudgetInv`); and what a session accepted is what it started followed by what
its actor holds and has queued (`OrderInv`), which survives the retirement of an
actor because that has neither. `CoordinatorImplementsContract` is the refinement
of `DispatchContract`. Its initial states are immediate; for each action there is a
lemma that says which step of the contract it is, or that it leaves `Stage` and
`Backlog` as they are. The guards of the contract are what has to be earned: that
there is room for an acceptance and for a start follows from `BudgetInv`, that the
task an actor starts is the oldest of its session, and that no other queue of the
session exists, from `ActorInv` and `OrderInv`.

**`NativeReplyProofs`** (`NativeReplyAssumption`): `TypeOK`, `LedgerValid`,
`AtMostOneSend`, `ReplyIsRetained`, `NoLiveInputIsStale`, `SettledTruthfully` and
the action property `RetainedNeverChanges`. Transactions whose caller was aborted
are the difficulty: `OrphanInv` says what was true when one was handed out and
stays true, since entries only grow. `ConsumerInv` says what the consumer may
rely on at each place, above all that where it is about to ask the model the
entry has its attempt and no request was made.

**`ReplyContractProofs`** (on top of `NativeReplyProofs`): that `NativeReply`
implements `ReplyContract`. `ReplyInv` is about single entries; the contract is about
the order of messages and about what may still happen to one that is settled, and
needs four more invariants (`ContractInvariant`): entries, late transactions and the
consumer's place belong to mentions that were taken (`MentionInv`); settled are
the messages up to the current one and no others (`SeenInv`); an output, also one
that a late transaction is about to retain, answers a request that was made
(`AskedInv`); and nothing was ever queued for a message that is settled without a
reply (`FinalInv`). The last is the delicate one: a message is settled as unknown
while a transaction that retains its output may be under way, and what rules a later
reply out is that only the consumer enqueues, for its current message, which is then
another one.

Only model-checked are the liveness properties (`TurnEnds`, `InterruptEndsTurn`,
`InterruptAnswered`, `ExitReported`, `FlushReturns`, `WaitEnds`,
`AcceptedStarts`, `UnknownSettles`): the prover handles neither fairness nor
ENABLED.

## 6. Plan

1. A composition in which `UnifiedExec` implements the `procs` of `TurnLifecycle`,
   and its refinement as a theorem.
2. Modules for the delivery outbox, the scheduler, the message queue, sub-agent
   guards and MCP startup; the head/tail buffer, exec policy and patch matching
   as operators against reference definitions.

## 7. Not modelled

Components that are not modelled are listed in `PROJECT.json` with the reason.
Most of the repository is rendering (TUI, web front end), clients of services
(channels, model and API clients), adapters between protocols, configuration and
data types, in which there is little to check but the text itself. Within reach
and left for later are:

* the delivery outbox beside the native reply ledger: `mark_retryable`
  (arkret_delivery.rs:1767) does not look whether the delivery was published, and
  checkpoints are resumed when a listener starts only;
* the scheduler: `on_timer` works on a snapshot of the jobs, and the rollback
  after a failing save enables a one-shot job again;
* cryptographic state (`crates/channels/src/arkret/crypto_state.rs`): MLS is
  outside what a small finite model can say.
