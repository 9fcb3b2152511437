-------------------------- MODULE TurnLifecycleProofs --------------------------
(***************************************************************************)
(* Proofs about TurnLifecycle, for every number of submissions, sampling   *)
(* rounds and queue capacity.                                              *)
(***************************************************************************)
EXTENDS TurnLifecycle, FiniteSetTheorems, TLAPS

(***************************************************************************)
(* Commands                                                                *)
(***************************************************************************)

\* What the fields of a command on the submission queue are.
LEMMA CommandFields ==
    \A c \in Commands :
        /\ c.id \in Turns
        /\ c.op = "ExecApproval" => c.turn \in Turns /\ c.decision \in Decisions
        /\ Content(c) \subseteq Turns
BY DEF Commands, Submissions, UserInputs, AuxCommands, Interrupts, TurnInterrupts,
       Approvals, Shutdowns, Content

\* The targeted interrupt a client sends is a command.
LEMMA TurnInterruptIsCommand ==
    \A t \in Turns : [op |-> "InterruptTurn", id |-> t] \in Commands
BY DEF Commands, TurnInterrupts

\* The command the coordinator receives is one, and the rest of the queue is as
\* long as the channel allows.
LEMMA ReceiveType ==
    ASSUME TypeOK, NEW op, Receive(op)
    PROVE  /\ Head(sq) \in Commands
           /\ cmd' \in Commands
           /\ cmd' = Head(sq)
           /\ Head(sq).op = op
           /\ sq' \in Seq(Commands)
           /\ Len(sq') <= SqCapacity
           /\ cpc = "recv"
           /\ UNCHANGED <<nextId, targeted>>
BY ConstantsAssumption DEF TypeOK, Receive

(***************************************************************************)
(* Type correctness                                                        *)
(***************************************************************************)
\* Initially every variable has its type.
LEMMA InitType == Init => TypeOK
BY ConstantsAssumption DEF Init, TypeOK, Turns, CoordPcs, TaskPcs, Statuses, Free

\* A client only appends commands, within the capacity of the channel.
LEMMA ClientType == TypeOK /\ Client => TypeOK'
<1> SUFFICES ASSUME TypeOK, Client PROVE TypeOK'
  OBVIOUS
<1>1. ASSUME NEW c \in Submissions, Submit(c) PROVE TypeOK'
  <2>1. c \in Commands
    BY DEF Commands
  <2> QED
    BY <1>1, <2>1, ConstantsAssumption
    DEF TypeOK, Submit, coordVars, taskVars, turnVars, stopVars, histVars, eventVars, ackVars
<1>2. ASSUME NEW t \in Turns, SubmitInterruptTurn(t) PROVE TypeOK'
  BY <1>2, TurnInterruptIsCommand, ConstantsAssumption
  DEF TypeOK, SubmitInterruptTurn, coordVars, taskVars, turnVars, stopVars, histVars,
      eventVars, ackVars
<1> QED
  BY <1>1, <1>2 DEF Client

\* The steps of the coordinator that take a command from the queue.
LEMMA RecvType ==
    ASSUME TypeOK,
           \/ RejectUserInput \/ InjectInput \/ StartRegular \/ StartAux \/ RecvInterrupt
           \/ NotifyApproval \/ RefuseInterruptTurn \/ InterruptTurn \/ RecvShutdown
    PROVE  TypeOK'
<1>1. CASE RejectUserInput
  BY <1>1, ReceiveType
  DEF TypeOK, RejectUserInput, CoordPcs, Statuses,
      sqVars, taskVars, turnVars, stopVars, histVars, ackVars
<1>2. CASE InjectInput
  BY <1>2, ReceiveType, CommandFields
  DEF TypeOK, InjectInput, taskVars, stopVars, eventVars, ackVars
<1>3. CASE StartRegular
  BY <1>3, ReceiveType, CommandFields
  DEF TypeOK, StartRegular, CoordPcs, taskVars, turnVars, stopVars, eventVars, ackVars
<1>4. CASE StartAux
  BY <1>4, ReceiveType
  DEF TypeOK, StartAux, CoordPcs, Statuses, taskVars, turnVars, stopVars, histVars, ackVars
<1>5. CASE RecvInterrupt
  BY <1>5, ReceiveType
  DEF TypeOK, RecvInterrupt, CoordPcs, taskVars, turnVars, stopVars, histVars, eventVars,
      ackVars
<1>6. CASE NotifyApproval
  <2>1. Head(sq).turn \in Turns /\ Head(sq).decision \in Decisions
    BY <1>6, ReceiveType, CommandFields DEF NotifyApproval
  <2> QED
    BY <1>6, <2>1, ReceiveType
    DEF TypeOK, NotifyApproval, taskVars, stopVars, histVars, eventVars, ackVars
<1>7. CASE RefuseInterruptTurn
  BY <1>7, ReceiveType, CommandFields
  DEF TypeOK, RefuseInterruptTurn, taskVars, turnVars, stopVars, histVars, eventVars
<1>8. CASE InterruptTurn
  BY <1>8, ReceiveType
  DEF TypeOK, InterruptTurn, TakeActiveTurn, CoordPcs, taskVars, stopVars, histVars,
      eventVars, ackVars
<1>9. CASE RecvShutdown
  BY <1>9, ReceiveType
  DEF TypeOK, RecvShutdown, CoordPcs, taskVars, turnVars, stopVars, histVars, eventVars,
      ackVars
<1> QED
  BY <1>1, <1>2, <1>3, <1>4, <1>5, <1>6, <1>7, <1>8, <1>9

\* The other steps of the coordinator.  The three that start a task need to know
\* that there is a command.
LEMMA CoordType ==
    ASSUME TypeOK, cpc # "recv" => cmd \in Commands,
           \/ InterruptTask \/ TakeAllRunningTasks \/ CancelTask \/ KillTask
           \/ EmitTurnAborted \/ CloseProcesses \/ ShutdownSession
           \/ SpawnTask \/ RegisterNewActiveTask \/ StartTask
    PROVE  TypeOK'
<1> USE DEF TypeOK, sqVars
<1>1. CASE InterruptTask
  BY <1>1 DEF InterruptTask, CoordPcs, taskVars, turnVars, stopVars, histVars, eventVars,
              ackVars
<1>2. CASE TakeAllRunningTasks
  BY <1>2 DEF TakeAllRunningTasks, TakeActiveTurn, CoordPcs, taskVars, stopVars, histVars,
              eventVars, ackVars
<1>3. CASE CancelTask
  BY <1>3 DEF CancelTask, CoordPcs, taskVars, turnVars, histVars, eventVars, ackVars
<1>4. CASE KillTask
  BY <1>4 DEF KillTask, CoordPcs, taskVars, turnVars, eventVars, ackVars
<1>5. CASE EmitTurnAborted
  <2>1. terminals' \in [Turns -> Seq(Terminals)]
    BY <1>5 DEF EmitTurnAborted, Terminals
  <2> QED
    BY <1>5, <2>1 DEF EmitTurnAborted, CoordPcs, Statuses, taskVars, turnVars, stopVars,
                      histVars, ackVars
<1>6. CASE CloseProcesses
  <2>1. cpc' \in CoordPcs
    BY <1>6 DEF CloseProcesses, CoordPcs
  <2> QED
    BY <1>6, <2>1, CommandFields
    DEF CloseProcesses, taskVars, turnVars, stopVars, histVars, eventVars
<1>7. CASE ShutdownSession
  BY <1>7 DEF ShutdownSession, CoordPcs, Statuses, taskVars, turnVars, stopVars, histVars,
              ackVars
<1>8. CASE SpawnTask
  BY <1>8, CommandFields
  DEF SpawnTask, CoordPcs, TaskPcs, turnVars, stopVars, histVars, eventVars, ackVars
<1>9. CASE RegisterNewActiveTask
  BY <1>9, CommandFields
  DEF RegisterNewActiveTask, CoordPcs, taskVars, stopVars, histVars, eventVars, ackVars
<1>10. CASE StartTask
  BY <1>10
  DEF StartTask, CoordPcs, TaskPcs, RunPcs, turnVars, stopVars, histVars, eventVars, ackVars
<1> QED
  BY <1>1, <1>2, <1>3, <1>4, <1>5, <1>6, <1>7, <1>8, <1>9, <1>10

\* The steps of a task.
LEMMA TaskType == ASSUME TypeOK, NEW t \in Turns, TaskStep(t) PROVE TypeOK'
<1> USE ConstantsAssumption
    DEF TypeOK, TaskFrame, Goto, TaskPcs, RunPcs, FinishPcs, sqVars, coordVars, stopVars, ackVars
<1>1. CASE BeginRegular(t)
  BY <1>1 DEF BeginRegular, Statuses, turnVars
<1>2. CASE BeginAux(t)
  BY <1>2 DEF BeginAux, Statuses, turnVars
<1>3. CASE RecordPrompt(t)
  BY <1>3 DEF RecordPrompt, turnVars, eventVars
<1>4. CASE GetPendingInput(t)
  BY <1>4 DEF GetPendingInput, eventVars
<1>5. CASE RecordPending(t)
  BY <1>5 DEF RecordPending, turnVars, eventVars
<1>6. CASE SampleToolCall(t)
  BY <1>6 DEF SampleToolCall, turnVars, eventVars
<1>7. CASE SampleCompleted(t)
  BY <1>7 DEF SampleCompleted, turnVars, eventVars
<1>8. CASE SampleError(t)
  BY <1>8 DEF SampleError, Statuses, turnVars
<1>9. CASE ObserveCancel(t)
  BY <1>9 DEF ObserveCancel, turnVars, eventVars
<1>10. CASE SkipApproval(t)
  BY <1>10 DEF SkipApproval, turnVars, eventVars
<1>11. CASE RequestCommandApproval(t)
  BY <1>11 DEF RequestCommandApproval, eventVars
<1>12. CASE ApprovalAnswered(t)
  BY <1>12 DEF ApprovalAnswered, turnVars, eventVars
<1>13. CASE ExecCommand(t)
  BY <1>13 DEF ExecCommand, turnVars, eventVars
<1>14. CASE AuxReturns(t)
  BY <1>14 DEF AuxReturns, turnVars, eventVars
<1>15. CASE FlushRollout(t)
  BY <1>15 DEF FlushRollout, turnVars, eventVars
<1>16. CASE OnTaskFinished(t)
  BY <1>16 DEF OnTaskFinished, eventVars
<1>17. CASE FinishClose(t)
  BY <1>17 DEF FinishClose, turnVars, eventVars
<1>18. CASE FinishUnlock(t)
  BY <1>18 DEF FinishUnlock, Free, eventVars
<1>19. CASE EmitTurnComplete(t)
  BY <1>19 DEF EmitTurnComplete, Statuses, Terminals, turnVars
<1>20. CASE NotifyDone(t)
  BY <1>20 DEF NotifyDone, turnVars, eventVars
<1>21. CASE Die(t)
  BY <1>21 DEF Die, Free, eventVars
<1> QED
  BY <1>1, <1>2, <1>3, <1>4, <1>5, <1>6, <1>7, <1>8, <1>9, <1>10, <1>11, <1>12, <1>13, <1>14, <1>15, <1>16, <1>17, <1>18, <1>19, <1>20, <1>21
  DEF TaskStep

(***************************************************************************)
(* The ownership invariant                                                 *)
(***************************************************************************)

\* How a task moves while it runs: it does not change who owns the turn, and it
\* leaves without completing only when the active turn does not own it.
RunStep(t) ==
    /\ pc[t] \in RunPcs
    /\ \/ pc'[t] \in RunPcs
       \/ pc'[t] = "notify" /\ t \notin active
    /\ pc' = [pc EXCEPT ![t] = pc'[t]]
    /\ procs' \subseteq procs \cup {t}
    /\ UNCHANGED <<active, lock, terminals>>

\* What no step of a task changes.
TaskKeeps == UNCHANGED <<nextId, sq, targeted, cpc, cmd, victims, cancelled, killed,
                         acked, nacked>>

\* No step of a task touches what only clients and the coordinator write.
LEMMA TaskStepKeeps == ASSUME NEW t \in Turns, TaskStep(t) PROVE TaskKeeps
BY DEF TaskStep, TaskKeeps, TaskFrame, sqVars, coordVars, stopVars, ackVars,
       BeginRegular, BeginAux, RecordPrompt, GetPendingInput, RecordPending,
       SampleToolCall, SampleCompleted, SampleError, ObserveCancel, SkipApproval,
       RequestCommandApproval, ApprovalAnswered, ExecCommand, AuxReturns, FlushRollout,
       OnTaskFinished, FinishClose, FinishUnlock, EmitTurnComplete, NotifyDone, Die

\* Most steps of a task are such moves.
LEMMA RunSteps ==
    ASSUME TypeOK, NEW t \in Turns, TurnInv(t),
           \/ BeginRegular(t) \/ BeginAux(t) \/ RecordPrompt(t) \/ GetPendingInput(t)
           \/ RecordPending(t) \/ SampleToolCall(t) \/ SampleCompleted(t) \/ SampleError(t)
           \/ ObserveCancel(t) \/ SkipApproval(t) \/ RequestCommandApproval(t)
           \/ ApprovalAnswered(t) \/ ExecCommand(t) \/ AuxReturns(t) \/ FlushRollout(t)
           \/ OnTaskFinished(t) /\ t \notin active
    PROVE  RunStep(t)
<1> USE DEF RunStep, Goto, RunPcs, turnVars, eventVars
<1>0. pc \in [Turns -> TaskPcs]
  BY DEF TypeOK
<1>1. CASE BeginRegular(t)
  BY <1>0, <1>1 DEF BeginRegular
<1>2. CASE BeginAux(t)
  BY <1>0, <1>2 DEF BeginAux
<1>3. CASE RecordPrompt(t)
  BY <1>0, <1>3 DEF RecordPrompt
<1>4. CASE GetPendingInput(t)
  BY <1>0, <1>4 DEF GetPendingInput
<1>5. CASE RecordPending(t)
  BY <1>0, <1>5 DEF RecordPending
<1>6. CASE SampleToolCall(t)
  BY <1>0, <1>6 DEF SampleToolCall
<1>7. CASE SampleCompleted(t)
  BY <1>0, <1>7 DEF SampleCompleted
<1>8. CASE SampleError(t)
  BY <1>0, <1>8 DEF SampleError
<1>9. CASE ObserveCancel(t)
  BY <1>0, <1>9 DEF ObserveCancel
<1>10. CASE SkipApproval(t)
  BY <1>0, <1>10 DEF SkipApproval
<1>11. CASE RequestCommandApproval(t)
  BY <1>0, <1>11 DEF RequestCommandApproval
<1>12. CASE ApprovalAnswered(t)
  BY <1>0, <1>12 DEF ApprovalAnswered
<1>13. CASE ExecCommand(t)
  BY <1>0, <1>13 DEF ExecCommand
<1>14. CASE AuxReturns(t)
  BY <1>0, <1>14 DEF AuxReturns
<1>15. CASE FlushRollout(t)
  BY <1>0, <1>15 DEF FlushRollout, TurnInv
<1>16. CASE OnTaskFinished(t) /\ t \notin active
  BY <1>0, <1>16 DEF OnTaskFinished
<1> QED
  BY <1>1, <1>2, <1>3, <1>4, <1>5, <1>6, <1>7, <1>8, <1>9, <1>10, <1>11, <1>12, <1>13, <1>14, <1>15, <1>16

\* A task that moves between two positions after its start leaves the queue
\* invariant alone.
LEMMA TaskQueue ==
    ASSUME TypeOK, QueueInv, TaskKeeps, NEW t \in Turns,
           pc[t] # "absent", pc' = [pc EXCEPT ![t] = pc'[t]]
    PROVE  QueueInv'
<1>1. \A u \in Turns : Fresh(u) => Fresh(u)'
  BY DEF Fresh, TypeOK, TaskKeeps
<1>2. \A i \in 1..Len(sq) : sq[i].id \in Turns
  BY CommandFields DEF TypeOK
<1>3. Starting' <=> Starting
  BY DEF Starting, StartCommand, TaskKeeps
<1>4. Starting => cmd.id \in Turns
  BY CommandFields DEF Starting, StartCommand, TypeOK, NoCommand
<1> QED
  BY <1>1, <1>2, <1>3, <1>4 DEF QueueInv, TaskKeeps

\* Every step of a task keeps the ownership invariant.
LEMMA TaskOwnership ==
    ASSUME OwnershipInv, NEW t \in Turns, TaskStep(t)
    PROVE  OwnershipInv'
<1> DEFINE Moved == pc' = [pc EXCEPT ![t] = pc'[t]]
<1>1. TypeOK /\ QueueInv /\ CoordInv /\ TaskKeeps /\ TypeOK'
  BY TaskStepKeeps, TaskType DEF OwnershipInv
<1>2. \A u \in Turns : TurnInv(u)
  BY DEF OwnershipInv
<1>3. pc \in [Turns -> TaskPcs] /\ terminals \in [Turns -> Seq(Terminals)]
  BY <1>1 DEF TypeOK
<1>4. SUFFICES pc[t] \notin {"absent", "ready"} /\ Moved /\ CoordInv'
               /\ \A u \in Turns : TurnInv(u)'
  BY <1>1, TaskQueue DEF OwnershipInv
<1> USE DEF TaskKeeps
<1>5. CASE RunStep(t)
  <2>1. pc[t] \notin {"absent", "ready"} /\ Moved
    BY <1>5 DEF RunStep, RunPcs
  <2>2. CoordInv'
    <3>1. cpc \in {"register", "start"} => cmd.id \in Turns \ {t}
      BY <1>1, <2>1, CommandFields DEF CoordInv
    <3>2. cpc \in {"register", "start"} => pc'[cmd.id] = pc[cmd.id]
      BY <1>3, <2>1, <3>1
    <3>3. UNCHANGED <<active, lock, terminals>>
      BY <1>5 DEF RunStep
    <3> QED
      BY <1>1, <3>2, <3>3 DEF CoordInv, StartCommand
  <2>3. ASSUME NEW u \in Turns PROVE TurnInv(u)'
    <3>1. CASE u = t
      BY <1>1, <1>2, <1>3, <1>5, <3>1 DEF TurnInv, RunStep, RunPcs, FinishPcs
    <3>2. CASE u # t
      BY <1>1, <1>2, <1>3, <1>5, <3>2 DEF TurnInv, RunStep
    <3> QED
      BY <3>1, <3>2
  <2> QED
    BY <2>1, <2>2, <2>3
<1>6. CASE OnTaskFinished(t) /\ t \in active
  <2>1. pc[t] = "finish" /\ pc' = [pc EXCEPT ![t] = "close"] /\ lock = Free /\ lock' = t
        /\ active = {t} /\ active' = {} /\ UNCHANGED <<procs, terminals>>
    BY <1>1, <1>6 DEF OnTaskFinished, Goto, CoordInv, eventVars
  <2>2. pc[t] \notin {"absent", "ready"} /\ Moved
    BY <1>3, <2>1
  <2>3. CoordInv'
    BY <1>1, <1>2, <1>3, <2>1 DEF CoordInv, StartCommand
  <2>4. ASSUME NEW u \in Turns PROVE TurnInv(u)'
    <3>1. CASE u = t
      BY <1>1, <1>2, <1>3, <2>1, <3>1 DEF TurnInv, CoordInv, RunPcs, FinishPcs
    <3>2. CASE u # t
      BY <1>1, <1>2, <1>3, <2>1, <3>2 DEF TurnInv, Free, Turns
    <3> QED
      BY <3>1, <3>2
  <2> QED
    BY <2>2, <2>3, <2>4
<1>7. CASE FinishClose(t)
  <2>1. pc[t] = "close" /\ pc' = [pc EXCEPT ![t] = "unlock"] /\ procs' = {}
        /\ UNCHANGED <<active, lock, terminals>>
    BY <1>7 DEF FinishClose, Goto, turnVars, eventVars
  <2>2. pc[t] \notin {"absent", "ready"} /\ Moved
    BY <1>3, <2>1
  <2>3. CoordInv'
    BY <1>1, <1>3, <2>1 DEF CoordInv, StartCommand
  <2>4. ASSUME NEW u \in Turns PROVE TurnInv(u)'
    BY <1>1, <1>2, <1>3, <2>1 DEF TurnInv, RunPcs, FinishPcs
  <2> QED
    BY <2>2, <2>3, <2>4
<1>8. CASE FinishUnlock(t)
  <2>1. pc[t] = "unlock" /\ pc' = [pc EXCEPT ![t] = "emit"] /\ lock' = Free
        /\ UNCHANGED <<active, procs, terminals>>
    BY <1>8 DEF FinishUnlock, Goto, eventVars
  <2>2. pc[t] \notin {"absent", "ready"} /\ Moved
    BY <1>3, <2>1
  <2>3. CoordInv'
    BY <1>1, <1>3, <2>1 DEF CoordInv, StartCommand
  <2>4. ASSUME NEW u \in Turns PROVE TurnInv(u)'
    BY <1>1, <1>2, <1>3, <2>1 DEF TurnInv, RunPcs, FinishPcs, Free, Turns
  <2> QED
    BY <2>2, <2>3, <2>4
<1>9. CASE EmitTurnComplete(t)
  <2>1. pc[t] = "emit" /\ pc' = [pc EXCEPT ![t] = "notify"] /\ terminals[t] = <<>>
        /\ UNCHANGED <<active, lock, procs>>
    BY <1>2, <1>9 DEF EmitTurnComplete, Goto, turnVars, TurnInv, FinishPcs
  <2>2. terminals' = [terminals EXCEPT ![t] = <<"complete">>]
    BY <1>3, <1>9, <2>1 DEF EmitTurnComplete
  <2>3. pc[t] \notin {"absent", "ready"} /\ Moved
    BY <1>3, <2>1
  <2>4. CoordInv'
    <3>1. cmd.op = "InterruptTurn" /\ cpc = "close" => cmd.id # t
      BY <1>1, <2>1 DEF CoordInv
    <3> QED
      BY <1>1, <1>3, <2>1, <2>2, <3>1 DEF CoordInv, StartCommand
  <2>5. ASSUME NEW u \in Turns PROVE TurnInv(u)'
    <3>1. CASE u = t
      BY <1>1, <1>2, <1>3, <2>1, <2>2, <3>1 DEF TurnInv, RunPcs, FinishPcs
    <3>2. CASE u # t
      BY <1>1, <1>2, <1>3, <2>1, <2>2, <3>2 DEF TurnInv
    <3> QED
      BY <3>1, <3>2
  <2> QED
    BY <2>3, <2>4, <2>5
<1>10. CASE NotifyDone(t)
  <2>1. pc[t] = "notify" /\ pc' = [pc EXCEPT ![t] = "done"]
        /\ UNCHANGED <<active, lock, procs, terminals>>
    BY <1>10 DEF NotifyDone, Goto, turnVars, eventVars
  <2>2. pc[t] \notin {"absent", "ready"} /\ Moved
    BY <1>3, <2>1
  <2>3. CoordInv'
    BY <1>1, <1>3, <2>1 DEF CoordInv, StartCommand
  <2>4. ASSUME NEW u \in Turns PROVE TurnInv(u)'
    BY <1>1, <1>2, <1>3, <2>1 DEF TurnInv, RunPcs, FinishPcs
  <2> QED
    BY <2>2, <2>3, <2>4
<1>11. CASE Die(t)
  <2>1. t \in killed /\ pc[t] \notin {"absent", "done", "dead"}
        /\ pc' = [pc EXCEPT ![t] = "dead"] /\ UNCHANGED <<active, procs, terminals>>
    BY <1>11 DEF Die, eventVars
  <2>2. t \notin active /\ pc[t] \notin FinishPcs \cup {"ready"} /\ lock # t /\ lock' = lock
    BY <1>2, <1>11, <2>1 DEF Die, TurnInv, FinishPcs
  <2>3. pc[t] \notin {"absent", "ready"} /\ Moved
    BY <1>3, <2>1, <2>2
  <2>4. CoordInv'
    BY <1>1, <1>3, <2>1, <2>2 DEF CoordInv, StartCommand
  <2>5. ASSUME NEW u \in Turns PROVE TurnInv(u)'
    BY <1>1, <1>2, <1>3, <2>1, <2>2 DEF TurnInv, RunPcs, FinishPcs
  <2> QED
    BY <2>3, <2>4, <2>5
<1> QED
  BY <1>1, <1>2, <1>5, <1>6, <1>7, <1>8, <1>9, <1>10, <1>11, RunSteps DEF TaskStep

\* A client's submission goes behind everything that is queued.
LEMMA ClientOwnership == ASSUME OwnershipInv, Client PROVE OwnershipInv'
<1> DEFINE Others == UNCHANGED <<cpc, cmd, victims, pc, active, lock, cancelled, killed,
                                 procs, terminals, acked, nacked>>
<1>1. TypeOK /\ QueueInv /\ CoordInv /\ TypeOK'
  BY ClientType DEF OwnershipInv
<1>2. SUFFICES ASSUME Others, nextId' \in Nat, nextId' >= nextId, QueueInv' PROVE OwnershipInv'
  <2>1. ASSUME NEW c \in Submissions, Submit(c)
        PROVE  Others /\ nextId' \in Nat /\ nextId' >= nextId /\ QueueInv'
    <3>1. Others /\ nextId' = nextId + 1 /\ nextId \in Turns /\ c.id = nextId
          /\ sq' = Append(sq, c) /\ sq \in Seq(Commands) /\ c \in Commands
      BY <1>1, <2>1, ConstantsAssumption
      DEF Submit, coordVars, taskVars, turnVars, stopVars, eventVars, ackVars, TypeOK, Turns,
          Commands
    <3>2. Len(sq') = Len(sq) + 1 /\ sq'[Len(sq) + 1] = c
          /\ \A i \in 1..Len(sq) : sq'[i] = sq[i]
      BY <3>1
    <3>3. \A t \in Turns : Fresh(t)' <=> Fresh(t)
      BY <3>1 DEF Fresh
    <3>4. \A i \in 1..Len(sq) : sq[i].id \in Turns
      BY <3>1, CommandFields
    <3>5. Starting' <=> Starting
      BY <3>1 DEF Starting, StartCommand
    <3>6. Starting => cmd.id \in Turns
      BY <1>1, CommandFields DEF Starting, CoordInv
    <3>7. nextId \in Nat /\ Turns \subseteq Nat /\ Len(sq) \in Nat
      BY <3>1 DEF Turns
    <3>8. UNCHANGED <<pc, nacked, cmd>> /\ nextId' = nextId + 1 /\ c.id = nextId
      BY <3>1
    <3> DEFINE Old(i) == i \in 1..Len(sq) /\ sq'[i] = sq[i]
    <3>9. \A i \in 1..Len(sq') : Old(i) \/ (i = Len(sq) + 1 /\ sq'[i] = c)
      <4> SUFFICES ASSUME NEW i \in 1..Len(sq')
                   PROVE  Old(i) \/ (i = Len(sq) + 1 /\ sq'[i] = c)
        OBVIOUS
      <4>1. i \in 1..(Len(sq) + 1)
        BY <3>2
      <4>2. i \in 1..Len(sq) \/ i = Len(sq) + 1
        BY <3>7, <4>1
      <4> QED
        BY <3>2, <4>2
    <3>10. (\A i \in 1..Len(sq) : /\ sq[i].id < nextId
                                  /\ sq[i].op # "InterruptTurn" => Fresh(sq[i].id))'
      <4> SUFFICES ASSUME NEW i \in 1..Len(sq')
                   PROVE  /\ sq'[i].id < nextId'
                          /\ sq'[i].op # "InterruptTurn" =>
                                pc'[sq'[i].id] = "absent" /\ sq'[i].id \notin nacked'
        BY DEF Fresh
      <4>1. CASE sq'[i] = c
        <5>1. Fresh(nextId)
          BY <1>1, <3>1, <3>7 DEF QueueInv
        <5> QED
          BY <3>7, <3>8, <4>1, <5>1 DEF Fresh
      <4>2. CASE Old(i)
        <5>1. sq[i].id < nextId /\ (sq[i].op # "InterruptTurn" => Fresh(sq[i].id))
          BY <1>1, <4>2 DEF QueueInv
        <5>2. sq[i].id \in Nat
          BY <3>4, <3>7, <4>2
        <5> QED
          BY <3>7, <3>8, <4>2, <5>1, <5>2 DEF Fresh
      <4> QED
        BY <3>9, <4>1, <4>2
    <3>11. (\A i, j \in 1..Len(sq) :
              i < j /\ sq[j].op # "InterruptTurn" => sq[i].id # sq[j].id)'
      <4> SUFFICES ASSUME NEW i \in 1..Len(sq'), NEW j \in 1..Len(sq'), i < j,
                          sq'[j].op # "InterruptTurn"
                   PROVE  sq'[i].id # sq'[j].id
        OBVIOUS
      <4>1. Old(i)
        BY <3>2, <3>7, <3>9
      <4>2. CASE Old(j)
        BY <1>1, <4>1, <4>2 DEF QueueInv
      <4>3. CASE sq'[j] = c
        <5>1. sq[i].id < nextId /\ sq[i].id \in Nat
          BY <1>1, <3>4, <3>7, <4>1 DEF QueueInv
        <5> QED
          BY <3>7, <3>8, <4>1, <4>3, <5>1
      <4> QED
        BY <3>9, <4>2, <4>3
    <3>12. (\A t \in Turns : t >= nextId => Fresh(t))'
      BY <1>1, <3>1, <3>3, <3>7 DEF QueueInv
    <3>13. (Starting => /\ Fresh(cmd.id) /\ cmd.id < nextId
                        /\ \A i \in 1..Len(sq) : sq[i].op # "InterruptTurn" => sq[i].id # cmd.id)'
      <4> SUFFICES ASSUME Starting
                   PROVE  /\ pc'[cmd.id] = "absent" /\ cmd.id \notin nacked'
                          /\ cmd.id < nextId'
                          /\ \A i \in 1..Len(sq') :
                                sq'[i].op # "InterruptTurn" => sq'[i].id # cmd.id
        BY <3>5, <3>8 DEF Fresh
      <4>1. Fresh(cmd.id) /\ cmd.id < nextId /\ cmd.id \in Nat
            /\ \A i \in 1..Len(sq) : sq[i].op # "InterruptTurn" => sq[i].id # cmd.id
        BY <1>1, <3>6, <3>7 DEF QueueInv
      <4> QED
        BY <3>7, <3>8, <3>9, <4>1 DEF Fresh
    <3> QED
      BY <3>1, <3>7, <3>10, <3>11, <3>12, <3>13 DEF QueueInv
  <2>2. ASSUME NEW t \in Turns, SubmitInterruptTurn(t)
        PROVE  Others /\ nextId' \in Nat /\ nextId' >= nextId /\ QueueInv'
    <3> DEFINE c == [op |-> "InterruptTurn", id |-> t]
    <3>1. Others /\ nextId' = nextId /\ nextId \in Nat /\ t < nextId
          /\ sq' = Append(sq, c) /\ sq \in Seq(Commands) /\ c \in Commands
      BY <1>1, <2>2, TurnInterruptIsCommand
      DEF SubmitInterruptTurn, coordVars, taskVars, turnVars, stopVars, eventVars, ackVars, TypeOK
    <3>2. Len(sq') = Len(sq) + 1 /\ sq'[Len(sq) + 1] = c
          /\ \A i \in 1..Len(sq) : sq'[i] = sq[i]
      BY <3>1
    <3>3. \A u : Fresh(u)' <=> Fresh(u)
      BY <3>1 DEF Fresh
    <3>4. (Starting' <=> Starting) /\ Len(sq) \in Nat
      BY <3>1 DEF Starting, StartCommand
    <3>5. c.op = "InterruptTurn" /\ c.id = t
      OBVIOUS
    <3> QED
      BY <1>1, <3>1, <3>2, <3>3, <3>4, <3>5 DEF QueueInv
  <2> QED
    BY <2>1, <2>2 DEF Client
<1>3. CoordInv'
  BY <1>1, <1>2 DEF CoordInv, StartCommand
<1>4. ASSUME NEW u \in Turns PROVE TurnInv(u)'
  <2>1. nextId \in Nat /\ u \in Nat
    BY <1>1 DEF TypeOK, Turns
  <2> QED
    BY <1>2, <2>1 DEF OwnershipInv, TurnInv
<1> QED
  BY <1>1, <1>2, <1>3, <1>4 DEF OwnershipInv

\* Taking the first command leaves a queue in which nothing else names the turn
\* that a submission would start, and no later submission names a turn that a
\* targeted interrupt asked for.
LEMMA ReceiveQueue ==
    ASSUME TypeOK, QueueInv, NEW op, Receive(op), UNCHANGED pc,
           \/ UNCHANGED nacked
           \/ cpc' = "recv" /\ nacked' = nacked \cup {Head(sq).id}
    PROVE  QueueInv'
<1>1. Head(sq) \in Commands /\ cmd' = Head(sq) /\ Head(sq).op = op /\ nextId' = nextId
      /\ sq' = Tail(sq) /\ sq # <<>> /\ sq \in Seq(Commands)
  BY ReceiveType DEF Receive, TypeOK
<1>2. Head(sq) = sq[1] /\ 1 \in 1..Len(sq) /\ Len(sq) \in Nat /\ Len(sq') = Len(sq) - 1
      /\ \A i \in 1..Len(sq') : sq'[i] = sq[i + 1]
  BY <1>1
<1>3. \A i \in 1..Len(sq') : i + 1 \in 1..Len(sq) /\ 1 < i + 1
  BY <1>2
<1>4. \A i, j \in 1..Len(sq') : i < j => i + 1 < j + 1
  BY <1>2
<1>5. \A i \in 1..Len(sq) : sq[i].id \in Nat
  BY <1>1, CommandFields DEF Turns
<1>6. Head(sq).id \in Nat /\ Head(sq).id < nextId /\ nextId \in Nat /\ Turns \subseteq Nat
  BY <1>1, <1>2, <1>5 DEF QueueInv, TypeOK, Turns
<1> DEFINE Rest(i) ==
      /\ sq'[i].id < nextId
      /\ sq'[i].op # "InterruptTurn" => Fresh(sq'[i].id) /\ sq'[i].id # Head(sq).id
<1>7. \A i \in 1..Len(sq') : Rest(i)
  BY <1>2, <1>3 DEF QueueInv
<1>8. (\A i \in 1..Len(sq) : /\ sq[i].id < nextId
                             /\ sq[i].op # "InterruptTurn" => Fresh(sq[i].id))'
  <2> SUFFICES ASSUME NEW i \in 1..Len(sq')
               PROVE  /\ sq'[i].id < nextId'
                      /\ sq'[i].op # "InterruptTurn" =>
                            pc'[sq'[i].id] = "absent" /\ sq'[i].id \notin nacked'
    BY DEF Fresh
  <2>1. Rest(i)
    BY <1>7
  <2> QED
    BY <1>1, <2>1 DEF Fresh
<1>9. (\A i, j \in 1..Len(sq) :
         i < j /\ sq[j].op # "InterruptTurn" => sq[i].id # sq[j].id)'
  BY <1>2, <1>3, <1>4 DEF QueueInv
<1>10. (\A t \in Turns : t >= nextId => Fresh(t))'
  <2> SUFFICES ASSUME NEW t \in Turns, t >= nextId
               PROVE  pc'[t] = "absent" /\ t \notin nacked'
    BY <1>1 DEF Fresh
  <2>1. Fresh(t)
    BY DEF QueueInv
  <2>2. t # Head(sq).id
    BY <1>6
  <2> QED
    BY <2>1, <2>2 DEF Fresh
<1>11. (Starting => /\ Fresh(cmd.id) /\ cmd.id < nextId
                    /\ \A i \in 1..Len(sq) : sq[i].op # "InterruptTurn" => sq[i].id # cmd.id)'
  <2> SUFFICES ASSUME Starting'
               PROVE  /\ pc'[cmd'.id] = "absent" /\ cmd'.id \notin nacked'
                      /\ cmd'.id < nextId'
                      /\ \A i \in 1..Len(sq') :
                            sq'[i].op # "InterruptTurn" => sq'[i].id # cmd'.id
    BY DEF Fresh
  <2>1. cpc' # "recv" /\ Head(sq).op # "InterruptTurn"
    BY <1>1 DEF Starting, StartCommand
  <2>2. Fresh(Head(sq).id)
    BY <1>2, <2>1 DEF QueueInv
  <2> QED
    BY <1>1, <1>6, <1>7, <2>1, <2>2 DEF Fresh
<1> QED
  BY <1>8, <1>9, <1>10, <1>11 DEF QueueInv

\* A step that only takes a command and changes nothing of any turn.
LEMMA ReceiveOnly ==
    ASSUME OwnershipInv, TypeOK', NEW op, Receive(op),
           UNCHANGED <<victims, pc, active, lock, cancelled, killed, procs, terminals, acked>>,
           \/ cpc' = "recv" /\ nacked' = nacked
           \/ cpc' = "recv" /\ nacked' = nacked \cup {Head(sq).id} /\ Head(sq).id \notin active
           \/ cpc' = "take" /\ nacked' = nacked /\ op # "InterruptTurn"
           \/ cpc' = "interrupt" /\ nacked' = nacked /\ op \in {"Interrupt", "ExecApproval"}
    PROVE  OwnershipInv'
<1>1. TypeOK /\ QueueInv /\ CoordInv /\ \A u \in Turns : TurnInv(u)
  BY DEF OwnershipInv
<1>2. cpc = "recv" /\ cmd' \in Commands /\ cmd' = Head(sq) /\ Head(sq).op = op
      /\ nextId' = nextId
  BY <1>1, ReceiveType
<1>3. QueueInv'
  BY <1>1, <1>2, ReceiveQueue
<1>4. CoordInv'
  BY <1>1, <1>2 DEF CoordInv, StartCommand
<1>5. Head(sq).id < nextId
  <2>1. sq \in Seq(Commands) /\ sq # <<>>
    BY <1>1 DEF TypeOK, Receive
  <2>2. Head(sq) = sq[1] /\ 1 \in 1..Len(sq)
    BY <2>1
  <2> QED
    BY <1>1, <2>2 DEF QueueInv
<1>6. ASSUME NEW u \in Turns PROVE TurnInv(u)'
  BY <1>1, <1>2, <1>5 DEF TurnInv
<1> QED
  BY <1>3, <1>4, <1>6 DEF OwnershipInv

\* The steps of the coordinator that take a command keep the invariant.
LEMMA RecvOwnership ==
    ASSUME OwnershipInv,
           \/ RejectUserInput \/ InjectInput \/ StartRegular \/ StartAux \/ RecvInterrupt
           \/ NotifyApproval \/ RefuseInterruptTurn \/ InterruptTurn \/ RecvShutdown
    PROVE  OwnershipInv'
<1>1. TypeOK /\ QueueInv /\ CoordInv /\ TypeOK' /\ \A u \in Turns : TurnInv(u)
  BY RecvType DEF OwnershipInv
<1>2. ASSUME NEW op, Receive(op) PROVE cpc = "recv"
  BY <1>2 DEF Receive
<1> USE DEF taskVars, turnVars, stopVars, eventVars, ackVars
<1>3. CASE RejectUserInput
  BY <1>1, <1>2, <1>3, ReceiveOnly DEF RejectUserInput
<1>4. CASE InjectInput
  BY <1>1, <1>2, <1>4, ReceiveOnly DEF InjectInput
<1>5. CASE StartRegular
  BY <1>1, <1>5, ReceiveOnly DEF StartRegular
<1>6. CASE StartAux
  BY <1>1, <1>2, <1>6, ReceiveOnly DEF StartAux
<1>7. CASE RecvInterrupt
  BY <1>1, <1>7, ReceiveOnly DEF RecvInterrupt
<1>8. CASE NotifyApproval
  BY <1>1, <1>2, <1>8, ReceiveOnly DEF NotifyApproval
<1>9. CASE RefuseInterruptTurn
  BY <1>1, <1>2, <1>9, ReceiveOnly DEF RefuseInterruptTurn
<1>10. CASE RecvShutdown
  BY <1>1, <1>10, ReceiveOnly DEF RecvShutdown
<1>11. CASE InterruptTurn
  <2>1. cpc = "recv" /\ cpc' = "cancel" /\ cmd' \in Commands /\ cmd' = Head(sq)
        /\ cmd'.op = "InterruptTurn" /\ cmd'.id \in active /\ nextId' = nextId
    BY <1>1, <1>11, ReceiveType DEF InterruptTurn
  <2>2. lock = Free /\ victims' = active /\ active' = {} /\ lock' = lock
        /\ UNCHANGED <<pc, cancelled, killed, procs, terminals, acked, nacked>>
    BY <1>11 DEF InterruptTurn, TakeActiveTurn
  <2>3. QueueInv'
    BY <1>1, <1>11, <2>2, ReceiveQueue DEF InterruptTurn
  <2>4. active = {cmd'.id} /\ victims = {}
    BY <1>1, <2>1 DEF CoordInv
  <2>5. \A u \in Turns : pc[u] # "ready"
    BY <1>1, <2>1 DEF TurnInv
  <2>6. active \cap cancelled = {}
    BY <1>1 DEF TurnInv, TypeOK
  <2>7. CoordInv'
    BY <1>1, <2>1, <2>2, <2>4, <2>6 DEF CoordInv, StartCommand
  <2>8. ASSUME NEW u \in Turns PROVE TurnInv(u)'
    BY <1>1, <2>1, <2>2, <2>4, <2>5 DEF TurnInv
  <2> QED
    BY <1>1, <2>3, <2>7, <2>8 DEF OwnershipInv
<1> QED
  BY <1>3, <1>4, <1>5, <1>6, <1>7, <1>8, <1>9, <1>10, <1>11

\* A step of the coordinator that takes no command, spawns no task and answers
\* nobody leaves the queue invariant alone.
LEMMA CoordQueue ==
    ASSUME QueueInv, UNCHANGED <<nextId, sq, cmd, pc, nacked>>,
           Starting' => Starting
    PROVE  QueueInv'
BY DEF QueueInv, Fresh

\* The other steps of the coordinator keep the invariant.
LEMMA CoordOwnership ==
    ASSUME OwnershipInv,
           \/ InterruptTask \/ TakeAllRunningTasks \/ CancelTask \/ KillTask
           \/ EmitTurnAborted \/ CloseProcesses \/ ShutdownSession
           \/ SpawnTask \/ RegisterNewActiveTask \/ StartTask
    PROVE  OwnershipInv'
<1>1. TypeOK /\ QueueInv /\ CoordInv /\ TypeOK' /\ \A u \in Turns : TurnInv(u)
  BY CoordType DEF OwnershipInv, CoordInv
<1>2. pc \in [Turns -> TaskPcs] /\ terminals \in [Turns -> Seq(Terminals)]
  BY <1>1 DEF TypeOK
<1>3. cpc # "recv" => cmd.id \in Turns
  BY <1>1, CommandFields DEF CoordInv
<1> USE DEF sqVars, taskVars, turnVars, stopVars, eventVars, ackVars
<1>4. CASE InterruptTask
  <2>1. QueueInv'
    BY <1>1, <1>4, CoordQueue DEF InterruptTask, Starting, StartCommand, CoordInv
  <2>2. CoordInv'
    BY <1>1, <1>4 DEF InterruptTask, CoordInv, StartCommand
  <2>3. ASSUME NEW u \in Turns PROVE TurnInv(u)'
    BY <1>1, <1>4 DEF InterruptTask, TurnInv
  <2> QED
    BY <1>1, <2>1, <2>2, <2>3 DEF OwnershipInv
<1>5. CASE TakeAllRunningTasks
  <2>1. cpc = "take" /\ cpc' = (IF active = {} THEN "close" ELSE "cancel")
        /\ lock = Free /\ victims' = active /\ active' = {} /\ lock' = lock
        /\ UNCHANGED <<nextId, sq, cmd, pc, cancelled, killed, procs, terminals, acked, nacked>>
    BY <1>5 DEF TakeAllRunningTasks, TakeActiveTurn
  <2>2. QueueInv'
    BY <1>1, <2>1, CoordQueue DEF Starting, StartCommand
  <2>3. \A u \in Turns : pc[u] # "ready"
    BY <1>1, <2>1 DEF TurnInv
  <2>4. active \cap cancelled = {}
    BY <1>1 DEF TurnInv, TypeOK
  <2>5. CoordInv'
    BY <1>1, <2>1, <2>4 DEF CoordInv, StartCommand
  <2>6. ASSUME NEW u \in Turns PROVE TurnInv(u)'
    BY <1>1, <2>1, <2>3 DEF TurnInv, CoordInv
  <2> QED
    BY <1>1, <2>2, <2>5, <2>6 DEF OwnershipInv
<1>6. CASE CancelTask
  <2>1. cpc = "cancel" /\ ~(victims \subseteq cancelled)
    BY <1>1, <1>6 DEF CancelTask, CoordInv
  <2>2. cpc' = "wait" /\ cancelled' = cancelled \cup victims
        /\ UNCHANGED <<nextId, sq, cmd, victims, pc, active, lock, killed, procs, terminals,
                       acked, nacked>>
    BY <1>6, <2>1 DEF CancelTask
  <2>3. QueueInv'
    BY <1>1, <2>1, <2>2, CoordQueue DEF Starting, StartCommand
  <2>4. CoordInv'
    BY <1>1, <2>1, <2>2 DEF CoordInv, StartCommand
  <2>5. ASSUME NEW u \in Turns PROVE TurnInv(u)'
    BY <1>1, <2>1, <2>2 DEF TurnInv, CoordInv, FinishPcs, RunPcs
  <2> QED
    BY <1>1, <2>3, <2>4, <2>5 DEF OwnershipInv
<1>7. CASE KillTask
  <2>1. cpc = "wait" /\ cpc' = "emit" /\ killed' = killed \cup victims
        /\ UNCHANGED <<nextId, sq, cmd, victims, pc, active, lock, cancelled, procs, terminals,
                       acked, nacked>>
    BY <1>7 DEF KillTask
  <2>2. QueueInv'
    BY <1>1, <2>1, CoordQueue DEF Starting, StartCommand
  <2>3. CoordInv'
    BY <1>1, <2>1 DEF CoordInv, StartCommand
  <2>4. ASSUME NEW u \in Turns PROVE TurnInv(u)'
    BY <1>1, <2>1 DEF TurnInv, CoordInv, FinishPcs, RunPcs
  <2> QED
    BY <1>1, <2>2, <2>3, <2>4 DEF OwnershipInv
<1>8. CASE EmitTurnAborted
  <2>1. cpc = "emit" /\ cpc' = "close" /\ victims' = {}
        /\ UNCHANGED <<nextId, sq, cmd, pc, active, lock, cancelled, killed, procs, acked, nacked>>
    BY <1>8 DEF EmitTurnAborted
  <2>2. \A u \in Turns : terminals'[u] = IF u \in victims THEN <<"aborted">> ELSE terminals[u]
    <3>1. \A u \in victims : terminals[u] = <<>> /\ u \in Turns
      BY <1>1 DEF TurnInv, TypeOK
    <3>2. Append(<<>>, "aborted") = <<"aborted">>
      OBVIOUS
    <3>3. \A u \in Turns : terminals'[u] = IF u \in victims THEN Append(terminals[u], "aborted")
                                          ELSE terminals[u]
      BY <1>8 DEF EmitTurnAborted
    <3> QED
      BY <3>1, <3>2, <3>3
  <2>3. QueueInv'
    BY <1>1, <2>1, CoordQueue DEF Starting, StartCommand
  <2>4. CoordInv'
    BY <1>1, <1>3, <2>1, <2>2 DEF CoordInv, StartCommand
  <2>5. ASSUME NEW u \in Turns PROVE TurnInv(u)'
    <3>1. CASE u \in victims
      BY <1>1, <2>1, <2>2, <3>1 DEF TurnInv, CoordInv, FinishPcs, RunPcs
    <3>2. CASE u \notin victims
      BY <1>1, <2>1, <2>2, <3>2 DEF TurnInv, CoordInv
    <3> QED
      BY <3>1, <3>2
  <2> QED
    BY <1>1, <2>3, <2>4, <2>5 DEF OwnershipInv
<1>9. CASE CloseProcesses
  <2>1. cpc = "close" /\ procs' = {} /\ cpc' \in {"spawn", "shutdown", "recv"}
        /\ (cpc' = "spawn" => StartCommand)
        /\ acked' = (IF cmd.op = "InterruptTurn" THEN acked \cup {cmd.id} ELSE acked)
        /\ UNCHANGED <<nextId, sq, cmd, victims, pc, active, lock, cancelled, killed, terminals,
                       nacked>>
    BY <1>9 DEF CloseProcesses, StartCommand
  <2>2. QueueInv'
    BY <1>1, <2>1, CoordQueue DEF Starting, StartCommand
  <2>3. CoordInv'
    BY <1>1, <2>1 DEF CoordInv, StartCommand
  <2>4. ASSUME NEW u \in Turns PROVE TurnInv(u)'
    BY <1>1, <2>1 DEF TurnInv, CoordInv
  <2> QED
    BY <1>1, <2>2, <2>3, <2>4 DEF OwnershipInv
<1>10. CASE ShutdownSession
  <2>1. cpc = "shutdown" /\ cpc' = "exited" /\ procs' = {}
        /\ UNCHANGED <<nextId, sq, cmd, victims, pc, active, lock, cancelled, killed, terminals,
                       acked, nacked>>
    BY <1>10 DEF ShutdownSession
  <2>2. QueueInv'
    BY <1>1, <2>1, CoordQueue DEF Starting, StartCommand
  <2>3. CoordInv'
    BY <1>1, <2>1 DEF CoordInv, StartCommand
  <2>4. ASSUME NEW u \in Turns PROVE TurnInv(u)'
    BY <1>1, <2>1 DEF TurnInv
  <2> QED
    BY <1>1, <2>2, <2>3, <2>4 DEF OwnershipInv
<1>11. CASE SpawnTask
  <2>1. cpc = "spawn" /\ cpc' = "register" /\ pc' = [pc EXCEPT ![cmd.id] = "ready"]
        /\ UNCHANGED <<nextId, sq, cmd, victims, active, lock, cancelled, killed, procs,
                       terminals, acked, nacked>>
    BY <1>11 DEF SpawnTask
  <2>2. Starting /\ StartCommand /\ cmd.id \in Turns /\ Fresh(cmd.id)
    BY <1>1, <1>3, <2>1 DEF CoordInv, Starting, QueueInv
  <2>3. QueueInv'
    <3>1. ~Starting'
      BY <2>1 DEF Starting
    <3>2. \A i \in 1..Len(sq) : sq[i].id \in Turns
      BY <1>1, CommandFields DEF TypeOK
    <3>3. cmd.id < nextId /\ cmd.id \in Nat /\ nextId \in Nat
      BY <1>1, <2>2 DEF QueueInv, TypeOK, Turns
    <3>4. \A u \in Turns \ {cmd.id} : pc'[u] = pc[u]
      BY <1>2, <2>1
    <3> QED
      BY <1>1, <2>1, <2>2, <3>1, <3>2, <3>3, <3>4 DEF QueueInv, Fresh, Turns
  <2>4. CoordInv'
    BY <1>1, <1>2, <2>1, <2>2 DEF CoordInv, StartCommand, Fresh
  <2>5. ASSUME NEW u \in Turns PROVE TurnInv(u)'
    <3>1. CASE u = cmd.id
      BY <1>1, <1>2, <2>1, <2>2, <3>1 DEF TurnInv, Fresh, RunPcs, FinishPcs
    <3>2. CASE u # cmd.id
      BY <1>1, <1>2, <2>1, <3>2 DEF TurnInv
    <3> QED
      BY <3>1, <3>2
  <2> QED
    BY <1>1, <2>3, <2>4, <2>5 DEF OwnershipInv
<1>12. CASE RegisterNewActiveTask
  <2>1. cpc = "register" /\ cpc' = "start" /\ lock = Free /\ active' = {cmd.id}
        /\ UNCHANGED <<nextId, sq, cmd, victims, pc, lock, cancelled, killed, procs,
                       terminals, acked, nacked>>
    BY <1>12 DEF RegisterNewActiveTask
  <2>2. pc[cmd.id] = "ready" /\ cmd.id \in Turns /\ active = {} /\ victims = {}
        /\ cmd.id \notin nacked
    BY <1>1, <1>3, <2>1 DEF CoordInv
  <2>3. QueueInv'
    BY <1>1, <2>1, CoordQueue DEF Starting, StartCommand
  <2>4. CoordInv'
    BY <1>1, <2>1, <2>2 DEF CoordInv, StartCommand
  <2>5. ASSUME NEW u \in Turns PROVE TurnInv(u)'
    BY <1>1, <2>1, <2>2 DEF TurnInv, RunPcs, FinishPcs
  <2> QED
    BY <1>1, <2>3, <2>4, <2>5 DEF OwnershipInv
<1>13. CASE StartTask
  <2>1. cpc = "start" /\ cpc' = "recv" /\ pc' = [pc EXCEPT ![cmd.id] = "begin"]
        /\ UNCHANGED <<nextId, sq, cmd, victims, active, lock, cancelled, killed, procs,
                       terminals, acked, nacked>>
    BY <1>13 DEF StartTask
  <2>2. pc[cmd.id] = "ready" /\ cmd.id \in Turns /\ active = {cmd.id}
    BY <1>1, <1>3, <2>1 DEF CoordInv
  <2>3. QueueInv'
    <3>1. ~Starting'
      BY <2>1 DEF Starting
    <3>2. \A i \in 1..Len(sq) : sq[i].id \in Turns
      BY <1>1, CommandFields DEF TypeOK
    <3>3. \A u \in Turns : Fresh(u) => Fresh(u)'
      BY <1>2, <2>1, <2>2 DEF Fresh
    <3> QED
      BY <1>1, <2>1, <3>1, <3>2, <3>3 DEF QueueInv
  <2>4. CoordInv'
    BY <1>1, <1>2, <2>1 DEF CoordInv, StartCommand
  <2>5. ASSUME NEW u \in Turns PROVE TurnInv(u)'
    <3>1. CASE u = cmd.id
      BY <1>1, <1>2, <2>1, <2>2, <3>1 DEF TurnInv, RunPcs, FinishPcs
    <3>2. CASE u # cmd.id
      BY <1>1, <1>2, <2>1, <2>2, <3>2 DEF TurnInv
    <3> QED
      BY <3>1, <3>2
  <2> QED
    BY <1>1, <2>3, <2>4, <2>5 DEF OwnershipInv
<1> QED
  BY <1>4, <1>5, <1>6, <1>7, <1>8, <1>9, <1>10, <1>11, <1>12, <1>13

\* The ownership invariant holds initially: nothing is queued, spawned or owned.
LEMMA InitOwnership == Init => OwnershipInv
<1> SUFFICES ASSUME Init PROVE OwnershipInv
  OBVIOUS
<1>1. TypeOK
  BY InitType
<1>2. QueueInv
  BY DEF Init, QueueInv, Fresh, Starting
<1>3. CoordInv
  BY DEF Init, CoordInv, NoCommand, StartCommand
<1>4. ASSUME NEW u \in Turns PROVE TurnInv(u)
  BY DEF Init, TurnInv, RunPcs, FinishPcs, Free, Turns
<1> QED
  BY <1>1, <1>2, <1>3, <1>4 DEF OwnershipInv

\* A stuttering step keeps the ownership invariant.
LEMMA StutterOwnership == OwnershipInv /\ UNCHANGED vars => OwnershipInv'
BY DEF OwnershipInv, TypeOK, QueueInv, CoordInv, TurnInv, Fresh, Starting, StartCommand,
       vars, sqVars, coordVars, taskVars, turnVars, stopVars, histVars, eventVars, ackVars

\* Every step of the session keeps the ownership invariant.
LEMMA NextOwnership == OwnershipInv /\ [Next]_vars => OwnershipInv'
<1> SUFFICES ASSUME OwnershipInv, [Next]_vars PROVE OwnershipInv'
  OBVIOUS
<1>1. CASE Client
  BY <1>1, ClientOwnership
<1>2. CASE CoordStep
  BY <1>2, RecvOwnership, CoordOwnership DEF CoordStep
<1>3. ASSUME NEW t \in Turns, TaskStep(t) PROVE OwnershipInv'
  BY <1>3, TaskOwnership
<1>4. CASE UNCHANGED vars
  BY <1>4, StutterOwnership
<1> QED
  BY <1>1, <1>2, <1>3, <1>4 DEF Next

\* The ownership protocol of active_turn holds for ever: the inductive invariant
\* that the theorems below rest on.
THEOREM Ownership == Spec => []OwnershipInv
<1>1. Init => OwnershipInv
  BY InitOwnership
<1>2. OwnershipInv /\ [Next]_vars => OwnershipInv'
  BY NextOwnership
<1> QED
  BY <1>1, <1>2, PTL DEF Spec

(***************************************************************************)
(* The theorems                                                            *)
(***************************************************************************)

\* Every variable keeps its type and the submission channel its capacity.
THEOREM TypeCorrect == Spec => []TypeOK
<1>1. OwnershipInv => TypeOK
  BY DEF OwnershipInv
<1> QED
  BY <1>1, Ownership, PTL

\* A turn never has two terminal events, whatever the race between completion
\* by its task and cancellation by the coordinator.
THEOREM EndsOnce == Spec => []SingleTerminal
<1>1. OwnershipInv => SingleTerminal
  <2> SUFFICES ASSUME OwnershipInv, NEW t \in Turns PROVE Len(terminals[t]) <= 1
    BY DEF SingleTerminal
  <2>1. terminals[t] \in {<<>>, <<"complete">>, <<"aborted">>}
    BY DEF OwnershipInv, TurnInv
  <2>2. CASE terminals[t] = <<>>
    BY <2>2
  <2>3. CASE terminals[t] = <<"complete">>
    BY <2>3
  <2>4. CASE terminals[t] = <<"aborted">>
    BY <2>4
  <2> QED
    BY <2>1, <2>2, <2>3, <2>4
<1> QED
  BY <1>1, Ownership, PTL

\* A published active turn always has a live, uncancelled task behind it.
THEOREM ActiveTurnHasTask == Spec => []NoOrphanTurn
<1>1. OwnershipInv => NoOrphanTurn
  BY DEF OwnershipInv, TypeOK, TurnInv, NoOrphanTurn
<1> QED
  BY <1>1, Ownership, PTL

\* A session runs at most one task that was not aborted.
THEOREM OneTask == Spec => []OneRunningTask
<1>1. OwnershipInv => OneRunningTask
  <2> SUFFICES ASSUME OwnershipInv PROVE OneRunningTask
    OBVIOUS
  <2>1. \A t \in Turns : pc[t] \in RunPcs => t \in active \cup victims \cup killed
    BY DEF OwnershipInv, TurnInv
  <2>2. Cardinality(active \cup victims) <= 1
    <3>1. \A t, u \in active \cup victims : t = u
      BY DEF OwnershipInv, CoordInv
    <3>2. CASE active \cup victims = {}
      BY <3>2, FS_EmptySet
    <3>3. CASE active \cup victims # {}
      <4>1. PICK t \in active \cup victims : active \cup victims = {t}
        BY <3>1, <3>3
      <4> QED
        BY <4>1, FS_Singleton
    <3> QED
      BY <3>2, <3>3
  <2> QED
    BY <2>1, <2>2 DEF OneRunningTask
<1> QED
  BY <1>1, Ownership, PTL

\* What a client is told about its targeted interrupt is true.
THEOREM InterruptAnswers == Spec => []InterruptAnswerTruthful
<1>1. OwnershipInv => InterruptAnswerTruthful
  BY DEF OwnershipInv, TypeOK, TurnInv, InterruptAnswerTruthful
<1> QED
  BY <1>1, Ownership, PTL

\* Every live process has an owner, or belongs to an aborted task.
THEOREM ProcessOwners == Spec => []ProcessesOwned
<1>1. OwnershipInv => ProcessesOwned
  BY DEF OwnershipInv, TypeOK, TurnInv, ProcessesOwned
<1> QED
  BY <1>1, Ownership, PTL

\* The process cleanup of a turn that ends never takes a process of the turn
\* that is active: nothing is active while anybody cleans up.
THEOREM CleanupIsSafe == Spec => CleanupSparesOwner
<1>1. ASSUME OwnershipInv, [Next]_vars
      PROVE  [\A t \in procs \ procs' : t \notin active]_vars
  <2>1. CoordInv /\ \A u \in Turns : TurnInv(u)
    BY <1>1 DEF OwnershipInv
  <2>2. CASE procs \subseteq procs'
    BY <2>2
  <2>3. ASSUME NEW t \in Turns, FinishClose(t) PROVE active = {}
    BY <2>1, <2>3 DEF FinishClose, Goto, TurnInv, CoordInv, Free, Turns
  <2>4. CASE CloseProcesses \/ ShutdownSession
    BY <2>1, <2>4 DEF CloseProcesses, ShutdownSession, CoordInv
  <2>5. CASE Client
    BY <2>2, <2>5 DEF Client, Submit, SubmitInterruptTurn
  <2>6. CASE CoordStep
    BY <2>2, <2>4, <2>6
    DEF CoordStep, RejectUserInput, InjectInput, StartRegular, StartAux, RecvInterrupt,
        InterruptTask, NotifyApproval, RefuseInterruptTurn, InterruptTurn, RecvShutdown,
        TakeAllRunningTasks, CancelTask, KillTask, EmitTurnAborted, SpawnTask,
        RegisterNewActiveTask, StartTask
  <2>7. ASSUME NEW t \in Turns, TaskStep(t) PROVE procs \subseteq procs' \/ FinishClose(t)
    BY <2>7
    DEF TaskStep, BeginRegular, BeginAux, RecordPrompt, GetPendingInput, RecordPending,
        SampleToolCall, SampleCompleted, SampleError, ObserveCancel, SkipApproval,
        RequestCommandApproval, ApprovalAnswered, ExecCommand, AuxReturns, FlushRollout,
        OnTaskFinished, FinishUnlock, EmitTurnComplete, NotifyDone, Die
  <2>8. CASE UNCHANGED vars
    BY <2>8
  <2> QED
    BY <1>1, <2>2, <2>3, <2>5, <2>6, <2>7, <2>8 DEF Next
<1> QED
  BY <1>1, Ownership, PTL DEF Spec, CleanupSparesOwner

(***************************************************************************)
(* Markers and approvals                                                   *)
(***************************************************************************)

\* Only a turn that is being aborted, or was, has a marker; the coordinator writes it between
\* the wait for the task and TurnAborted, if and only if the turn was interrupted.
MarkInv ==
    /\ marked \subseteq cancelled
    /\ cpc = "wait" => victims \cap marked = {}
    /\ cpc = "emit" => \A t \in victims : t \in marked <=> AbortReason = "Interrupted"

\* A step of a task or of a client leaves the markers alone.
LEMMA MarkKept ==
    ASSUME MarkInv, UNCHANGED <<marked, cancelled, cpc, cmd, victims>>
    PROVE  MarkInv'
BY DEF MarkInv, AbortReason

\* A step of a task writes no marker.
LEMMA TaskWritesNoMarker == \A t \in Turns : TaskStep(t) => UNCHANGED marked
BY DEF TaskStep, TaskFrame, BeginRegular, BeginAux, RecordPrompt, GetPendingInput, RecordPending,
       SampleToolCall, SampleCompleted, SampleError, ObserveCancel, SkipApproval,
       RequestCommandApproval, ApprovalAnswered, ExecCommand, AuxReturns, FlushRollout,
       OnTaskFinished, FinishClose, FinishUnlock, EmitTurnComplete, NotifyDone, Die

\* Every step keeps the markers in order.
LEMMA NextMarks == OwnershipInv /\ MarkInv /\ [Next]_vars => MarkInv'
<1> SUFFICES ASSUME OwnershipInv, MarkInv, [Next]_vars PROVE MarkInv'
  OBVIOUS
<1>1. CoordInv
  BY DEF OwnershipInv
<1>2. CASE Client
  BY <1>2, MarkKept DEF Client, Submit, SubmitInterruptTurn, coordVars, stopVars, histVars
<1>3. ASSUME NEW t \in Turns, TaskStep(t) PROVE MarkInv'
  <2>1. TaskKeeps
    BY <1>3, TaskStepKeeps
  <2>2. UNCHANGED marked
    BY <1>3, TaskWritesNoMarker
  <2> QED
    BY <2>1, <2>2, MarkKept DEF TaskKeeps
<1>4. CASE UNCHANGED vars
  BY <1>4, MarkKept DEF vars, coordVars, stopVars, histVars
<1>5. CASE \/ RejectUserInput \/ InjectInput \/ StartRegular \/ StartAux \/ RecvInterrupt
           \/ InterruptTask \/ NotifyApproval \/ RefuseInterruptTurn \/ InterruptTurn
           \/ RecvShutdown \/ TakeAllRunningTasks \/ CloseProcesses \/ SpawnTask
           \/ RegisterNewActiveTask \/ StartTask \/ ShutdownSession
  <2>1. UNCHANGED <<marked, cancelled>> /\ cpc' \notin {"wait", "emit"}
    BY <1>5
    DEF RejectUserInput, InjectInput, StartRegular, StartAux, RecvInterrupt, InterruptTask,
        NotifyApproval, RefuseInterruptTurn, InterruptTurn, RecvShutdown, TakeAllRunningTasks,
        CloseProcesses, SpawnTask, RegisterNewActiveTask, StartTask, ShutdownSession, Receive,
        stopVars, histVars
  <2> QED
    BY <2>1 DEF MarkInv
<1>6. CASE CancelTask
  <2>1. victims # {} /\ victims \cap cancelled = {}
    BY <1>1, <1>6 DEF CancelTask, CoordInv
  <2>2. /\ UNCHANGED <<marked, victims>> /\ cpc' = "wait" /\ cancelled \subseteq cancelled'
    BY <1>6, <2>1 DEF CancelTask, histVars
  <2> QED
    BY <2>1, <2>2 DEF MarkInv
<1>7. CASE KillTask
  <2>1. victims \subseteq cancelled /\ victims \cap marked = {}
    BY <1>1, <1>7 DEF KillTask, CoordInv, MarkInv
  <2>2. /\ UNCHANGED <<cancelled, cmd, victims>> /\ cpc' = "emit"
        /\ marked' = IF AbortReason = "Interrupted" THEN marked \cup victims ELSE marked
    BY <1>7 DEF KillTask
  <2>3. AbortReason' = AbortReason
    BY <2>2 DEF AbortReason
  <2> QED
    BY <2>1, <2>2, <2>3 DEF MarkInv
<1>8. CASE EmitTurnAborted
  <2>1. UNCHANGED <<cancelled, marked>> /\ cpc' = "close"
    BY <1>8 DEF EmitTurnAborted, stopVars, histVars
  <2> QED
    BY <2>1 DEF MarkInv
<1> QED
  BY <1>2, <1>3, <1>4, <1>5, <1>6, <1>7, <1>8 DEF Next, CoordStep

\* A terminal event is sent by the coordinator for its victims, or by a task that completes.
LEMMA WhoEndsTurns ==
    ASSUME OwnershipInv, [Next]_vars, NEW t \in Turns, terminals'[t] # terminals[t]
    PROVE  (EmitTurnAborted /\ t \in victims) \/ EmitTurnComplete(t)
<1>1. TypeOK
  BY DEF OwnershipInv
<1>2. CASE Client \/ UNCHANGED vars
  BY <1>2 DEF Client, Submit, SubmitInterruptTurn, vars, eventVars
<1>3. CASE CoordStep
  <2>1. terminals' = terminals \/ EmitTurnAborted
    BY <1>3
    DEF CoordStep, RejectUserInput, InjectInput, StartRegular, StartAux, RecvInterrupt,
        InterruptTask, NotifyApproval, RefuseInterruptTurn, InterruptTurn, RecvShutdown,
        TakeAllRunningTasks, CancelTask, KillTask, CloseProcesses, SpawnTask,
        RegisterNewActiveTask, StartTask, ShutdownSession, eventVars
  <2> QED
    BY <2>1 DEF EmitTurnAborted
<1>4. ASSUME NEW u \in Turns, TaskStep(u)
      PROVE  (EmitTurnAborted /\ t \in victims) \/ EmitTurnComplete(t)
  <2>1. terminals' = terminals \/ EmitTurnComplete(u)
    BY <1>4
    DEF TaskStep, BeginRegular, BeginAux, RecordPrompt, GetPendingInput, RecordPending,
        SampleToolCall, SampleCompleted, SampleError, ObserveCancel, SkipApproval,
        RequestCommandApproval, ApprovalAnswered, ExecCommand, AuxReturns, FlushRollout,
        OnTaskFinished, FinishClose, FinishUnlock, NotifyDone, Die, eventVars
  <2>2. EmitTurnComplete(u) => u = t
    BY <1>1 DEF EmitTurnComplete, TypeOK
  <2> QED
    BY <2>1, <2>2
<1> QED
  BY <1>2, <1>3, <1>4 DEF Next

\* A marker is written for the victims only.
LEMMA WhoIsMarked ==
    ASSUME [Next]_vars, NEW t \in Turns, t \notin victims
    PROVE  t \in marked' <=> t \in marked
<1>1. CASE Client \/ UNCHANGED vars
  BY <1>1 DEF Client, Submit, SubmitInterruptTurn, vars, histVars
<1>2. CASE CoordStep
  <2>1. marked' = marked \/ KillTask
    BY <1>2
    DEF CoordStep, RejectUserInput, InjectInput, StartRegular, StartAux, RecvInterrupt,
        InterruptTask, NotifyApproval, RefuseInterruptTurn, InterruptTurn, RecvShutdown,
        TakeAllRunningTasks, CancelTask, EmitTurnAborted, CloseProcesses, SpawnTask,
        RegisterNewActiveTask, StartTask, ShutdownSession, histVars
  <2> QED
    BY <2>1 DEF KillTask
<1>3. ASSUME NEW u \in Turns, TaskStep(u) PROVE t \in marked' <=> t \in marked
  BY <1>3, TaskWritesNoMarker
<1> QED
  BY <1>1, <1>2, <1>3 DEF Next

\* When TurnAborted of an interrupted turn is sent, the history has its marker already; a turn
\* that is replaced or completes has none, and no marker comes or goes after the terminal event
\* (handle_task_abort records the marker before it sends TurnAborted).
THEOREM MarkerComesFirst == Spec => MarkerPrecedesAbort
<1>1. Init => MarkInv
  BY DEF Init, MarkInv
<1>2. OwnershipInv /\ MarkInv /\ [Next]_vars => MarkInv'
  BY NextMarks
<1>3. ASSUME OwnershipInv, MarkInv, [Next]_vars, NEW t \in Turns
      PROVE  /\ terminals'[t] # terminals[t] =>
                   (t \in marked <=> t \in victims /\ AbortReason = "Interrupted")
             /\ terminals[t] # <<>> => (t \in marked' <=> t \in marked)
  <2>1. TurnInv(t)
    BY <1>3 DEF OwnershipInv
  <2>2. terminals[t] # <<>> => t \notin victims
    BY <1>3, <2>1 DEF TurnInv
  <2>3. EmitTurnAborted /\ t \in victims => (t \in marked <=> AbortReason = "Interrupted")
    BY <1>3 DEF EmitTurnAborted, MarkInv
  <2>4. EmitTurnComplete(t) => t \notin victims /\ t \notin cancelled
    BY <1>3, <2>1 DEF EmitTurnComplete, Goto, TurnInv, FinishPcs
  <2>5. EmitTurnComplete(t) => t \notin victims /\ t \notin marked
    BY <1>3, <2>4 DEF MarkInv
  <2>6. terminals'[t] # terminals[t] => (t \in marked <=> t \in victims /\ AbortReason = "Interrupted")
    BY <1>3, <2>3, <2>5, WhoEndsTurns
  <2> QED
    BY <1>3, <2>2, <2>6, WhoIsMarked
<1> DEFINE Step == \A t \in Turns :
             /\ terminals'[t] # terminals[t] =>
                   (t \in marked <=> t \in victims /\ AbortReason = "Interrupted")
             /\ terminals[t] # <<>> => (t \in marked' <=> t \in marked)
<1>4. OwnershipInv /\ MarkInv /\ [Next]_vars => [Step]_vars
  BY <1>3
<1> HIDE DEF Step
<1>5. Spec => [][Step]_vars
  BY <1>1, <1>2, <1>4, Ownership, PTL DEF Spec
<1> QED
  BY <1>5 DEF MarkerPrecedesAbort, Step

\* A step that moves no active task to an approval, and takes neither senders nor decisions.
LEMMA ApprovalKept ==
    ASSUME LiveApprovalIsPending, active' \subseteq active, UNCHANGED <<pendingApprovals, decision>>,
           \A t \in active' : pc'[t] = "approval" => pc[t] = "approval"
    PROVE  LiveApprovalIsPending'
BY DEF LiveApprovalIsPending

\* Every step leaves the active task that waits for an approval its sender or its decision.
LEMMA NextApprovals == OwnershipInv /\ LiveApprovalIsPending /\ [Next]_vars => LiveApprovalIsPending'
<1> SUFFICES ASSUME OwnershipInv, LiveApprovalIsPending, [Next]_vars PROVE LiveApprovalIsPending'
  OBVIOUS
<1>1. TypeOK /\ CoordInv /\ \A u \in Turns : TurnInv(u)
  BY DEF OwnershipInv
<1>2. active \subseteq Turns /\ pc \in [Turns -> TaskPcs] /\ decision \in [Turns -> Decisions \cup {"none", "kept"}]
  BY <1>1 DEF TypeOK
<1>3. CASE Client \/ UNCHANGED vars
  BY <1>3, ApprovalKept DEF Client, Submit, SubmitInterruptTurn, vars, taskVars, turnVars
<1>4. CASE \/ RejectUserInput \/ InjectInput \/ StartRegular \/ StartAux \/ RecvInterrupt
           \/ InterruptTask \/ RefuseInterruptTurn \/ RecvShutdown \/ CancelTask \/ KillTask
           \/ EmitTurnAborted \/ CloseProcesses \/ ShutdownSession
  <2>1. UNCHANGED <<active, pendingApprovals, decision, pc>>
    BY <1>4
    DEF RejectUserInput, InjectInput, StartRegular, StartAux, RecvInterrupt, InterruptTask,
        RefuseInterruptTurn, RecvShutdown, CancelTask, KillTask, EmitTurnAborted, CloseProcesses,
        ShutdownSession, taskVars, turnVars
  <2> QED
    BY <2>1, ApprovalKept
<1>5. CASE InterruptTurn \/ TakeAllRunningTasks
  BY <1>5 DEF InterruptTurn, TakeAllRunningTasks, TakeActiveTurn, LiveApprovalIsPending
<1>6. CASE SpawnTask \/ StartTask
  <2>1. UNCHANGED <<active, pendingApprovals, decision>>
    BY <1>6 DEF SpawnTask, StartTask, turnVars
  <2>2. \A t \in Turns : pc'[t] = "approval" => pc[t] = "approval"
    BY <1>2, <1>6 DEF SpawnTask, StartTask
  <2> QED
    BY <1>2, <2>1, <2>2, ApprovalKept
<1>7. CASE RegisterNewActiveTask
  <2>1. active' = {cmd.id} /\ pc'[cmd.id] = "ready"
    BY <1>1, <1>7 DEF RegisterNewActiveTask, CoordInv, taskVars
  <2> QED
    BY <2>1 DEF LiveApprovalIsPending
<1>8. CASE NotifyApproval
  <2> DEFINE h == Head(sq)
  <2>1. /\ h \in Commands /\ h.op = "ExecApproval"
        /\ decision' = IF h.turn \in pendingApprovals
                         THEN [decision EXCEPT ![h.turn] = h.decision] ELSE decision
        /\ pendingApprovals' = pendingApprovals \ {h.turn}
        /\ UNCHANGED <<active, pc>>
    BY <1>1, <1>8, ReceiveType DEF NotifyApproval, Receive, taskVars
  <2>2. h.turn \in Turns /\ h.decision \in Decisions
    BY <2>1, CommandFields
  <2> HIDE DEF h
  <2> QED
    BY <1>2, <2>1, <2>2 DEF LiveApprovalIsPending
<1>9. ASSUME NEW t \in Turns, TaskStep(t) PROVE LiveApprovalIsPending'
  <2>1. TurnInv(t)
    BY <1>1
  <2>2. CASE \/ BeginRegular(t) \/ BeginAux(t) \/ RecordPrompt(t) \/ GetPendingInput(t)
             \/ RecordPending(t) \/ SampleToolCall(t) \/ SampleCompleted(t) \/ SampleError(t)
             \/ ObserveCancel(t) \/ SkipApproval(t) \/ ApprovalAnswered(t) \/ ExecCommand(t)
             \/ AuxReturns(t) \/ FlushRollout(t) \/ FinishClose(t) \/ EmitTurnComplete(t)
             \/ NotifyDone(t)
    <3>1. UNCHANGED <<active, pendingApprovals, decision>>
      BY <2>2
      DEF BeginRegular, BeginAux, RecordPrompt, GetPendingInput, RecordPending, SampleToolCall,
          SampleCompleted, SampleError, ObserveCancel, SkipApproval, ApprovalAnswered, ExecCommand,
          AuxReturns, FlushRollout, FinishClose, EmitTurnComplete, NotifyDone, turnVars
    <3>2. \E to \in TaskPcs \ {"approval"} : pc' = [pc EXCEPT ![t] = to]
      BY <1>2, <2>2
      DEF BeginRegular, BeginAux, RecordPrompt, GetPendingInput, RecordPending, SampleToolCall,
          SampleCompleted, SampleError, ObserveCancel, SkipApproval, ApprovalAnswered, ExecCommand,
          AuxReturns, FlushRollout, FinishClose, EmitTurnComplete, NotifyDone, Goto,
          TaskPcs, RunPcs, FinishPcs
    <3> QED
      BY <1>2, <3>1, <3>2, ApprovalKept
  <2>3. CASE RequestCommandApproval(t)
    BY <1>2, <2>3 DEF RequestCommandApproval, Goto, LiveApprovalIsPending
  <2>4. CASE OnTaskFinished(t)
    <3>1. active' \subseteq active /\ UNCHANGED <<pendingApprovals, decision>>
      BY <2>4 DEF OnTaskFinished
    <3>2. \A u \in Turns : pc'[u] = "approval" => pc[u] = "approval"
      BY <1>2, <2>4 DEF OnTaskFinished, Goto
    <3> QED
      BY <1>2, <3>1, <3>2, ApprovalKept
  <2>5. CASE FinishUnlock(t)
    <3>1. active = {}
      BY <1>1, <2>1, <2>5 DEF FinishUnlock, Goto, TurnInv, CoordInv, Free, Turns
    <3> QED
      BY <2>5, <3>1 DEF FinishUnlock, LiveApprovalIsPending
  <2>6. CASE Die(t)
    <3>1. UNCHANGED <<active, pendingApprovals, decision>>
      BY <2>6 DEF Die
    <3>2. \A u \in Turns : pc'[u] = "approval" => pc[u] = "approval"
      BY <1>2, <2>6 DEF Die
    <3> QED
      BY <1>2, <3>1, <3>2, ApprovalKept
  <2> QED
    BY <1>9, <2>2, <2>3, <2>4, <2>5, <2>6 DEF TaskStep
<1> QED
  BY <1>3, <1>4, <1>5, <1>6, <1>7, <1>8, <1>9 DEF Next, CoordStep

\* The active task that waits for an approval can be answered: another turn's abort, completion
\* or answer never drops its sender.
THEOREM ApprovalStaysAnswerable == Spec => []LiveApprovalIsPending
<1>1. Init => LiveApprovalIsPending
  BY DEF Init, LiveApprovalIsPending
<1>2. OwnershipInv /\ LiveApprovalIsPending /\ [Next]_vars => LiveApprovalIsPending'
  BY NextApprovals
<1> QED
  BY <1>1, <1>2, Ownership, PTL DEF Spec

(***************************************************************************)
(* The session implements TurnContract                                     *)
(***************************************************************************)

\* A step that moves nobody between the active turn, the aborted tasks and the
\* terminal events, and no task in or out of on_task_finished, stutters.
LEMMA PhaseStutters ==
    ASSUME UNCHANGED <<active, victims, terminals, acked, nacked>>,
           \A u \in Turns : pc'[u] \in FinishPcs <=> pc[u] \in FinishPcs
    PROVE  UNCHANGED Contract!vars
<1>1. \A u \in Turns : Phase(u)' = Phase(u)
  BY DEF Phase
<1> QED
  BY <1>1 DEF Contract!vars

\* A step that changes the phase of one turn is a move of the contract.
LEMMA PhaseMove ==
    ASSUME NEW t \in Turns, NEW from, NEW to, Phase(t) = from, Phase(t)' = to,
           \A u \in Turns \ {t} : Phase(u)' = Phase(u),
           UNCHANGED <<acked, nacked>>
    PROVE  Contract!Move(t, from, to)
BY DEF Contract!Move

\* The phase of a turn from who owns it.
LEMMA PhaseOf ==
    ASSUME NEW t \in Turns, TurnInv(t)
    PROVE  /\ Phase(t) = "open" <=> t \in active
           /\ Phase(t) = "aborting" <=> t \in victims
           /\ Phase(t) = "finishing" <=> pc[t] \in FinishPcs
           /\ Phase(t) = "complete" <=> terminals[t] = <<"complete">>
           /\ Phase(t) = "aborted" <=> terminals[t] = <<"aborted">>
<1>1. <<>> # <<"complete">> /\ <<>> # <<"aborted">> /\ <<"complete">> # <<"aborted">>
  OBVIOUS
<1> QED
  BY <1>1 DEF TurnInv, Phase, FinishPcs, RunPcs

\* The same after a step.
LEMMA PhaseOfNext ==
    ASSUME NEW t \in Turns, TurnInv(t)'
    PROVE  /\ Phase(t)' = "open" <=> t \in active'
           /\ Phase(t)' = "aborting" <=> t \in victims'
           /\ Phase(t)' = "finishing" <=> pc'[t] \in FinishPcs
           /\ Phase(t)' = "complete" <=> terminals'[t] = <<"complete">>
           /\ Phase(t)' = "aborted" <=> terminals'[t] = <<"aborted">>
<1>1. <<>> # <<"complete">> /\ <<>> # <<"aborted">> /\ <<"complete">> # <<"aborted">>
  OBVIOUS
<1> QED
  BY <1>1 DEF TurnInv, Phase, FinishPcs, RunPcs

\* The coordinator's steps that take the active turn, if there is one: Abort.
LEMMA TakeSimulates ==
    ASSUME OwnershipInv, OwnershipInv', TakeActiveTurn, victims = {},
           UNCHANGED <<pc, terminals, acked, nacked>>
    PROVE  [Contract!Next]_(Contract!vars)
<1>1. CoordInv /\ (\A u \in Turns : TurnInv(u)) /\ active \subseteq Turns
  BY DEF OwnershipInv, TypeOK
<1>2. victims' = active /\ active' = {} /\ \A u \in Turns : TurnInv(u)'
  BY DEF TakeActiveTurn, OwnershipInv
<1>3. CASE active = {}
  BY <1>2, <1>3, PhaseStutters
<1>4. CASE active # {}
  <2>1. PICK t \in Turns : active = {t}
    BY <1>1, <1>4 DEF CoordInv
  <2>2. Phase(t) = "open" /\ Phase(t)' = "aborting"
    BY <1>1, <1>2, <2>1, PhaseOf, PhaseOfNext
  <2>3. \A u \in Turns \ {t} : Phase(u)' = Phase(u)
    BY <1>2, <2>1 DEF Phase
  <2>4. Contract!Move(t, "open", "aborting")
    BY <2>2, <2>3, PhaseMove
  <2> QED
    BY <2>4 DEF Contract!Next, Contract!Abort
<1> QED
  BY <1>3, <1>4

\* Every step of the coordinator is a step of the contract or a stutter.
LEMMA CoordSimulates ==
    ASSUME OwnershipInv, OwnershipInv', CoordStep
    PROVE  [Contract!Next]_(Contract!vars)
<1>1. TypeOK /\ CoordInv /\ \A u \in Turns : TurnInv(u)
  BY DEF OwnershipInv
<1>2. \A u \in Turns : TurnInv(u)'
  BY DEF OwnershipInv
<1>3. pc \in [Turns -> TaskPcs]
  BY <1>1 DEF TypeOK
<1>4. cpc # "recv" => cmd.id \in Turns
  BY <1>1, CommandFields DEF CoordInv
<1> USE DEF taskVars, turnVars, stopVars, eventVars, ackVars
<1>5. CASE RejectUserInput \/ InjectInput \/ StartRegular \/ StartAux \/ RecvInterrupt
           \/ NotifyApproval \/ RecvShutdown \/ InterruptTask \/ KillTask \/ ShutdownSession
  <2>1. UNCHANGED <<active, victims, terminals, acked, nacked, pc>>
    BY <1>5 DEF RejectUserInput, InjectInput, StartRegular, StartAux, RecvInterrupt,
                NotifyApproval, RecvShutdown, InterruptTask, KillTask, ShutdownSession
  <2> QED
    BY <2>1, PhaseStutters
<1>6. CASE CancelTask
  <2>1. UNCHANGED <<active, victims, terminals, acked, nacked, pc>>
    BY <1>1, <1>6 DEF CancelTask, CoordInv
  <2> QED
    BY <2>1, PhaseStutters
<1>7. CASE SpawnTask \/ StartTask
  <2>1. /\ cpc \in {"spawn", "start"}
        /\ pc' \in {[pc EXCEPT ![cmd.id] = "ready"], [pc EXCEPT ![cmd.id] = "begin"]}
        /\ UNCHANGED <<active, victims, terminals, acked, nacked>>
    BY <1>7 DEF SpawnTask, StartTask
  <2>2. cmd.id \in Turns /\ pc[cmd.id] \in {"absent", "ready"}
    BY <1>1, <1>4, <2>1 DEF OwnershipInv, QueueInv, Fresh, Starting, CoordInv
  <2>3. \A u \in Turns : pc'[u] \in FinishPcs <=> pc[u] \in FinishPcs
    BY <1>3, <2>1, <2>2 DEF FinishPcs
  <2> QED
    BY <2>1, <2>3, PhaseStutters
<1>8. CASE InterruptTurn
  <2>1. victims = {} /\ TakeActiveTurn /\ UNCHANGED <<pc, terminals, acked, nacked>>
    BY <1>1, <1>8 DEF InterruptTurn, Receive, CoordInv
  <2> QED
    BY <2>1, TakeSimulates
<1>9. CASE TakeAllRunningTasks
  <2>1. victims = {} /\ TakeActiveTurn /\ UNCHANGED <<pc, terminals, acked, nacked>>
    BY <1>1, <1>9 DEF TakeAllRunningTasks, CoordInv
  <2> QED
    BY <2>1, TakeSimulates
<1>10. CASE RefuseInterruptTurn
  <2>1. Head(sq) \in Commands /\ Head(sq).id \in Turns
    BY <1>1, <1>10, ReceiveType, CommandFields DEF RefuseInterruptTurn
  <2>2. Head(sq).id \notin active \cup victims
    BY <1>1, <1>10 DEF RefuseInterruptTurn, Receive, CoordInv
  <2>3. UNCHANGED <<pc, active, victims, terminals, acked>>
        /\ nacked' = nacked \cup {Head(sq).id}
    BY <1>10 DEF RefuseInterruptTurn
  <2>4. \A u \in Turns : Phase(u)' = Phase(u)
    BY <2>3 DEF Phase
  <2>5. Phase(Head(sq).id) \notin {"open", "aborting"}
    BY <1>1, <2>1, <2>2, PhaseOf
  <2>6. Contract!AnswerFalse(Head(sq).id)
    BY <2>1, <2>3, <2>4, <2>5 DEF Contract!AnswerFalse
  <2> QED
    BY <2>1, <2>6 DEF Contract!Next
<1>11. CASE EmitTurnAborted
  <2>1. cpc = "emit" /\ victims' = {} /\ UNCHANGED <<pc, active, acked, nacked>>
        /\ victims \subseteq Turns
    BY <1>1, <1>11 DEF EmitTurnAborted, TypeOK
  <2>2. PICK t \in Turns : victims = {t}
    BY <1>1, <2>1 DEF CoordInv
  <2>3. \A u \in Turns \ {t} : terminals'[u] = terminals[u]
    BY <1>11, <2>2 DEF EmitTurnAborted
  <2>4. terminals[t] = <<>> /\ Phase(t) = "aborting"
    BY <1>1, <2>2, PhaseOf DEF TurnInv
  <2>5. terminals'[t] = <<"aborted">>
    <3>1. terminals'[t] = Append(<<>>, "aborted")
      BY <1>11, <2>2, <2>4 DEF EmitTurnAborted
    <3>2. Append(<<>>, "aborted") = <<"aborted">>
      OBVIOUS
    <3> QED
      BY <3>1, <3>2
  <2>6. t \notin active /\ pc[t] \notin FinishPcs
    BY <1>1, <2>2 DEF TurnInv, CoordInv, FinishPcs, RunPcs
  <2>7. <<"aborted">> # <<"complete">>
    OBVIOUS
  <2>8. Phase(t)' = "aborted"
    BY <2>1, <2>5, <2>6, <2>7 DEF Phase
  <2>9. \A u \in Turns \ {t} : Phase(u)' = Phase(u)
    BY <2>1, <2>2, <2>3 DEF Phase
  <2>10. Contract!Move(t, "aborting", "aborted")
    BY <2>1, <2>4, <2>8, <2>9, PhaseMove
  <2> QED
    BY <2>10 DEF Contract!Next, Contract!Aborted
<1>12. CASE CloseProcesses
  <2>1. cpc = "close" /\ UNCHANGED <<pc, active, victims, terminals, nacked>>
        /\ acked' = (IF cmd.op = "InterruptTurn" THEN acked \cup {cmd.id} ELSE acked)
    BY <1>12 DEF CloseProcesses
  <2>2. CASE cmd.op # "InterruptTurn"
    BY <2>1, <2>2, PhaseStutters
  <2>3. CASE cmd.op = "InterruptTurn"
    <3>1. cmd.id \in Turns /\ Phase(cmd.id) = "aborted"
      BY <1>1, <1>4, <2>1, <2>3, PhaseOf DEF CoordInv
    <3>2. \A u \in Turns : Phase(u)' = Phase(u)
      BY <2>1 DEF Phase
    <3>3. Contract!AnswerTrue(cmd.id)
      BY <2>1, <2>3, <3>1, <3>2 DEF Contract!AnswerTrue
    <3> QED
      BY <3>1, <3>3 DEF Contract!Next
  <2> QED
    BY <2>2, <2>3
<1>13. CASE RegisterNewActiveTask
  <2>1. cpc = "register" /\ active' = {cmd.id} /\ cmd.id \in Turns
        /\ UNCHANGED <<pc, victims, terminals, acked, nacked>>
    BY <1>4, <1>13 DEF RegisterNewActiveTask
  <2>2. active = {} /\ victims = {} /\ pc[cmd.id] = "ready" /\ cmd.id \notin nacked
        /\ terminals[cmd.id] = <<>>
    BY <1>1, <2>1 DEF CoordInv, TurnInv
  <2>3. <<>> # <<"complete">> /\ <<>> # <<"aborted">>
    OBVIOUS
  <2>4. Phase(cmd.id) = "none"
    BY <2>2, <2>3 DEF Phase, FinishPcs
  <2>5. \A u \in Turns \ {cmd.id} : Phase(u)' = Phase(u)
    BY <2>1, <2>2 DEF Phase
  <2>6. \A u \in Turns : Phase(u) \notin {"open", "aborting"}
    BY <1>1, <2>2, PhaseOf
  <2>7. PICK t \in Turns : t = cmd.id
    BY <2>1
  <2>8. Phase(t)' = "open"
    BY <1>2, <2>1, <2>7, PhaseOfNext
  <2>9. Contract!Move(t, "none", "open")
    BY <2>1, <2>4, <2>5, <2>7, <2>8, PhaseMove
  <2>10. Contract!Open(t)
    BY <2>2, <2>6, <2>7, <2>9 DEF Contract!Open
  <2> QED
    BY <2>10 DEF Contract!Next
<1> QED
  BY <1>5, <1>6, <1>7, <1>8, <1>9, <1>10, <1>11, <1>12, <1>13 DEF CoordStep

\* Every step of a task is a step of the contract or a stutter.
LEMMA TaskSimulates ==
    ASSUME OwnershipInv, OwnershipInv', NEW t \in Turns, TaskStep(t)
    PROVE  [Contract!Next]_(Contract!vars)
<1>1. TypeOK /\ (\A u \in Turns : TurnInv(u)) /\ TaskKeeps
  BY TaskStepKeeps DEF OwnershipInv
<1>2. \A u \in Turns : TurnInv(u)'
  BY DEF OwnershipInv
<1>3. pc \in [Turns -> TaskPcs] /\ terminals \in [Turns -> Seq(Terminals)]
  BY <1>1 DEF TypeOK
<1> USE DEF TaskKeeps, turnVars, eventVars
<1>4. CASE RunStep(t)
  <2>1. \A u \in Turns \ {t} : pc'[u] = pc[u]
    BY <1>3, <1>4 DEF RunStep
  <2>2. \A u \in Turns : pc'[u] \in FinishPcs <=> pc[u] \in FinishPcs
    BY <1>4, <2>1 DEF RunStep, RunPcs, FinishPcs
  <2> QED
    BY <1>1, <1>4, <2>2, PhaseStutters DEF RunStep
<1>5. CASE FinishClose(t) \/ FinishUnlock(t) \/ NotifyDone(t)
  <2>1. \A u \in Turns : pc'[u] \in FinishPcs <=> pc[u] \in FinishPcs
    BY <1>3, <1>5 DEF FinishClose, FinishUnlock, NotifyDone, Goto, FinishPcs
  <2>2. UNCHANGED <<active, terminals>>
    BY <1>5 DEF FinishClose, FinishUnlock, NotifyDone
  <2> QED
    BY <1>1, <2>1, <2>2, PhaseStutters
<1>6. CASE Die(t)
  <2>1. pc[t] \notin FinishPcs
    BY <1>1, <1>6 DEF Die, TurnInv
  <2>2. \A u \in Turns : pc'[u] \in FinishPcs <=> pc[u] \in FinishPcs
    BY <1>3, <1>6, <2>1 DEF Die, FinishPcs
  <2>3. UNCHANGED <<active, terminals>>
    BY <1>6 DEF Die
  <2> QED
    BY <1>1, <2>2, <2>3, PhaseStutters
<1>7. CASE OnTaskFinished(t) /\ t \in active
  <2>1. pc' = [pc EXCEPT ![t] = "close"] /\ active' = active \ {t} /\ UNCHANGED terminals
    BY <1>7 DEF OnTaskFinished, Goto
  <2>2. Phase(t) = "open"
    BY <1>1, <1>7, PhaseOf
  <2>3. Phase(t)' = "finishing"
    BY <1>2, <1>3, <2>1, PhaseOfNext DEF FinishPcs
  <2>4. \A u \in Turns \ {t} : Phase(u)' = Phase(u)
    BY <1>1, <1>3, <2>1 DEF Phase
  <2>5. Contract!Move(t, "open", "finishing")
    BY <1>1, <2>2, <2>3, <2>4, PhaseMove
  <2> QED
    BY <2>5 DEF Contract!Next, Contract!Finish
<1>8. CASE EmitTurnComplete(t)
  <2>1. pc[t] = "emit" /\ pc' = [pc EXCEPT ![t] = "notify"] /\ UNCHANGED active
        /\ terminals' = [terminals EXCEPT ![t] = Append(@, "complete")]
    BY <1>8 DEF EmitTurnComplete, Goto
  <2>2. terminals[t] = <<>>
    BY <1>1, <2>1 DEF TurnInv, FinishPcs
  <2>3. terminals'[t] = <<"complete">>
    <3>1. terminals'[t] = Append(<<>>, "complete")
      BY <1>3, <2>1, <2>2
    <3>2. Append(<<>>, "complete") = <<"complete">>
      OBVIOUS
    <3> QED
      BY <3>1, <3>2
  <2>4. Phase(t) = "finishing"
    BY <1>1, <2>1, PhaseOf DEF FinishPcs
  <2>5. Phase(t)' = "complete"
    BY <1>2, <2>3, PhaseOfNext
  <2>6. \A u \in Turns \ {t} : Phase(u)' = Phase(u)
    BY <1>1, <1>3, <2>1 DEF Phase
  <2>7. Contract!Move(t, "finishing", "complete")
    BY <1>1, <2>4, <2>5, <2>6, PhaseMove
  <2> QED
    BY <2>7 DEF Contract!Next, Contract!Complete
<1> QED
  BY <1>1, <1>4, <1>5, <1>6, <1>7, <1>8, RunSteps DEF TaskStep

\* The session implements the contract: every race of completion, abort and
\* replacement shows its clients turns that open one at a time, end once, and
\* interrupts that are answered truthfully.
THEOREM SessionImplementsContract == Spec => ImplementsContract
<1>1. Init => Contract!Init
  <2> SUFFICES ASSUME Init PROVE Contract!Init
    OBVIOUS
  <2>1. <<>> # <<"complete">> /\ <<>> # <<"aborted">>
    OBVIOUS
  <2>2. \A u \in Turns : Phase(u) = "none"
    BY <2>1 DEF Init, Phase, FinishPcs
  <2> QED
    BY <2>2 DEF Init, Contract!Init
<1>2. ASSUME OwnershipInv, OwnershipInv', [Next]_vars
      PROVE  [Contract!Next]_(Contract!vars)
  <2>1. CASE Client
    <3>1. UNCHANGED <<active, victims, terminals, acked, nacked, pc>>
      BY <2>1 DEF Client, Submit, SubmitInterruptTurn, coordVars, taskVars, turnVars,
                  eventVars, ackVars
    <3> QED
      BY <3>1, PhaseStutters
  <2>2. CASE CoordStep
    BY <1>2, <2>2, CoordSimulates
  <2>3. ASSUME NEW t \in Turns, TaskStep(t) PROVE [Contract!Next]_(Contract!vars)
    BY <1>2, <2>3, TaskSimulates
  <2>4. CASE UNCHANGED vars
    <3>1. UNCHANGED <<active, victims, terminals, acked, nacked, pc>>
      BY <2>4 DEF vars, coordVars, taskVars, turnVars, eventVars, ackVars
    <3> QED
      BY <3>1, PhaseStutters
  <2> QED
    BY <1>2, <2>1, <2>2, <2>3, <2>4 DEF Next
<1> QED
  BY <1>1, <1>2, Ownership, PTL DEF Spec, ImplementsContract, Contract!Spec
=============================================================================
