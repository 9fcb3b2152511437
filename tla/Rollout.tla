-------------------------------- MODULE Rollout --------------------------------
(***************************************************************************)
(* The conversation history of a session and its rollout file (core/src:   *)
(* savfox/event_pipeline.rs, rollout/recorder.rs, compact.rs,              *)
(* compact_remote.rs, context_manager/history.rs).                         *)
(*                                                                         *)
(* The history is kept in memory; every change of it is also queued for    *)
(* the rollout writer, which appends one JSON line per item to the file.   *)
(* After a restart the history is rebuilt from the file: items are         *)
(* recorded again, compactions and rollbacks are carried out again.        *)
(*                                                                         *)
(* Three actors record: the task of the turn, the submission loop (context,*)
(* abort marker, rollback) and the ghost snapshot of the turn, which runs  *)
(* beside it.  Each changes the history first and then sends to the queue, *)
(* one await after the other.  An abort drops the task between the two.    *)
(*                                                                         *)
(* A write may be cut short, by a full disk or a crash: a part of the line *)
(* is in the file, or all of it but the newline.  The recorder appends to  *)
(* whatever is there.                                                      *)
(*                                                                         *)
(* Left out: events that replay skips, the limits on the length of items,  *)
(* changes of the configuration (the initial context is always the same),  *)
(* undo, the metadata database, and the last poll of an aborted task,      *)
(* which TurnLifecycle has.                                                *)
(***************************************************************************)
EXTENDS Naturals, Sequences, FiniteSets, Functions

CONSTANTS MaxRecords,  \* bound: items recorded in a behaviour
          MaxTurns,    \* bound: num_turns of a rollback
          MaxGhosts,   \* bound: ghost snapshots
          MaxTears,    \* bound: torn writes
          MaxRestarts, \* bound: crashes
          Capacity     \* of the recorder's channel

ASSUME RolloutAssumption ==
    /\ {MaxRecords, MaxTurns, MaxGhosts, MaxTears, MaxRestarts} \subseteq Nat
    /\ Capacity \in Nat \ {0}

Task  == "task"
Loop  == "loop"
Ghost == "ghost"
Actors == {Task, Loop, Ghost}

VARIABLES
    up,        \* the process runs and the session is loaded
    history,   \* ContextManager.items
    seeded,    \* initial_context_seeded
    task,      \* where the turn is: "none", "run", "compact" or "ending"
    snapping,  \* a ghost snapshot is being taken
    own,       \* the last snapshot is that of the turn that runs
    event,     \* the event the loop sends after its flush, or "none"
    todo,      \* todo[a]: what actor a has still to send to the queue
    awaiting,  \* awaiting[a]: a waits for the acknowledgement of a flush
    queue,     \* the recorder's channel
    writer,    \* "up", or "dead" after a failed write
    file,      \* the lines of the rollout file
    tail,      \* how it ends: after a "line", in a "torn" one, or "open" without newline
    count,     \* items recorded so far
    ghosts, tears, restarts,
    cut,       \* an abort has separated the history from the rollout
    lost,      \* numbers of the items lost in a garbled line since the last load
    sent,      \* numbers of the items queued since the last load
    acked      \* numbers of the items behind which a flush was acknowledged

sessionVars  == <<up, seeded, task, snapping, own, event, cut>>
recorderVars == <<queue, writer, file, tail, lost>>
bounds       == <<ghosts, tears, restarts>>
vars == <<sessionVars, history, todo, awaiting, recorderVars, count, bounds, sent, acked>>

\* Kinds of response items: instructions and environment, input of the user, output
\* of the model and its tools, the summary of a compaction, the marker of an aborted
\* turn, and a ghost snapshot.  Their number tells them apart.
Item(k, n) == [kind |-> k, no |-> n]
Context    == Item("context", 0)

Kinds    == {"context", "user", "reply", "summary", "aborted", "ghost"}
Items(K) == [kind : K, no : Nat]

\* Rollout items: a response item, a compaction with the summary or with the history
\* that replaces the old one, a rollback; and a line that does not parse.
Rec(type, n, body) == [type |-> type, no |-> n, body |-> body]
Meta    == Rec("meta", 0, <<>>)
Garbled == Rec("garbled", 0, <<>>)

Add(r) == [type |-> "add", rec |-> r, by |-> Loop]
Flush(a) == [type |-> "flush", rec |-> Garbled, by |-> a]

Init ==
    /\ up = TRUE /\ seeded = FALSE /\ task = "none" /\ event = "none" /\ cut = FALSE
    /\ snapping = FALSE /\ own = FALSE
    /\ history = <<>>
    /\ todo = [a \in Actors |-> <<>>]
    /\ awaiting = [a \in Actors |-> FALSE]
    /\ queue = <<Add(Meta)>>
    /\ writer = "up" /\ file = <<>> /\ tail = "line"
    /\ count = 0 /\ ghosts = 0 /\ tears = 0 /\ restarts = 0
    /\ lost = {} /\ sent = {} /\ acked = {}

----------------------------------------------------------------------------
(* The history                                                              *)

\* The elements of s that are in S, in their order.
Only(s, S) ==
    LET only[n \in 0..Len(s)] ==
            IF n = 0 THEN <<>>
            ELSE IF s[n] \in S THEN Append(only[n - 1], s[n]) ELSE only[n - 1]
    IN only[Len(s)]

\* is_user_turn_boundary: summaries count as messages of the user.
UserTurns(h) == {i \in DOMAIN h : h[i].kind \in {"user", "summary"}}

\* drop_last_n_user_turns.
DropLastUserTurns(h, n) ==
    LET P == UserTurns(h)
    IN IF P = {} THEN h
       ELSE LET first == CHOOSE i \in P : \A j \in P : i <= j
                nth   == CHOOSE i \in P : Cardinality({j \in P : i <= j}) = n
            IN SubSeq(h, 1, (IF n >= Cardinality(P) THEN first ELSE nth) - 1)

\* collect_user_messages and build_compacted_history.
CompactedHistory(h, summary) ==
    <<Context>> \o Only(h, Items({"user", "aborted"})) \o <<summary>>

GhostsOf(h) == Only(h, Items({"ghost"}))

\* reconstruct_history_from_rollout, for a compaction that carries its summary only.
\* Mutant: the summary is appended to the history it stands for.
RebuiltAppended(h, summary) == Append(h, summary)
Rebuilt(h, summary) == CompactedHistory(h, summary)

Apply(h, r) ==
    CASE r.type = "item"     -> h \o r.body
      [] r.type = "compact"  -> Rebuilt(h, r.body[1])
      [] r.type = "replace"  -> r.body
      [] r.type = "rollback" -> DropLastUserTurns(h, r.body[1])
      [] OTHER               -> h

Reconstruct(lines) ==
    LET replay[n \in 0..Len(lines)] ==
            IF n = 0 THEN <<>> ELSE Apply(replay[n - 1], lines[n])
    IN replay[Len(lines)]

----------------------------------------------------------------------------
(* Recording                                                                *)

Free(a) == todo[a] = <<>> /\ ~awaiting[a]
LoopIdle == up /\ Free(Loop) /\ event = "none"

\* Change the history and have the rollout item, and maybe a flush, sent.
Change(a, h, type, body, flush) ==
    /\ Free(a) /\ count < MaxRecords
    /\ history' = h
    /\ count' = count + 1
    /\ todo' = [todo EXCEPT ![a] = <<Add(Rec(type, count + 1, body))>>
                                   \o (IF flush THEN <<Flush(a)>> ELSE <<>>)]

\* record_conversation_items.
Record(a, kind, flush) ==
    LET i == IF kind = "context" THEN Context ELSE Item(kind, count + 1)
    IN Change(a, Append(history, i), "item", <<i>>, flush)

\* The initial context, at the start of a session or of its first turn after a load.
SeedInitialContext ==
    /\ LoopIdle /\ task = "none" /\ ~seeded
    /\ Record(Loop, "context", TRUE)
    /\ seeded' = TRUE
    /\ UNCHANGED <<up, task, snapping, own, event, cut, awaiting, recorderVars, bounds, sent, acked>>

\* spawn_task, and run_turn: the task records the user's input, and may start the
\* ghost snapshot of the turn.
StartTurn ==
    /\ LoopIdle /\ task = "none" /\ seeded
    /\ Record(Task, "user", FALSE)
    /\ task' = "run"
    /\ \/ /\ ghosts < MaxGhosts /\ ~snapping /\ Free(Ghost)
          /\ snapping' = TRUE /\ own' = TRUE /\ ghosts' = ghosts + 1
       \/ UNCHANGED <<snapping, own, ghosts>>
    /\ UNCHANGED <<up, seeded, event, cut, awaiting, recorderVars, tears, restarts, sent,
                   acked>>

RecordReply ==
    /\ up /\ task = "run"
    /\ Record(Task, "reply", FALSE)
    /\ UNCHANGED <<sessionVars, awaiting, recorderVars, bounds, sent, acked>>

\* The snapshot runs beside the turn and may outlive it.
GhostSnapshot ==
    /\ up /\ snapping
    /\ Record(Ghost, "ghost", FALSE)
    /\ snapping' = FALSE
    /\ UNCHANGED <<up, seeded, task, own, event, cut, awaiting, recorderVars, bounds, sent,
                   acked>>

\* drain_to_completed: the summary of a local compaction, in a turn or as a task of
\* its own, is first recorded in the history only.
CompactReply ==
    /\ up /\ (task = "run" \/ (LoopIdle /\ task = "none" /\ seeded))
    /\ Free(Task) /\ count < MaxRecords
    /\ history' = Append(history, Item("reply", count + 1))
    /\ count' = count + 1
    /\ task' = "compact"
    /\ UNCHANGED <<up, seeded, snapping, own, event, cut, todo, awaiting, recorderVars, bounds,
                   sent, acked>>

CompactLocal ==
    /\ up /\ task = "compact"
    /\ LET s == Item("summary", count + 1)
       IN Change(Task, CompactedHistory(history, s) \o GhostsOf(history), "compact", <<s>>,
                 FALSE)
    /\ task' = "run"
    /\ UNCHANGED <<up, seeded, snapping, own, event, cut, awaiting, recorderVars, bounds, sent,
                   acked>>

\* The stream breaks off after the summary and all retries fail: what was recorded
\* stays in the history, and is not in the rollout.
CompactFails ==
    /\ up /\ task = "compact"
    /\ task' = "run" /\ cut' = TRUE
    /\ UNCHANGED <<up, seeded, snapping, own, event, history, todo, awaiting, recorderVars,
                   count, bounds, sent, acked>>

\* The model service compacts: here it returns one item.
CompactRemote ==
    /\ up /\ task = "run"
    /\ LET h == <<Item("summary", count + 1)>> \o GhostsOf(history)
       IN Change(Task, h, "replace", h, FALSE)
    /\ UNCHANGED <<sessionVars, awaiting, recorderVars, bounds, sent, acked>>

\* The task has run: it flushes, and then its turn is over.
FlushTurn ==
    /\ up /\ task = "run" /\ Free(Task)
    /\ task' = "ending"
    /\ todo' = [todo EXCEPT ![Task] = <<Flush(Task)>>]
    /\ UNCHANGED <<up, seeded, snapping, own, event, cut, history, awaiting, recorderVars, count, bounds,
                   sent, acked>>

FinishTurn ==
    /\ up /\ task = "ending" /\ Free(Task)
    /\ task' = "none" /\ own' = FALSE
    /\ UNCHANGED <<up, seeded, snapping, event, cut, history, todo, awaiting, recorderVars,
                   count, bounds, sent, acked>>

\* handle_task_abort: the task is dropped, and with it what it had still to send; so
\* is the snapshot of the turn, wherever it is.
DropTurn(marker) ==
    /\ LoopIdle /\ task # "none"
    /\ cut' = (cut \/ task = "compact" \/ (task = "run" /\ todo[Task] # <<>>))
    /\ task' = "none" /\ own' = FALSE
    /\ snapping' = (snapping /\ ~own)
    /\ \E g \in {todo[Ghost]} \cup (IF own THEN {<<>>} ELSE {}) :
          todo' = [todo EXCEPT ![Task] = <<>>, ![Loop] = marker, ![Ghost] = g]
    /\ awaiting' = [awaiting EXCEPT ![Task] = FALSE]
    /\ UNCHANGED <<up, seeded, recorderVars, bounds, sent, acked>>

\* An interrupted turn: the marker is recorded and flushed before TurnAborted.
AbortTurn ==
    LET i == Item("aborted", count + 1) IN
    /\ count < MaxRecords
    /\ DropTurn(<<Add(Rec("item", count + 1, <<i>>)), Flush(Loop)>>)
    /\ history' = Append(history, i)
    /\ count' = count + 1
    /\ event' = "TurnAborted"

\* A turn that another one replaces leaves no marker, and nobody flushes.
ReplaceTurn ==
    /\ DropTurn(<<>>)
    /\ UNCHANGED <<history, count, event>>

\* session_rollback, while no turn is active.
Rollback(n) ==
    /\ LoopIdle /\ task = "none"
    /\ Change(Loop, DropLastUserTurns(history, n), "rollback", <<n>>, TRUE)
    /\ event' = "SessionRolledBack"
    /\ UNCHANGED <<up, seeded, task, snapping, own, cut, awaiting, recorderVars, bounds, sent, acked>>

\* The event goes to the client, which may read the file at once.
SendEvent ==
    /\ up /\ event # "none" /\ Free(Loop)
    /\ event' = "none"
    /\ UNCHANGED <<up, seeded, task, snapping, own, cut, history, todo, awaiting, recorderVars,
                   count, bounds, sent, acked>>

----------------------------------------------------------------------------
(* RolloutRecorder                                                          *)

\* record_items and flush: a bounded channel.  Without a writer both fail at once,
\* which the session only logs.
\* Mutant: the failure of a flush goes unnoticed, and its caller waits for the answer.
SendIgnoresError(a) ==
    /\ up /\ todo[a] # <<>> /\ ~awaiting[a]
    /\ LET c == Head(todo[a])
       IN /\ writer = "up" => Len(queue) < Capacity
          /\ queue' = IF writer = "up" THEN Append(queue, c) ELSE queue
          /\ sent' = IF writer = "up" THEN sent \cup {c.rec.no} ELSE sent
          /\ awaiting' = [awaiting EXCEPT ![a] = c.type = "flush"]
    /\ todo' = [todo EXCEPT ![a] = Tail(@)]
    /\ UNCHANGED <<sessionVars, history, writer, file, tail, lost, count, bounds, acked>>
Send(a) ==
    /\ up /\ todo[a] # <<>> /\ ~awaiting[a]
    /\ LET c == Head(todo[a])
       IN IF writer = "up"
          THEN /\ Len(queue) < Capacity
               /\ queue' = Append(queue, c)
               /\ sent' = IF c.type = "add" THEN sent \cup {c.rec.no} ELSE sent
               /\ awaiting' = [awaiting EXCEPT ![a] = c.type = "flush"]
          ELSE UNCHANGED <<queue, sent, awaiting>>
    /\ todo' = [todo EXCEPT ![a] = Tail(@)]
    /\ UNCHANGED <<sessionVars, history, writer, file, tail, lost, count, bounds, acked>>

Writing == up /\ writer = "up" /\ queue # <<>> /\ Head(queue).type = "add"

\* write_line: the line goes to the end of the file, also when that is not the end of
\* a line.
WriteLine ==
    /\ Writing
    /\ LET r    == Head(queue).rec
           last == file[Len(file)]
       IN /\ file' = CASE tail = "line" -> Append(file, r)
                       [] tail = "torn" -> file
                       [] tail = "open" -> [file EXCEPT ![Len(file)] = Garbled]
          /\ lost' = CASE tail = "line" -> lost
                       [] tail = "torn" -> lost \cup {r.no}
                       [] tail = "open" -> lost \cup {r.no, last.no}
    /\ tail' = "line"
    /\ queue' = Tail(queue)
    /\ UNCHANGED <<sessionVars, history, todo, awaiting, writer, count, bounds, sent, acked>>

\* A flush is acknowledged.  Each line was flushed when it was written, so there is
\* nothing left that this flush could fail to write.
AckFlush ==
    /\ up /\ writer = "up" /\ queue # <<>> /\ Head(queue).type = "flush"
    /\ awaiting' = [awaiting EXCEPT ![Head(queue).by] = FALSE]
    /\ acked' = acked \cup (sent \ {queue[i].rec.no : i \in DOMAIN queue})
    /\ queue' = Tail(queue)
    /\ UNCHANGED <<sessionVars, history, todo, writer, file, tail, lost, count, bounds, sent>>

\* A write that is cut short.
Torn ==
    /\ tears < MaxTears
    /\ tears' = tears + 1
    /\ \/ /\ tail' = "torn"
          /\ file' = CASE tail = "line" -> Append(file, Garbled)
                       [] tail = "torn" -> file
                       [] tail = "open" -> [file EXCEPT ![Len(file)] = Garbled]
       \/ /\ tail = "line" /\ tail' = "open"
          /\ file' = Append(file, Head(queue).rec)

\* A failed write ends the writer: the channel is closed, and a flush in it fails.
\* Mutant: the writer goes on with the next command.
WriteFailsOn ==
    /\ Writing
    /\ Torn
    /\ queue' = Tail(queue)
    /\ UNCHANGED <<sessionVars, history, todo, awaiting, writer, count, ghosts, restarts,
                   lost, sent, acked>>
WriteFails ==
    /\ Writing
    /\ Torn
    /\ writer' = "dead" /\ queue' = <<>>
    /\ awaiting' = [a \in Actors |-> FALSE]
    /\ UNCHANGED <<sessionVars, history, todo, count, ghosts, restarts, lost, sent, acked>>

\* The process dies, in a write or not.
Crash ==
    /\ up /\ restarts < MaxRestarts
    /\ restarts' = restarts + 1
    /\ (Writing /\ Torn) \/ UNCHANGED <<file, tail, tears>>
    /\ up' = FALSE /\ task' = "none" /\ event' = "none" /\ history' = <<>>
    /\ snapping' = FALSE /\ own' = FALSE
    /\ seeded' = FALSE /\ cut' = FALSE
    /\ todo' = [a \in Actors |-> <<>>] /\ awaiting' = [a \in Actors |-> FALSE]
    /\ queue' = <<>> /\ writer' = "dead"
    /\ UNCHANGED <<count, ghosts, lost, sent, acked>>

\* load_rollout_items: lines that do not parse are skipped, and without the session's
\* id there is nothing to resume; record_initial_history.
Parsed(lines) == Only(lines, {r \in Range(lines) : r.type # "garbled"})

Resume ==
    /\ ~up
    /\ \E i \in DOMAIN file : file[i].type = "meta"
    /\ up' = TRUE /\ writer' = "up"
    /\ history' = Reconstruct(Parsed(file))
    /\ lost' = {} /\ sent' = {}
    /\ UNCHANGED <<seeded, task, snapping, own, event, cut, todo, awaiting, queue, file, tail, count,
                   bounds, acked>>

----------------------------------------------------------------------------
WriterStep == WriteLine \/ AckFlush

SessionStep ==
    \/ SeedInitialContext \/ StartTurn \/ RecordReply \/ GhostSnapshot
    \/ CompactReply \/ CompactLocal \/ CompactFails \/ CompactRemote
    \/ FlushTurn \/ FinishTurn \/ AbortTurn \/ ReplaceTurn \/ SendEvent
    \/ \E n \in 1..MaxTurns : Rollback(n)
    \/ \E a \in Actors : Send(a)

Next == SessionStep \/ WriterStep \/ WriteFails \/ Crash \/ Resume

Spec == Init /\ [][Next]_vars /\ WF_vars(WriterStep)

----------------------------------------------------------------------------
(* Properties                                                               *)

TypeOK ==
    /\ {up, seeded, cut, snapping, own} \subseteq BOOLEAN
    /\ task \in {"none", "run", "compact", "ending"}
    /\ event \in {"none", "TurnAborted", "SessionRolledBack"}
    /\ awaiting \in [Actors -> BOOLEAN]
    /\ Len(queue) <= Capacity
    /\ writer \in {"up", "dead"} /\ tail \in {"line", "torn", "open"}
    /\ count \in 0..MaxRecords
    /\ tears \in 0..MaxTears /\ restarts \in 0..MaxRestarts
    /\ lost \cup sent \cup acked \subseteq 0..MaxRecords

NoGhosts(h) == Only(h, Items(Kinds \ {"ghost"}))

\* When a client gets TurnAborted or SessionRolledBack, and whenever everything has
\* been written, the file gives the history that the session has in memory, ghost
\* snapshots aside: whatever the order of turns, compactions, rollbacks and restarts.
\* Excepted are a writer that failed, a line that ran into a torn one, an abort between
\* the change of the history and that of the queue, and a local compaction: while it
\* runs, and for good if it fails or is aborted, its answer is in the history only.
ReplayMatches ==
    /\ up /\ writer = "up" /\ lost = {} /\ ~cut /\ task # "compact"
    /\ \/ event # "none" /\ Free(Loop)
       \/ queue = <<>> /\ \A a \in Actors : Free(a)
    => NoGhosts(Reconstruct(Parsed(file))) = NoGhosts(history)

\* What lies behind an acknowledged flush can be read back, but for one item for each
\* torn write: the first line after it.
AckedSurvives ==
    Cardinality(acked \ {file[i].no : i \in {j \in DOMAIN file : file[j].type # "garbled"}})
        <= tears

\* A flush is acknowledged or fails: neither a turn nor the submission loop waits for
\* a writer that is gone.
FlushReturns == \A a \in Actors : awaiting[a] ~> ~awaiting[a]
=============================================================================
