------------------------------ MODULE NativeReply ------------------------------
(***************************************************************************)
(* The native public reply of the Arkret channel: the durable ledger that  *)
(* decides whether the model may be called for a message                   *)
(* (gateway-server/src/arkret_delivery.rs), the inbox consumer that drives *)
(* one reply through it (channels/arkret/native_reply/factory.rs), the     *)
(* guarded transport of the model request (guarded_transport.rs) and the   *)
(* configuration owner that opens a lane (native_save_onboarding).         *)
(*                                                                         *)
(* One Agent and controller, one lane: the positions of one commit stream. *)
(* Every ledger operation is one transaction under a file lock, so one     *)
(* atomic step.  It runs on a blocking thread that an abort of its caller  *)
(* does not stop: such an orphan applies later, or never.  A crash ends    *)
(* the orphans and may bring another model configuration, which is part of *)
(* every input digest.  The outbound queue and the Station are external;   *)
(* the Station commits a frozen event at most once.                        *)
(*                                                                         *)
(* Left out: native_mark_unknown (no caller), MLS state and signatures.    *)
(***************************************************************************)
EXTENDS Naturals, Sequences

CONSTANTS Intents,    \* digests of the shared configurations an owner saves
          Configs,    \* model configurations
          MaxPos,     \* bound: length of the stream
          MaxFaults,  \* bound: interruptions of the consumer and crashes
          MaxAuthor,  \* bound: events authored for one message
          None        \* no configuration

ASSUME NativeReplyAssumption ==
    /\ {MaxPos, MaxFaults, MaxAuthor} \subseteq Nat
    /\ MaxPos >= 1
    /\ Configs # {}
    /\ None \notin Configs

Positions == 1..MaxPos
Events    == Positions \X (1..MaxAuthor)

VARIABLES
    stream,   \* the commit stream: stream[p] iff p is a live mention of the Agent
    first,    \* the receipt of the first configuration is retained
    cutoff,   \* cutoff[i]: the cutoff in the receipt of intent i, 0 without one
    water,    \* high_water of the lane, 0 when it is not initialized
    ledger,   \* ledger[p]: the NativeReplyEntry of the message at p
    saving,   \* saving[i]: where a Save of intent i is: idle, resumed, or read
    head,     \* head[i]: the stream head that Save read
    config,   \* NativeReceiver.config, fixed for the life of the process
    pc,       \* where the consumer is with the message at its inbox head
    text,     \* the attempt it holds, and later the text that answered it
    event,    \* the frozen event it holds
    verdict,  \* how reply() settled the message
    orphans,  \* transactions whose caller is gone
    seen,     \* remembered events
    acked,    \* deliveries acknowledged
    outcome,  \* outcome[p]: the verdict under which p was remembered
    queue,    \* the durable outbound queue
    station,  \* events the Station committed
    sends,    \* sends[p]: model requests made for p
    authored, \* authored[p]: events authored for p
    faults    \* interruptions and crashes so far

ledgerVars   == <<first, cutoff, water, ledger>>
ownerVars    == <<saving, head>>
consumerVars == <<pc, text, event, verdict>>
inboxVars    == <<seen, acked, outcome>>
outVars      == <<queue, station>>
countVars    == <<sends, authored>>
vars == <<stream, ledgerVars, ownerVars, config, consumerVars, orphans,
          inboxVars, outVars, countVars, faults>>

NoEntry == [state |-> "none", input |-> None, attempt |-> 0, output |-> 0, sub |-> 0,
            accepted |-> 0]

States   == {"none", "ready", "started", "unknown", "output", "accepted"}
Verdicts == {"none", "skipped", "suppressed", "unknown", "accepted"}
\* The positions in which the consumer waits for a ledger transaction.
TxPcs    == {"prepare", "claim", "retain", "freeze", "accept"}
Pcs      == TxPcs \cup {"idle", "send", "stream", "author", "enqueue", "drain", "settle", "ack"}

Init ==
    /\ stream = <<FALSE>>
    /\ first = FALSE
    /\ cutoff = [i \in Intents |-> 0]
    /\ water = 0
    /\ ledger = [p \in Positions |-> NoEntry]
    /\ saving = [i \in Intents |-> "idle"]
    /\ head = [i \in Intents |-> 0]
    /\ config \in Configs
    /\ pc = "idle" /\ text = 0 /\ event = 0 /\ verdict = "none"
    /\ orphans = {}
    /\ seen = {} /\ acked = 0
    /\ outcome = [p \in Positions |-> "none"]
    /\ queue = [e \in Events |-> "absent"]
    /\ station = {}
    /\ sends = [p \in Positions |-> 0]
    /\ authored = [p \in Positions |-> 0]
    /\ faults = 0

----------------------------------------------------------------------------
(* The ledger transactions: CanX is what X ensures, X what it writes.       *)

Receipts == {i \in Intents : cutoff[i] # 0}

\* Mutant: the newest cutoff suppresses, not the first.
BehindAnyCutoff(p) == \E i \in Receipts : p <= cutoff[i]

\* native_prepare: p is at or below the least cutoff of the lane.
BehindCutoff(p) == \A i \in Receipts : p <= cutoff[i]

\* entry_mut: the entry exists and binds the same input digest.
Bound(p, c) == ledger[p].state # "none" /\ ledger[p].input = c

Put(p, e) == ledger' = [ledger EXCEPT ![p] = e]

CanPrepare(p, c) ==
    /\ Receipts # {}
    /\ \/ BehindCutoff(p)
       \/ ledger[p].state = "none" /\ p > water
       \/ Bound(p, c)

\* Mutant: the watermark is not moved.
PrepareKeepsWater(p, c) ==
    /\ CanPrepare(p, c)
    /\ IF BehindCutoff(p) \/ ledger[p].state # "none"
         THEN UNCHANGED <<water, ledger>>
         ELSE /\ Put(p, [NoEntry EXCEPT !.state = "ready", !.input = c])
              /\ UNCHANGED water

NativePrepare(p, c) ==
    /\ CanPrepare(p, c)
    /\ IF BehindCutoff(p) \/ ledger[p].state # "none"
         THEN UNCHANGED <<water, ledger>>
         ELSE /\ Put(p, [NoEntry EXCEPT !.state = "ready", !.input = c])
              /\ water' = p

\* Mutant: an attempt whose outcome is unknown may be made again.
CanReclaim(p, c) == Bound(p, c) /\ ledger[p].state \in {"ready", "unknown"}

CanClaim(p, c) == Bound(p, c) /\ ledger[p].state = "ready"

\* A fresh attempt is told from every earlier one.
NativeClaimHandoff(p, c) ==
    /\ CanClaim(p, c)
    /\ Put(p, [ledger[p] EXCEPT !.state = "started", !.attempt = @ + 1])
    /\ UNCHANGED water

CanRetainOutput(p, c, t) ==
    /\ Bound(p, c)
    /\ ledger[p].attempt = t
    /\ \/ ledger[p].output = t
       \/ ledger[p].output = 0 /\ ledger[p].state \in {"started", "unknown"}

\* The text of an attempt is named by the attempt.
NativeRetainOutput(p, c, t) ==
    /\ CanRetainOutput(p, c, t)
    /\ IF ledger[p].output = t
         THEN UNCHANGED ledger
         ELSE Put(p, [ledger[p] EXCEPT !.state = "output", !.output = t])
    /\ UNCHANGED water

\* Mutant: the last signature wins.
CanReplaceSubmission(p, c, t, n) ==
    Bound(p, c) /\ ledger[p].output = t /\ ledger[p].state = "output"

CanRetainSubmission(p, c, t, n) ==
    /\ Bound(p, c)
    /\ ledger[p].output = t
    /\ \/ ledger[p].sub = n
       \/ ledger[p].sub = 0 /\ ledger[p].state = "output"

NativeRetainSubmission(p, c, t, n) ==
    /\ CanRetainSubmission(p, c, t, n)
    /\ Put(p, [ledger[p] EXCEPT !.sub = n])
    /\ UNCHANGED water

CanMarkAccepted(p, c, n) ==
    /\ Bound(p, c)
    /\ ledger[p].sub = n
    /\ \/ ledger[p].accepted = n
       \/ ledger[p].accepted = 0 /\ ledger[p].state = "output"

NativeMarkAccepted(p, c, n) ==
    /\ CanMarkAccepted(p, c, n)
    /\ Put(p, [ledger[p] EXCEPT !.state = "accepted", !.accepted = n])
    /\ UNCHANGED water

\* A transaction a caller has handed to the blocking thread.
Transactions == [op : TxPcs, p : Positions, input : Configs, text : Nat, event : 0..MaxAuthor]

CanCommit(tx) ==
    CASE tx.op = "prepare" -> CanPrepare(tx.p, tx.input)
      [] tx.op = "claim"   -> CanClaim(tx.p, tx.input)
      [] tx.op = "retain"  -> CanRetainOutput(tx.p, tx.input, tx.text)
      [] tx.op = "freeze"  -> CanRetainSubmission(tx.p, tx.input, tx.text, tx.event)
      [] tx.op = "accept"  -> CanMarkAccepted(tx.p, tx.input, tx.event)

Commit(tx) ==
    CASE tx.op = "prepare" -> NativePrepare(tx.p, tx.input)
      [] tx.op = "claim"   -> NativeClaimHandoff(tx.p, tx.input)
      [] tx.op = "retain"  -> NativeRetainOutput(tx.p, tx.input, tx.text)
      [] tx.op = "freeze"  -> NativeRetainSubmission(tx.p, tx.input, tx.text, tx.event)
      [] tx.op = "accept"  -> NativeMarkAccepted(tx.p, tx.input, tx.event)

----------------------------------------------------------------------------
(* The configuration owner.                                                 *)

\* The first Save of an Agent: native_initialize_first_config.
FirstConfig ==
    /\ ~first
    /\ first' = TRUE
    /\ UNCHANGED <<stream, cutoff, water, ledger, ownerVars, config, consumerVars, orphans,
                   inboxVars, outVars, countVars, faults>>

\* Mutant: a started handoff is made ready again.
SaveResumeReady(i) ==
    /\ first
    /\ saving[i] = "idle"
    /\ saving' = [saving EXCEPT ![i] = "resumed"]
    /\ ledger' = [p \in Positions |-> IF ledger[p].state = "started"
                                        THEN [ledger[p] EXCEPT !.state = "ready"]
                                        ELSE ledger[p]]
    /\ UNCHANGED <<stream, first, cutoff, water, head, config, consumerVars, orphans,
                   inboxVars, outVars, countVars, faults>>

\* A later Save first turns every started handoff into an unknown one:
\* native_resume_required_existing.
SaveResume(i) ==
    /\ first
    /\ saving[i] = "idle"
    /\ saving' = [saving EXCEPT ![i] = "resumed"]
    /\ ledger' = [p \in Positions |-> IF ledger[p].state = "started"
                                        THEN [ledger[p] EXCEPT !.state = "unknown"]
                                        ELSE ledger[p]]
    /\ UNCHANGED <<stream, first, cutoff, water, head, config, consumerVars, orphans,
                   inboxVars, outVars, countVars, faults>>

\* A retained receipt of the intent ends the Save; otherwise the heads are
\* read from the Station, and may be stale when the batch is written.
ReadHeads(i) ==
    /\ saving[i] = "resumed"
    /\ IF cutoff[i] # 0
         THEN saving' = [saving EXCEPT ![i] = "idle"] /\ UNCHANGED head
         ELSE /\ saving' = [saving EXCEPT ![i] = "read"]
              /\ head' = [head EXCEPT ![i] = Len(stream)]
    /\ UNCHANGED <<stream, ledgerVars, config, consumerVars, orphans, inboxVars, outVars,
                   countVars, faults>>

\* Mutant: a fresh head resets the watermark of an existing lane.
BatchResetsWater(i) ==
    /\ saving[i] = "read"
    /\ saving' = [saving EXCEPT ![i] = "idle"]
    /\ head' = [head EXCEPT ![i] = 0]
    /\ cutoff[i] = 0
    /\ water' = head[i]
    /\ cutoff' = [cutoff EXCEPT ![i] = water']
    /\ UNCHANGED <<stream, first, ledger, config, consumerVars, orphans, inboxVars, outVars,
                   countVars, faults>>

\* native_initialize_batch: the head opens a new lane, an existing lane keeps
\* its watermark.  A receipt retained meanwhile is returned as it is.
InitializeBatch(i) ==
    /\ saving[i] = "read"
    /\ saving' = [saving EXCEPT ![i] = "idle"]
    /\ head' = [head EXCEPT ![i] = 0]
    /\ IF cutoff[i] # 0
         THEN UNCHANGED <<water, cutoff>>
         ELSE /\ water' = IF water = 0 THEN head[i] ELSE water
              /\ cutoff' = [cutoff EXCEPT ![i] = water']
    /\ UNCHANGED <<stream, first, ledger, config, consumerVars, orphans, inboxVars, outVars,
                   countVars, faults>>

----------------------------------------------------------------------------
(* The consumer.                                                            *)

Current == acked + 1

\* What the consumer would hand to the blocking thread now.
Pending == [op |-> pc, p |-> Current, input |-> config, text |-> text, event |-> event]

Goto(l) == pc' = l /\ UNCHANGED <<text, event, verdict>>

\* reply() returns Ok: the message is settled under verdict v.
Settle(v) == pc' = "settle" /\ verdict' = v /\ UNCHANGED <<text, event>>

\* An error of reply() leaves the delivery in the inbox, to be tried again.
GiveUp == pc' = "idle" /\ text' = 0 /\ event' = 0 /\ verdict' = "none"

\* Mutant: the remembered events are not looked at.
TakeForgets ==
    /\ pc = "idle"
    /\ acked < Len(stream)
    /\ IF stream[Current] THEN Goto("prepare") ELSE Settle("skipped")
    /\ UNCHANGED <<stream, ledgerVars, ownerVars, config, orphans, inboxVars, outVars,
                   countVars, faults>>

\* process_inbox and accept_client_event, up to the call of reply().
Take ==
    /\ pc = "idle"
    /\ acked < Len(stream)
    /\ IF Current \in seen THEN Goto("ack")
       ELSE IF stream[Current] THEN Goto("prepare")
       ELSE Settle("skipped")
    /\ UNCHANGED <<stream, ledgerVars, ownerVars, config, orphans, inboxVars, outVars,
                   countVars, faults>>

\* Mutant: an unknown attempt is left for a later retry instead of settled.
ResumeWaits(e) ==
    CASE e.state = "ready"    -> Goto("claim")
      [] e.state = "accepted" -> Settle("accepted")
      [] e.state = "output"   ->
            /\ text' = e.output /\ event' = e.sub
            /\ pc' = IF e.sub = 0 THEN "author" ELSE "enqueue"
            /\ UNCHANGED verdict
      [] OTHER                -> GiveUp

\* What reply() does next, by the state of the entry it has prepared.
Resume(e) ==
    CASE e.state = "ready"    -> Goto("claim")
      [] e.state = "accepted" -> Settle("accepted")
      [] e.state = "output"   ->
            /\ text' = e.output /\ event' = e.sub
            /\ pc' = IF e.sub = 0 THEN "author" ELSE "enqueue"
            /\ UNCHANGED verdict
      [] OTHER                -> Settle("unknown")

Prepare ==
    /\ pc = "prepare"
    /\ NativePrepare(Current, config)
    /\ IF BehindCutoff(Current) THEN Settle("suppressed") ELSE Resume(ledger'[Current])
    /\ UNCHANGED <<stream, first, cutoff, ownerVars, config, orphans, inboxVars, outVars,
                   countVars, faults>>

\* stream(): the claim is made under the host's reply cut, and only a
\* committed claim hands out the attempt.
Claim ==
    /\ pc = "claim"
    /\ NativeClaimHandoff(Current, config)
    /\ pc' = "send" /\ text' = ledger'[Current].attempt
    /\ UNCHANGED <<stream, first, cutoff, ownerVars, config, event, verdict, orphans, inboxVars,
                   outVars, countVars, faults>>

Send ==
    /\ pc = "send"
    /\ sends' = [sends EXCEPT ![Current] = @ + 1]
    /\ Goto("stream")
    /\ UNCHANGED <<stream, ledgerVars, ownerVars, config, orphans, inboxVars, outVars, authored,
                   faults>>

\* The response completes with a nonempty, bounded text.
Complete ==
    /\ pc = "stream"
    /\ Goto("retain")
    /\ UNCHANGED <<stream, ledgerVars, ownerVars, config, orphans, inboxVars, outVars, countVars,
                   faults>>

\* The cut is denied, or the response fails, times out or does not complete.
Denied ==
    /\ pc \in {"claim", "send", "stream", "retain"}
    /\ GiveUp
    /\ UNCHANGED <<stream, ledgerVars, ownerVars, config, orphans, inboxVars, outVars, countVars,
                   faults>>

RetainOutput ==
    /\ pc = "retain"
    /\ NativeRetainOutput(Current, config, text)
    /\ Goto("author")
    /\ UNCHANGED <<stream, first, cutoff, ownerVars, config, orphans, inboxVars, outVars,
                   countVars, faults>>

\* Every authoring makes a new event: it is encrypted and signed again.
Author ==
    /\ pc = "author"
    /\ authored[Current] < MaxAuthor
    /\ authored' = [authored EXCEPT ![Current] = @ + 1]
    /\ event' = authored'[Current]
    /\ pc' = "freeze"
    /\ UNCHANGED <<stream, ledgerVars, ownerVars, config, text, verdict, orphans, inboxVars,
                   outVars, sends, faults>>

RetainSubmission ==
    /\ pc = "freeze"
    /\ NativeRetainSubmission(Current, config, text, event)
    /\ Goto("enqueue")
    /\ UNCHANGED <<stream, first, cutoff, ownerVars, config, orphans, inboxVars, outVars,
                   countVars, faults>>

\* The queue keeps an event it already has, with its status.  The event is
\* not queued when it no longer matches the runtime's key or encryption.
Enqueue ==
    /\ pc = "enqueue"
    /\ \/ /\ queue' = [queue EXCEPT ![<<Current, event>>] = IF @ = "absent" THEN "queued" ELSE @]
          /\ Goto("drain")
       \/ UNCHANGED queue /\ GiveUp
    /\ UNCHANGED <<stream, ledgerVars, ownerVars, config, orphans, inboxVars, station, countVars,
                   faults>>

\* drain_pending_account_outbound, for one event: the Station commits it and
\* the answer arrives or is lost, or it is refused or cancelled locally.
Submit(e) ==
    /\ pc \in {"idle", "drain"}
    /\ queue[e] = "queued"
    /\ \/ station' = station \cup {e} /\ queue' = [queue EXCEPT ![e] = "committed"]
       \/ e \notin station /\ station' = station \cup {e} /\ UNCHANGED queue
       \/ queue' = [queue EXCEPT ![e] = "refused"] /\ UNCHANGED station
    /\ UNCHANGED <<stream, ledgerVars, ownerVars, config, consumerVars, orphans, inboxVars,
                   countVars, faults>>

\* The end of the drain: only a committed event is marked accepted.
Drained ==
    /\ pc = "drain"
    /\ IF queue[<<Current, event>>] = "committed" THEN Goto("accept") ELSE GiveUp
    /\ UNCHANGED <<stream, ledgerVars, ownerVars, config, orphans, inboxVars, outVars, countVars,
                   faults>>

MarkAccepted ==
    /\ pc = "accept"
    /\ NativeMarkAccepted(Current, config, event)
    /\ Settle("accepted")
    /\ UNCHANGED <<stream, first, cutoff, ownerVars, config, orphans, inboxVars, outVars,
                   countVars, faults>>

\* A transaction that refuses fails reply().
Reject ==
    /\ pc \in TxPcs
    /\ ~CanCommit(Pending)
    /\ GiveUp
    /\ UNCHANGED <<stream, ledgerVars, ownerVars, config, orphans, inboxVars, outVars, countVars,
                   faults>>

\* remember_account_event, and then the acknowledgement of the delivery.
Remember ==
    /\ pc = "settle"
    /\ seen' = seen \cup {Current}
    /\ outcome' = [outcome EXCEPT ![Current] = verdict]
    /\ Goto("ack")
    /\ UNCHANGED <<stream, ledgerVars, ownerVars, config, orphans, acked, outVars, countVars,
                   faults>>

Ack ==
    /\ pc = "ack"
    /\ acked' = acked + 1
    /\ GiveUp
    /\ UNCHANGED <<stream, ledgerVars, ownerVars, config, orphans, seen, outcome, outVars,
                   countVars, faults>>

ConsumerStep ==
    \/ Take \/ Prepare \/ Claim \/ Send \/ Complete \/ Denied \/ RetainOutput \/ Author
    \/ RetainSubmission \/ Enqueue \/ Drained \/ MarkAccepted \/ Reject \/ Remember \/ Ack

----------------------------------------------------------------------------
(* Faults and the environment.                                              *)

\* Another message is committed to the stream.
Post(mention) ==
    /\ Len(stream) < MaxPos
    /\ stream' = Append(stream, mention)
    /\ UNCHANGED <<ledgerVars, ownerVars, config, consumerVars, orphans, inboxVars, outVars,
                   countVars, faults>>

\* The consumer fails or is aborted by a change of the account; a transaction
\* it waits for may go on without it.
Interrupt ==
    /\ faults < MaxFaults
    /\ pc # "idle"
    /\ faults' = faults + 1
    /\ GiveUp
    /\ \/ UNCHANGED orphans
       \/ pc \in TxPcs /\ orphans' = orphans \cup {Pending}
    /\ UNCHANGED <<stream, ledgerVars, ownerVars, config, inboxVars, outVars, countVars>>

Orphan(tx) ==
    /\ orphans' = orphans \ {tx}
    /\ IF CanCommit(tx) THEN Commit(tx) ELSE UNCHANGED <<water, ledger>>
    /\ UNCHANGED <<stream, first, cutoff, ownerVars, config, consumerVars, inboxVars, outVars,
                   countVars, faults>>

\* The process dies and starts again, perhaps with another configuration.
Crash ==
    /\ faults < MaxFaults
    /\ faults' = faults + 1
    /\ config' \in Configs
    /\ GiveUp
    /\ orphans' = {}
    /\ saving' = [i \in Intents |-> "idle"]
    /\ head' = [i \in Intents |-> 0]
    /\ UNCHANGED <<stream, ledgerVars, inboxVars, outVars, countVars>>

Next ==
    \/ ConsumerStep
    \/ FirstConfig
    \/ \E i \in Intents : SaveResume(i) \/ ReadHeads(i) \/ InitializeBatch(i)
    \/ \E e \in Events : Submit(e)
    \/ \E mention \in BOOLEAN : Post(mention)
    \/ \E tx \in orphans : Orphan(tx)
    \/ Interrupt
    \/ Crash

\* The consumer's task is polled again after every await it makes; nothing is
\* assumed of the owner, the Station, or the answers of the provider.
Spec == Init /\ [][Next]_vars /\ WF_vars(ConsumerStep)

----------------------------------------------------------------------------
(* Properties.                                                              *)

TypeOK ==
    /\ stream \in Seq(BOOLEAN) /\ Len(stream) \in Positions
    /\ first \in BOOLEAN
    /\ cutoff \in [Intents -> 0..MaxPos]
    /\ water \in 0..MaxPos
    /\ ledger \in [Positions -> [state : States, input : Configs \cup {None}, attempt : Nat,
                                 output : Nat, sub : 0..MaxAuthor, accepted : 0..MaxAuthor]]
    /\ saving \in [Intents -> {"idle", "resumed", "read"}]
    /\ head \in [Intents -> 0..MaxPos]
    /\ config \in Configs
    /\ pc \in Pcs /\ text \in Nat /\ event \in 0..MaxAuthor /\ verdict \in Verdicts
    /\ orphans \subseteq Transactions
    /\ seen \subseteq Positions /\ acked \in 0..MaxPos
    /\ outcome \in [Positions -> Verdicts]
    /\ queue \in [Events -> {"absent", "queued", "committed", "refused"}]
    /\ station \subseteq Events
    /\ sends \in [Positions -> Nat]
    /\ authored \in [Positions -> 0..MaxAuthor]
    /\ faults \in 0..MaxFaults

\* An entry is complete for its state: attempt, output, submission and receipt
\* are there exactly when the state says so.
EntryComplete(e) ==
    /\ e.attempt # 0 <=> e.state # "ready"
    /\ e.output # 0 <=> e.state \in {"output", "accepted"}
    /\ e.sub # 0 => e.state \in {"output", "accepted"}
    /\ e.accepted # 0 <=> e.state = "accepted"
    /\ e.accepted # 0 => e.accepted = e.sub

\* NativeReplyLedger::validate, which runs before and after every transaction:
\* no order of transactions, orphaned ones included, leads to a ledger it
\* refuses, after which no reply could ever be made.
LedgerValid ==
    /\ Receipts # {} => first
    /\ Receipts # {} <=> water # 0
    /\ \A i \in Receipts : water >= cutoff[i]
    /\ \A p \in Positions : ledger[p].state # "none" =>
          /\ Receipts # {} /\ water >= p
          /\ EntryComplete(ledger[p])

\* native_claim_handoff and the guarded transport: whatever is aborted,
\* crashes, or is applied late, the model is asked at most once for a message.
AtMostOneSend == \A p \in Positions : sends[p] <= 1

\* native_retain_submission before the enqueue: what the Station committed for
\* a message is the one event its ledger entry retains, so no message gets two
\* replies although an interrupted reply is authored again.
ReplyIsRetained == \A e \in station : ledger[e[1]].sub = e[2]

\* The watermark against the inbox: a message that is not settled yet and not
\* behind the cutoff either has its entry or is above the watermark, so that
\* native_prepare never refuses it as stale.
NoLiveInputIsStale ==
    \A p \in Positions : (p > acked /\ p \notin seen /\ Receipts # {} /\ ~BehindCutoff(p))
        => (ledger[p].state # "none" \/ p > water)

\* What reply() settles a message as is what happened: accepted when the
\* Station has the reply, suppressed when nothing was ever started for it,
\* unknown when a request may have been made.
SettledTruthfully ==
    \A p \in Positions :
        /\ outcome[p] = "accepted"   => <<p, ledger[p].accepted>> \in station
        /\ outcome[p] = "suppressed" => ledger[p].state = "none" /\ sends[p] = 0
        /\ outcome[p] = "unknown"    => ledger[p].attempt # 0

\* What the ledger retains it retains for good: input, attempt, output, signed
\* event and receipt of an entry never change once they are set.
RetainedNeverChanges ==
    [][\A p \in Positions :
          /\ ledger[p].state # "none" => ledger'[p].input = ledger[p].input
          /\ \A f \in {"attempt", "output", "sub", "accepted"} :
                ledger[p][f] # 0 => ledger'[p][f] = ledger[p][f]]_vars

\* "Settle this input locally ... so newer inputs are not starved": a message
\* whose handoff was started does not hold up the lane for ever, unless the
\* model configuration is another one than it was prepared under.
UnknownSettles ==
    \A p \in Positions :
        ledger[p].state \in {"started", "unknown"}
            ~> (p <= acked \/ ledger[p].state = "output" \/ config # ledger[p].input)
----------------------------------------------------------------------------
(* The contract: ReplyContract.                                             *)

Asked   == {p \in Positions : sends[p] # 0}
Replied == {e[1] : e \in station}

Contract == INSTANCE ReplyContract
                WITH asked <- Asked, replied <- Replied, verdict <- outcome

\* Each message is handled as ReplyContract says, whatever is interrupted, crashes,
\* is saved or committed late: a reply answers a request that was made for a mention,
\* and nothing that outlives the verdict of a message, a transaction or a queued
\* event, still makes a request or a reply of it.
ImplementsReplies == Contract!Spec
=============================================================================
