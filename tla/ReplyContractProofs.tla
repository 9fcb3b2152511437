-------------------------- MODULE ReplyContractProofs --------------------------
(***************************************************************************)
(* NativeReply implements ReplyContract: for a stream of any length, any   *)
(* number of saved and of model configurations, faults and authored        *)
(* events.                                                                 *)
(*                                                                         *)
(* The contract promises more than the ledger keeps: that a reply answers  *)
(* a request for a mention, and that nothing is done for a message after   *)
(* its verdict.  Transactions that are committed late and events that are  *)
(* still queued make this hard.  The invariant says that they belong to    *)
(* messages that were taken, in the case of an output to one that was      *)
(* asked about, and that what is queued for a settled message has been     *)
(* committed.                                                              *)
(***************************************************************************)
EXTENDS NativeReplyProofs

\* reply() is at work on the current message.
Taking == pc \in Pcs \ {"idle", "settle", "ack"}

\* Entries and transactions are about mentions the consumer has come to.
MentionInv ==
    /\ \A p \in Positions : ledger[p].state # "none" => p <= Current /\ p <= Len(stream) /\ stream[p]
    /\ \A tx \in orphans : tx.p <= Len(stream) /\ stream[tx.p]
    /\ Taking => stream[Current]
    /\ pc = "settle" => IF verdict = "skipped" THEN ~stream[Current] ELSE stream[Current]

\* The messages before the current one are settled, those behind it are not.
SeenInv ==
    /\ \A p \in Positions : outcome[p] # "none" <=> p \in seen
    /\ \A p \in Positions : p <= acked => p \in seen
    /\ \A p \in seen : p <= Current /\ p <= Len(stream)
    /\ Taking \/ pc = "settle" => Current \notin seen
    /\ pc = "ack" => Current \in seen
    /\ pc = "settle" => verdict # "none"

\* An output is the answer to a request.
AskedInv ==
    /\ \A p \in Positions : ledger[p].output # 0 => sends[p] # 0
    /\ pc \in {"stream", "retain"} => sends[Current] # 0
    /\ \A tx \in orphans : tx.op = "retain" => sends[tx.p] # 0

Unsent(p) == \A e \in Events : e[1] = p => queue[e] = "absent"

\* Nothing was sent for a message that is settled without a reply.
FinalInv ==
    /\ \A e \in station : queue[e] # "absent"
    /\ \A p \in seen : outcome[p] # "accepted" => Unsent(p)
    /\ pc = "settle" /\ verdict # "accepted" => Unsent(Current)

\* The inductive invariant, beside ReplyInv.
ContractInv ==
    /\ MentionInv
    /\ SeenInv
    /\ AskedInv
    /\ FinalInv

(***************************************************************************)
(* The ledger                                                              *)
(***************************************************************************)

\* A transaction of this kind may be committed for p now.
Touching(p, op) ==
    \/ pc = op /\ p = Current
    \/ \E tx \in orphans : tx.op = op /\ tx.p = p

\* Only native_prepare makes an entry, and only native_retain_output gives it an output.
LedgerMoves ==
    \A p \in Positions :
        /\ ledger'[p].state # "none" => ledger[p].state # "none" \/ Touching(p, "prepare")
        /\ ledger'[p].output # 0 => ledger[p].output # 0 \/ Touching(p, "retain")

\* An entry that is replaced by one that was there and has its output, if any.
LEMMA PutMoves ==
    ASSUME LedgerInv, NEW p \in Positions, NEW new, ledger' = [ledger EXCEPT ![p] = new],
           new.state # "none" => ledger[p].state # "none" \/ Touching(p, "prepare"),
           new.output # 0 => ledger[p].output # 0 \/ Touching(p, "retain")
    PROVE  LedgerMoves
<1>1. ledger'[p] = new /\ \A q \in Positions \ {p} : ledger'[q] = ledger[q]
  BY DEF LedgerInv, LedgerType
<1> QED
  BY <1>1 DEF LedgerMoves

\* native_prepare.
LEMMA PrepareMoves ==
    ASSUME LedgerInv, NEW p \in Positions, NEW c, NativePrepare(p, c), Touching(p, "prepare")
    PROVE  LedgerMoves
<1>1. CASE UNCHANGED ledger
  BY <1>1 DEF LedgerMoves
<1>2. CASE ledger' # ledger
  <2>1. PICK new : /\ new = [NoEntry EXCEPT !.state = "ready", !.input = c]
                   /\ ledger' = [ledger EXCEPT ![p] = new]
    BY <1>2, Zenon DEF NativePrepare, Put
  <2>2. new = Entry("ready", c, 0, 0, 0, 0)
    BY <2>1, PreparedEntry, Zenon
  <2>3. new.output = 0
    BY <2>2 DEF Entry
  <2> QED
    BY <2>1, <2>3, PutMoves
<1> QED
  BY <1>1, <1>2

\* native_claim_handoff.
LEMMA ClaimMoves ==
    ASSUME LedgerInv, NEW p \in Positions, NEW c, NativeClaimHandoff(p, c)
    PROVE  LedgerMoves
<1>1. PICK new : /\ new = [ledger[p] EXCEPT !.state = "started", !.attempt = ledger[p].attempt + 1]
                 /\ ledger' = [ledger EXCEPT ![p] = new]
  BY Zenon DEF NativeClaimHandoff, Put
<1>2. ledger[p].state # "none"
  BY DEF NativeClaimHandoff, CanClaim, Bound
<1>3. ledger[p] \in EntryType
  BY <1>2, EntryInLedger
<1>4. new = Entry("started", ledger[p].input, ledger[p].attempt + 1, ledger[p].output,
                  ledger[p].sub, ledger[p].accepted)
  BY <1>1, <1>3, ClaimedEntry, Zenon
<1>5. new.output = ledger[p].output
  BY <1>4 DEF Entry
<1> QED
  BY <1>1, <1>2, <1>5, PutMoves

\* native_retain_output.
LEMMA RetainMoves ==
    ASSUME LedgerInv, NEW p \in Positions, NEW c, NEW t, NativeRetainOutput(p, c, t),
           Touching(p, "retain")
    PROVE  LedgerMoves
<1>1. CASE UNCHANGED ledger
  BY <1>1 DEF LedgerMoves
<1>2. CASE ledger' # ledger
  <2>1. PICK new : ledger' = [ledger EXCEPT ![p] = new]
    BY <1>2, Zenon DEF NativeRetainOutput, Put
  <2>2. ledger[p].state # "none"
    BY DEF NativeRetainOutput, CanRetainOutput, Bound
  <2> QED
    BY <2>1, <2>2, PutMoves
<1> QED
  BY <1>1, <1>2

\* native_retain_submission.
LEMMA FreezeMoves ==
    ASSUME LedgerInv, NEW p \in Positions, NEW c, NEW t, NEW n, NativeRetainSubmission(p, c, t, n)
    PROVE  LedgerMoves
<1>1. PICK new : /\ new = [ledger[p] EXCEPT !.sub = n]
                 /\ ledger' = [ledger EXCEPT ![p] = new]
  BY Zenon DEF NativeRetainSubmission, Put
<1>2. ledger[p].state # "none"
  BY DEF NativeRetainSubmission, CanRetainSubmission, Bound
<1>3. ledger[p] \in EntryType
  BY <1>2, EntryInLedger
<1>4. new = Entry(ledger[p].state, ledger[p].input, ledger[p].attempt, ledger[p].output, n,
                  ledger[p].accepted)
  BY <1>1, <1>3, SubmittedEntry, Zenon
<1>5. new.output = ledger[p].output
  BY <1>4 DEF Entry
<1> QED
  BY <1>1, <1>2, <1>5, PutMoves

\* native_mark_accepted.
LEMMA AcceptMoves ==
    ASSUME LedgerInv, NEW p \in Positions, NEW c, NEW n, NativeMarkAccepted(p, c, n)
    PROVE  LedgerMoves
<1>1. PICK new : /\ new = [ledger[p] EXCEPT !.state = "accepted", !.accepted = n]
                 /\ ledger' = [ledger EXCEPT ![p] = new]
  BY Zenon DEF NativeMarkAccepted, Put
<1>2. ledger[p].state # "none"
  BY DEF NativeMarkAccepted, CanMarkAccepted, Bound
<1>3. ledger[p] \in EntryType
  BY <1>2, EntryInLedger
<1>4. new = Entry("accepted", ledger[p].input, ledger[p].attempt, ledger[p].output, ledger[p].sub, n)
  BY <1>1, <1>3, AcceptedEntry, Zenon
<1>5. new.output = ledger[p].output
  BY <1>4 DEF Entry
<1> QED
  BY <1>1, <1>2, <1>5, PutMoves

\* A transaction whose caller is gone.
LEMMA OrphanMoves ==
    ASSUME ReplyInv, NEW tx \in orphans, Orphan(tx)
    PROVE  LedgerMoves
<1>1. LedgerInv /\ tx.op \in TxPcs /\ tx.p \in Positions
  BY InvLedger, OrphanFields DEF ReplyInv
<1>2. Touching(tx.p, tx.op)
  BY DEF Touching
<1>3. CASE ~CanCommit(tx)
  BY <1>3 DEF Orphan, LedgerMoves
<1>4. CASE CanCommit(tx)
  <2>1. Commit(tx)
    BY <1>4 DEF Orphan
  <2>2. CASE tx.op = "prepare"
    <3>1. NativePrepare(tx.p, tx.input)
      BY <2>1, <2>2 DEF Commit
    <3> QED
      BY <1>1, <1>2, <2>2, <3>1, PrepareMoves
  <2>3. CASE tx.op = "claim"
    <3>1. NativeClaimHandoff(tx.p, tx.input)
      BY <2>1, <2>3 DEF Commit
    <3> QED
      BY <1>1, <3>1, ClaimMoves
  <2>4. CASE tx.op = "retain"
    <3>1. NativeRetainOutput(tx.p, tx.input, tx.text)
      BY <2>1, <2>4 DEF Commit
    <3> QED
      BY <1>1, <1>2, <2>4, <3>1, RetainMoves
  <2>5. CASE tx.op = "freeze"
    <3>1. NativeRetainSubmission(tx.p, tx.input, tx.text, tx.event)
      BY <2>1, <2>5 DEF Commit
    <3> QED
      BY <1>1, <3>1, FreezeMoves
  <2>6. CASE tx.op = "accept"
    <3>1. NativeMarkAccepted(tx.p, tx.input, tx.event)
      BY <2>1, <2>6 DEF Commit
    <3> QED
      BY <1>1, <3>1, AcceptMoves
  <2> QED
    BY <1>1, <2>2, <2>3, <2>4, <2>5, <2>6 DEF TxPcs
<1> QED
  BY <1>3, <1>4

\* native_resume_required_existing makes no entry and no output.
LEMMA SaveMoves ==
    ASSUME ReplyInv, NEW i \in Intents, SaveResume(i)
    PROVE  LedgerMoves
<1>1. ledger' = [p \in Positions |-> IF ledger[p].state = "started"
                                       THEN [ledger[p] EXCEPT !.state = "unknown"]
                                       ELSE ledger[p]]
  BY DEF SaveResume
<1> SUFFICES ASSUME NEW p \in Positions
             PROVE  /\ ledger'[p].state # "none" => ledger[p].state # "none"
                    /\ ledger'[p].output = ledger[p].output
  BY DEF LedgerMoves
<1>2. CASE ledger[p].state = "started"
  <2>1. PICK r : r = [ledger[p] EXCEPT !.state = "unknown"] /\ ledger'[p] = r
    BY <1>1, <1>2
  <2>2. ledger[p] \in EntryType
    BY <1>2, InvLedger, EntryInLedger
  <2>3. r = Entry("unknown", ledger[p].input, ledger[p].attempt, ledger[p].output, ledger[p].sub,
                  ledger[p].accepted)
    BY <2>1, <2>2, UnknownEntry, Zenon
  <2>4. r.output = ledger[p].output
    BY <2>3 DEF Entry
  <2> QED
    BY <1>2, <2>1, <2>4
<1>3. CASE ledger[p].state # "started"
  BY <1>1, <1>3
<1> QED
  BY <1>2, <1>3

\* For a message without an output nothing is queued.
LEMMA NothingSent ==
    ASSUME ReplyInv, NEW p \in Positions, ledger[p].state \notin {"output", "accepted"}
    PROVE  Unsent(p)
<1>1. ledger[p].sub = 0
  <2>1. CASE ledger[p].state = "none"
    <3>1. ledger[p] = NoEntry
      BY <2>1 DEF ReplyInv, EntryInv
    <3> QED
      BY <3>1 DEF NoEntry
  <2>2. CASE ledger[p].state # "none"
    <3>1. EntryComplete(ledger[p])
      BY <2>2 DEF ReplyInv, EntryInv
    <3> QED
      BY <3>1 DEF EntryComplete
  <2> QED
    BY <2>1, <2>2
<1> SUFFICES ASSUME NEW e \in Events, e[1] = p PROVE queue[e] = "absent"
  BY DEF Unsent
<1>2. e[2] # 0
  BY DEF Events
<1> QED
  BY <1>1, <1>2 DEF ReplyInv, OutInv
(***************************************************************************)
(* The steps                                                               *)
(***************************************************************************)

\* Where the consumer may go without a change of inbox, queue or count.
Moves ==
    \/ pc' = "idle"
    \/ UNCHANGED <<pc, verdict>>
    \/ /\ Taking /\ Taking'
       /\ pc' \in {"stream", "retain"} => pc \in {"stream", "retain"}
    \/ /\ Taking /\ pc' = "settle"
       /\ verdict' \notin {"none", "skipped"}
       /\ verdict' # "accepted" => Unsent(Current)

\* A step on ledger, orphans and the place of the consumer.
LEMMA QuietStep ==
    ASSUME ReplyInv, ReplyInv', ContractInv, LedgerMoves, Moves,
           UNCHANGED <<stream, acked, seen, outcome, queue, station, sends>>,
           \A tx \in orphans' : tx \in orphans \/ (pc \in TxPcs /\ tx.op = pc /\ tx.p = Current)
    PROVE  ContractInv'
<1>1. Current' = Current
  BY DEF Current
<1>2. acked \in Nat /\ Len(stream) \in Nat /\ (pc # "idle" => Current \in Positions /\ Current <= Len(stream))
  BY Place DEF Current
<1>3. pc \in TxPcs => Taking
  BY DEF Taking, TxPcs, Pcs
<1>5. \A tx \in orphans' : tx.p <= Len(stream) /\ stream[tx.p]
  BY <1>2, <1>3 DEF ContractInv, MentionInv, Taking
<1>6. ASSUME NEW p \in Positions, ledger'[p].state # "none"
      PROVE  p <= Current /\ p <= Len(stream) /\ stream[p]
  <2>1. CASE ledger[p].state # "none"
    BY <2>1 DEF ContractInv, MentionInv
  <2>2. CASE pc = "prepare" /\ p = Current
    BY <1>2, <1>3, <2>2 DEF ContractInv, MentionInv, TxPcs, Current
  <2>3. ASSUME NEW tx \in orphans, tx.p = p PROVE p <= Current /\ p <= Len(stream) /\ stream[p]
    BY <2>3 DEF ContractInv, MentionInv, ReplyInv, OrphanInv
  <2> QED
    BY <1>6, <2>1, <2>2, <2>3 DEF LedgerMoves, Touching
<1>7. /\ Taking' => stream[Current]
      /\ pc' = "settle" => IF verdict' = "skipped" THEN ~stream[Current] ELSE stream[Current]
  BY DEF ContractInv, MentionInv, Moves, Taking
<1>8. MentionInv'
  BY <1>1, <1>5, <1>6, <1>7 DEF MentionInv
<1>9. SeenInv'
  <2>1. /\ Taking' \/ pc' = "settle" => Current \notin seen
        /\ pc' = "ack" => Current \in seen
        /\ pc' = "settle" => verdict' # "none"
    BY DEF ContractInv, SeenInv, Moves, Taking
  <2> QED
    BY <1>1, <2>1 DEF ContractInv, SeenInv
<1>10. AskedInv'
  <2>1. pc' \in {"stream", "retain"} => sends[Current] # 0
    BY DEF ContractInv, AskedInv, Moves
  <2>2. \A tx \in orphans' : tx.op = "retain" => sends[tx.p] # 0
    BY DEF ContractInv, AskedInv
  <2>3. \A p \in Positions : Touching(p, "retain") => sends[p] # 0
    BY DEF ContractInv, AskedInv, Touching
  <2>4. \A p \in Positions : ledger'[p].output # 0 => sends[p] # 0
    BY <2>3 DEF ContractInv, AskedInv, LedgerMoves
  <2> QED
    BY <1>1, <2>1, <2>2, <2>4 DEF AskedInv
<1>11. FinalInv'
  <2>1. \A p : Unsent(p)' <=> Unsent(p)
    BY DEF Unsent
  <2>2. pc' = "settle" /\ verdict' # "accepted" => Unsent(Current)
    BY DEF ContractInv, FinalInv, Moves, Taking
  <2> QED
    BY <1>1, <2>1, <2>2 DEF ContractInv, FinalInv
<1> QED
  BY <1>8, <1>9, <1>10, <1>11 DEF ContractInv

\* The entry is prepared: unless it is ready, or has its output or its receipt, nothing was sent.
LEMMA PrepareContract ==
    ASSUME ReplyInv, ReplyInv', ContractInv, Prepare
    PROVE  ContractInv'
<1>1. Current \in Positions /\ Current' = Current /\ LedgerInv /\ Taking
  BY Place, InvLedger DEF Prepare, inboxVars, Current, Taking, Pcs, TxPcs
<1>2. Touching(Current, "prepare")
  BY DEF Prepare, Touching
<1>3. LedgerMoves
  BY <1>1, <1>2, PrepareMoves DEF Prepare
<1>4. UNCHANGED <<stream, acked, seen, outcome, queue, station, sends, orphans>>
  BY DEF Prepare, inboxVars, outVars, countVars
<1>5. Moves
  <2>1. CASE BehindCutoff(Current)
    <3>1. pc' = "settle" /\ verdict' = "suppressed"
      BY <2>1 DEF Prepare, Settle
    <3>2. ledger[Current].state = "none"
      BY <1>1, <2>1 DEF LedgerInv, EntryInv
    <3>3. Unsent(Current)
      BY <1>1, <3>2, NothingSent
    <3> QED
      BY <1>1, <3>1, <3>3 DEF Moves
  <2>2. CASE ~BehindCutoff(Current)
    <3>1. Resume(ledger'[Current])
      BY <2>2 DEF Prepare
    <3>2. CASE ledger'[Current].state = "ready"
      <4>1. pc' = "claim"
        BY <3>1, <3>2 DEF Resume, Goto
      <4> QED
        BY <1>1, <4>1 DEF Moves, Taking, Pcs, TxPcs
    <3>3. CASE ledger'[Current].state = "accepted"
      <4>1. pc' = "settle" /\ verdict' = "accepted"
        BY <3>1, <3>3 DEF Resume, Settle
      <4> QED
        BY <1>1, <4>1 DEF Moves
    <3>4. CASE ledger'[Current].state = "output"
      <4>1. pc' \in {"author", "enqueue"}
        BY <3>1, <3>4 DEF Resume
      <4> QED
        BY <1>1, <4>1 DEF Moves, Taking, Pcs, TxPcs
    <3>5. CASE ledger'[Current].state \notin {"ready", "accepted", "output"}
      <4>1. pc' = "settle" /\ verdict' = "unknown"
        BY <3>1, <3>5 DEF Resume, Settle
      <4>2. ledger[Current].state \notin {"output", "accepted"}
        <5>1. Grows(ledger[Current], ledger'[Current])
          BY <1>1, PrepareStep DEF Grown
        <5>2. EntryComplete(ledger[Current]) \/ ledger[Current].state = "none"
          BY <1>1 DEF LedgerInv, EntryInv
        <5>3. EntryComplete(ledger'[Current]) \/ ledger'[Current].state = "none"
          BY <1>1 DEF ReplyInv, EntryInv
        <5> QED
          BY <3>5, <5>1, <5>2, <5>3 DEF Grows, EntryComplete
      <4>3. Unsent(Current)
        BY <1>1, <4>2, NothingSent
      <4> QED
        BY <1>1, <4>1, <4>3 DEF Moves
    <3> QED
      BY <3>2, <3>3, <3>4, <3>5
  <2> QED
    BY <2>1, <2>2
<1> QED
  BY <1>3, <1>4, <1>5, QuietStep

\* The other steps of the consumer that change neither inbox, nor queue, nor count.
LEMMA ConsumerContract ==
    ASSUME ReplyInv, ReplyInv', ContractInv,
           \/ Claim \/ Complete \/ Denied \/ RetainOutput \/ Author \/ RetainSubmission
           \/ Drained \/ MarkAccepted \/ Reject
    PROVE  ContractInv'
<1>1. UNCHANGED <<stream, acked, seen, outcome, queue, station, sends, orphans>>
  BY DEF Claim, Complete, Denied, RetainOutput, Author, RetainSubmission, Drained, MarkAccepted,
         Reject, inboxVars, outVars, countVars
<1>2. Current \in Positions /\ LedgerInv
  BY Place, InvLedger DEF Claim, Complete, Denied, RetainOutput, Author, RetainSubmission, Drained,
                          MarkAccepted, Reject, TxPcs
<1>3. LedgerMoves
  <2>1. CASE Claim
    BY <1>2, <2>1, ClaimMoves DEF Claim
  <2>2. CASE RetainOutput
    BY <1>2, <2>2, RetainMoves DEF RetainOutput, Touching
  <2>3. CASE RetainSubmission
    BY <1>2, <2>3, FreezeMoves DEF RetainSubmission
  <2>4. CASE MarkAccepted
    BY <1>2, <2>4, AcceptMoves DEF MarkAccepted
  <2>5. CASE UNCHANGED ledger
    BY <2>5 DEF LedgerMoves
  <2> QED
    BY <2>1, <2>2, <2>3, <2>4, <2>5 DEF Complete, Denied, Author, Drained, Reject, ledgerVars
<1>4. Moves
  BY DEF Claim, Complete, Denied, RetainOutput, Author, RetainSubmission, Drained, MarkAccepted,
         Reject, Goto, GiveUp, Settle, Moves, Taking, Pcs, TxPcs
<1> QED
  BY <1>1, <1>3, <1>4, QuietStep

\* Owner, late transactions and faults.
LEMMA OthersContract ==
    ASSUME ReplyInv, ReplyInv', ContractInv,
           \/ FirstConfig
           \/ \E i \in Intents : SaveResume(i) \/ ReadHeads(i) \/ InitializeBatch(i)
           \/ \E tx \in orphans : Orphan(tx)
           \/ Interrupt \/ Crash
    PROVE  ContractInv'
<1>1. UNCHANGED <<stream, acked, seen, outcome, queue, station, sends>>
  BY DEF FirstConfig, SaveResume, ReadHeads, InitializeBatch, Orphan, Interrupt, Crash,
         inboxVars, outVars, countVars
<1>2. LedgerMoves
  <2>1. CASE \E i \in Intents : SaveResume(i)
    BY <2>1, SaveMoves
  <2>2. CASE \E tx \in orphans : Orphan(tx)
    BY <2>2, OrphanMoves
  <2>3. CASE UNCHANGED ledger
    BY <2>3 DEF LedgerMoves
  <2> QED
    BY <2>1, <2>2, <2>3 DEF FirstConfig, ReadHeads, InitializeBatch, Interrupt, Crash, ledgerVars
<1>3. Moves
  BY DEF FirstConfig, SaveResume, ReadHeads, InitializeBatch, Orphan, Interrupt, Crash, GiveUp,
         Moves, consumerVars
<1>4. \A tx \in orphans' : tx \in orphans \/ (pc \in TxPcs /\ tx.op = pc /\ tx.p = Current)
  BY DEF FirstConfig, SaveResume, ReadHeads, InitializeBatch, Orphan, Interrupt, Crash, Pending
<1> QED
  BY <1>1, <1>2, <1>3, <1>4, QuietStep
\* Steps that leave the ledger and the orphans alone.
LEMMA LedgerStays ==
    ASSUME UNCHANGED ledger
    PROVE  LedgerMoves
BY DEF LedgerMoves

\* The inbox head is taken.
LEMMA TakeContract ==
    ASSUME ReplyInv, ReplyInv', ContractInv, Take
    PROVE  ContractInv'
<1>1. /\ UNCHANGED <<stream, ledger, acked, seen, outcome, queue, station, sends, orphans>>
      /\ Current' = Current /\ Current \in Positions
  BY Ranges DEF ReplyInv, Take, ledgerVars, inboxVars, outVars, countVars, Current
<1>2. /\ pc' = "ack" => Current \in seen
      /\ pc' = "prepare" => Current \notin seen /\ stream[Current]
      /\ pc' = "settle" => Current \notin seen /\ ~stream[Current] /\ verdict' = "skipped"
      /\ pc' \in {"ack", "prepare", "settle"}
  BY DEF Take, Goto, Settle
<1>3. Taking' => pc' = "prepare"
  BY <1>2 DEF Taking
<1>4. pc' = "settle" => Unsent(Current)
  <2> SUFFICES ASSUME pc' = "settle" PROVE Unsent(Current)
    OBVIOUS
  <2>1. ledger[Current].state = "none"
    BY <1>1, <1>2 DEF ContractInv, MentionInv
  <2> QED
    BY <1>1, <2>1, NothingSent
<1>5. MentionInv' /\ SeenInv' /\ AskedInv'
  BY <1>1, <1>2, <1>3 DEF ContractInv, MentionInv, SeenInv, AskedInv
<1>6. FinalInv'
  <2>1. \A p : Unsent(p)' <=> Unsent(p)
    BY <1>1 DEF Unsent
  <2> QED
    BY <1>1, <1>2, <1>4, <2>1 DEF ContractInv, FinalInv
<1> QED
  BY <1>5, <1>6 DEF ContractInv

\* The request is made.
LEMMA SendContract ==
    ASSUME ReplyInv, ReplyInv', ContractInv, Send
    PROVE  ContractInv'
<1>1. /\ UNCHANGED <<stream, ledger, acked, seen, outcome, queue, station, orphans>>
      /\ Current' = Current /\ Current \in Positions /\ pc' = "stream" /\ pc = "send"
  BY Place DEF Send, ledgerVars, inboxVars, outVars, Goto, Current
<1>2. Taking /\ Taking'
  BY <1>1 DEF Taking, Pcs, TxPcs
<1>3. sends'[Current] # 0 /\ \A p \in Positions \ {Current} : sends'[p] = sends[p]
  <2>1. sends \in [Positions -> Nat]
    BY DEF ReplyInv, TypeOK
  <2> QED
    BY <1>1, <2>1 DEF Send
<1>4. MentionInv' /\ SeenInv'
  BY <1>1, <1>2 DEF ContractInv, MentionInv, SeenInv
<1>5. AskedInv'
  <2>1. \A tx \in orphans : tx.p \in Positions
    BY OrphanFields DEF ReplyInv
  <2> QED
    BY <1>1, <1>3, <2>1 DEF ContractInv, AskedInv
<1>6. FinalInv'
  <2>1. \A p : Unsent(p)' <=> Unsent(p)
    BY <1>1 DEF Unsent
  <2> QED
    BY <1>1, <2>1 DEF ContractInv, FinalInv
<1> QED
  BY <1>4, <1>5, <1>6 DEF ContractInv

\* The retained event is queued, for a message that is not settled.
LEMMA EnqueueContract ==
    ASSUME ReplyInv, ReplyInv', ContractInv, Enqueue
    PROVE  ContractInv'
<1>1. /\ UNCHANGED <<stream, ledger, acked, seen, outcome, station, sends, orphans>>
      /\ Current' = Current /\ Current \in Positions /\ pc' \in {"drain", "idle"} /\ pc = "enqueue"
  BY Place DEF Enqueue, ledgerVars, inboxVars, countVars, Goto, GiveUp, Current
<1>2. Taking
  BY <1>1 DEF Taking, Pcs
<1>3. MentionInv' /\ SeenInv' /\ AskedInv'
  BY <1>1, <1>2 DEF ContractInv, MentionInv, SeenInv, AskedInv, Taking
<1>4. FinalInv'
  <2>1. /\ \A e \in Events : queue[e] # "absent" => queue'[e] # "absent"
        /\ \A e \in Events : e[1] # Current => queue'[e] = queue[e]
    <3>1. queue \in [Events -> {"absent", "queued", "committed", "refused"}]
      BY DEF ReplyInv, TypeOK
    <3>2. CASE UNCHANGED queue
      BY <3>2
    <3>3. CASE queue' = [queue EXCEPT ![<<Current, event>>] =
                           IF queue[<<Current, event>>] = "absent" THEN "queued"
                           ELSE queue[<<Current, event>>]]
      BY <3>1, <3>3
    <3> QED
      BY <3>2, <3>3 DEF Enqueue
  <2>2. \A p \in seen : Unsent(p) => Unsent(p)'
    <3>1. Current \notin seen
      BY <1>2 DEF ContractInv, SeenInv
    <3> QED
      BY <2>1, <3>1 DEF Unsent
  <2>3. station \subseteq Events
    BY DEF ReplyInv, OutInv
  <2> QED
    BY <1>1, <2>1, <2>2, <2>3 DEF ContractInv, FinalInv
<1> QED
  BY <1>3, <1>4 DEF ContractInv

\* A queued event is submitted.
LEMMA SubmitContract ==
    ASSUME ReplyInv, ReplyInv', ContractInv, NEW e \in Events, Submit(e)
    PROVE  ContractInv'
<1>1. /\ UNCHANGED <<stream, ledger, acked, seen, outcome, sends, orphans, pc, verdict>>
      /\ Current' = Current
  BY DEF Submit, ledgerVars, inboxVars, countVars, consumerVars, Current
<1>2. MentionInv' /\ SeenInv' /\ AskedInv'
  BY <1>1 DEF ContractInv, MentionInv, SeenInv, AskedInv, Taking
<1>3. /\ \A d \in Events : queue'[d] = "absent" <=> queue[d] = "absent"
      /\ station' \subseteq station \cup {e} /\ queue[e] = "queued"
  <2>1. queue \in [Events -> {"absent", "queued", "committed", "refused"}]
    BY DEF ReplyInv, TypeOK
  <2> QED
    BY <2>1 DEF Submit
<1>4. FinalInv'
  <2>1. \A p : Unsent(p)' <=> Unsent(p)
    BY <1>3 DEF Unsent
  <2>2. station \subseteq Events
    BY DEF ReplyInv, OutInv
  <2>3. \A d \in station' : queue'[d] # "absent"
    BY <1>3, <2>2 DEF ContractInv, FinalInv
  <2> QED
    BY <1>1, <2>1, <2>3 DEF ContractInv, FinalInv
<1> QED
  BY <1>2, <1>4 DEF ContractInv

\* The message is remembered with its verdict.
LEMMA RememberContract ==
    ASSUME ReplyInv, ReplyInv', ContractInv, Remember
    PROVE  ContractInv'
<1>1. /\ UNCHANGED <<stream, ledger, acked, queue, station, sends, orphans>>
      /\ Current' = Current /\ Current \in Positions /\ Current <= Len(stream)
      /\ pc' = "ack" /\ pc = "settle" /\ seen' = seen \cup {Current}
  BY Place DEF Remember, ledgerVars, outVars, countVars, Goto, Current
<1>2. outcome'[Current] = verdict /\ \A p \in Positions \ {Current} : outcome'[p] = outcome[p]
  <2>1. outcome \in [Positions -> Verdicts]
    BY DEF ReplyInv, TypeOK
  <2> QED
    BY <1>1, <2>1 DEF Remember
<1>3. ~Taking'
  BY <1>1 DEF Taking
<1>4. MentionInv' /\ AskedInv'
  BY <1>1, <1>3 DEF ContractInv, MentionInv, AskedInv
<1>5. seen \subseteq Positions /\ Current \in Nat /\ Current <= Current
  <2>1. Current \in Nat
    BY <1>1 DEF Positions
  <2> QED
    BY <2>1 DEF ReplyInv, TypeOK
<1>6. SeenInv'
  <2>1. \A p \in Positions : outcome'[p] # "none" <=> p \in seen'
    BY <1>1, <1>2 DEF ContractInv, SeenInv
  <2>2. \A p \in seen' : p <= Current /\ p <= Len(stream)
    BY <1>1, <1>5 DEF ContractInv, SeenInv
  <2> QED
    BY <1>1, <1>3, <2>1, <2>2 DEF ContractInv, SeenInv
<1>7. FinalInv'
  <2>1. \A p : Unsent(p)' <=> Unsent(p)
    BY <1>1 DEF Unsent
  <2>2. \A p \in seen' : outcome'[p] # "accepted" => Unsent(p)
    BY <1>1, <1>2, <1>5 DEF ContractInv, FinalInv
  <2> QED
    BY <1>1, <2>1, <2>2 DEF ContractInv, FinalInv
<1> QED
  BY <1>4, <1>6, <1>7 DEF ContractInv

\* The delivery is acknowledged, and the next message is current.
LEMMA AckContract ==
    ASSUME ReplyInv, ReplyInv', ContractInv, Ack
    PROVE  ContractInv'
<1>1. /\ UNCHANGED <<stream, ledger, seen, outcome, queue, station, sends, orphans>>
      /\ acked' = acked + 1 /\ pc' = "idle" /\ pc = "ack" /\ acked \in Nat
      /\ Current = acked + 1 /\ Current' = acked + 2
  BY Place DEF Ack, ledgerVars, outVars, countVars, GiveUp, Current
<1>2. ~Taking' /\ seen \subseteq Positions /\ \A p \in Positions : p \in Nat
  BY <1>1 DEF Taking, ReplyInv, TypeOK, Positions
<1>3. MentionInv' /\ AskedInv'
  BY <1>1, <1>2 DEF ContractInv, MentionInv, AskedInv
<1>4. SeenInv'
  <2>1. \A p \in Positions : p <= acked' => p \in seen
    BY <1>1, <1>2 DEF ContractInv, SeenInv
  <2> QED
    BY <1>1, <1>2, <2>1 DEF ContractInv, SeenInv
<1>5. FinalInv'
  <2>1. \A p : Unsent(p)' <=> Unsent(p)
    BY <1>1 DEF Unsent
  <2> QED
    BY <1>1, <2>1 DEF ContractInv, FinalInv
<1> QED
  BY <1>3, <1>4, <1>5 DEF ContractInv

\* The stream only grows at its end.
LEMMA PostContract ==
    ASSUME ReplyInv, ReplyInv', ContractInv, NEW mention \in BOOLEAN, Post(mention)
    PROVE  ContractInv'
<1>1. /\ UNCHANGED <<ledger, acked, seen, outcome, queue, station, sends, orphans, pc, verdict>>
      /\ Current' = Current
  BY DEF Post, ledgerVars, inboxVars, outVars, countVars, consumerVars, Current
<1>2. stream \in Seq(BOOLEAN) /\ stream' = Append(stream, mention)
  BY DEF ReplyInv, TypeOK, Post
<1>3. Len(stream) \in Nat /\ Len(stream') = Len(stream) + 1
      /\ \A p \in 1..Len(stream) : stream'[p] = stream[p]
  BY <1>2
<1>4. \A p \in Positions : p <= Len(stream) => p <= Len(stream') /\ stream'[p] = stream[p]
  BY <1>3 DEF Positions
<1>5. /\ \A tx \in orphans : tx.p \in Positions
      /\ pc # "idle" => Current \in Positions /\ Current <= Len(stream)
      /\ seen \subseteq Positions
  <2>1. pc # "idle" => Current <= Len(stream)
    BY Place DEF Current
  <2> QED
    BY <2>1, Place, OrphanFields DEF ReplyInv, TypeOK
<1>6. MentionInv'
  <2>1. Taking' <=> Taking
    BY <1>1 DEF Taking
  <2>2. Taking => pc # "idle"
    BY DEF Taking
  <2>3. \A p \in Positions : ledger[p].state # "none" => p <= Current /\ p <= Len(stream') /\ stream'[p]
    BY <1>4 DEF ContractInv, MentionInv
  <2>4. \A tx \in orphans : tx.p <= Len(stream') /\ stream'[tx.p]
    BY <1>4, <1>5 DEF ContractInv, MentionInv
  <2>5. Taking => stream'[Current]
    BY <1>4, <1>5, <2>2 DEF ContractInv, MentionInv
  <2>6. pc = "settle" => IF verdict = "skipped" THEN ~stream'[Current] ELSE stream'[Current]
    BY <1>4, <1>5 DEF ContractInv, MentionInv
  <2> QED
    BY <1>1, <2>1, <2>3, <2>4, <2>5, <2>6 DEF MentionInv
<1>7. SeenInv'
  <2>1. Taking' <=> Taking
    BY <1>1 DEF Taking
  <2>2. \A p \in seen : p <= Len(stream')
    BY <1>4, <1>5 DEF ContractInv, SeenInv
  <2> QED
    BY <1>1, <2>1, <2>2 DEF ContractInv, SeenInv
<1>8. AskedInv'
  BY <1>1 DEF ContractInv, AskedInv
<1>9. FinalInv'
  <2>1. \A p : Unsent(p)' <=> Unsent(p)
    BY <1>1 DEF Unsent
  <2> QED
    BY <1>1, <2>1 DEF ContractInv, FinalInv
<1> QED
  BY <1>6, <1>7, <1>8, <1>9 DEF ContractInv

\* The empty ledger, inbox and queue.
LEMMA InitContract == ASSUME Init PROVE ContractInv
<1>1. ~Taking
  BY DEF Init, Taking
<1>2. \A p \in Positions : ledger[p] = NoEntry /\ outcome[p] = "none" /\ ~(p <= acked)
  BY DEF Init, Positions
<1>3. NoEntry.state = "none" /\ NoEntry.output = 0
  BY DEF NoEntry
<1>4. MentionInv
  BY <1>1, <1>2, <1>3 DEF Init, MentionInv
<1>5. SeenInv
  BY <1>1, <1>2 DEF Init, SeenInv
<1>6. AskedInv
  BY <1>2, <1>3 DEF Init, AskedInv
<1>7. FinalInv
  BY DEF Init, FinalInv
<1> QED
  BY <1>4, <1>5, <1>6, <1>7 DEF ContractInv

\* The invariant of the contract, whatever the consumer, the owner and the faults do.
THEOREM ContractInvariant == Spec => [](ReplyInv /\ ContractInv)
<1>1. Init => ReplyInv /\ ContractInv
  BY InitInv, InitContract
<1>2. ASSUME ReplyInv, ContractInv, [Next]_vars PROVE ReplyInv' /\ ContractInv'
  <2>1. ReplyInv'
    BY <1>2, NextInv
  <2>2. CASE ConsumerStep
    BY <1>2, <2>1, <2>2, TakeContract, PrepareContract, ConsumerContract, SendContract,
       EnqueueContract, RememberContract, AckContract DEF ConsumerStep
  <2>3. CASE UNCHANGED vars
    <3>1. UNCHANGED <<stream, ledger, pc, verdict, orphans, acked, seen, outcome, queue, station, sends>>
      BY <2>3 DEF vars, ledgerVars, consumerVars, inboxVars, outVars, countVars
    <3>2. Moves
      BY <3>1 DEF Moves
    <3> QED
      BY <1>2, <2>1, <3>1, <3>2, LedgerStays, QuietStep
  <2>4. CASE \E e \in Events : Submit(e)
    BY <1>2, <2>1, <2>4, SubmitContract
  <2>5. CASE \E mention \in BOOLEAN : Post(mention)
    BY <1>2, <2>1, <2>5, PostContract
  <2> QED
    BY <1>2, <2>1, <2>2, <2>3, <2>4, <2>5, OthersContract DEF Next
<1> QED
  BY <1>1, <1>2, PTL DEF Spec
(***************************************************************************)
(* The refinement                                                          *)
(***************************************************************************)

\* While the current message is not settled it is its turn.
LEMMA CurrentTurn ==
    ASSUME ReplyInv, ContractInv, NEW p \in Positions, p \notin seen, p <= Current, p <= Len(stream)
    PROVE  p = Current /\ Contract!Turn(p)
<1>1. acked \in Nat /\ p \in Nat /\ acked <= MaxPos /\ MaxPos \in Nat /\ p <= MaxPos
  BY Place, NativeReplyAssumption DEF Positions, NativeReplyAssumption
<1>2. p = Current
  BY <1>1 DEF ContractInv, SeenInv, Current
<1>3. outcome[p] = "none"
  BY DEF ContractInv, SeenInv
<1>4. ASSUME NEW q \in 1..(p - 1) PROVE outcome[q] # "none"
  <2>1. q \in Positions /\ q <= acked
    BY <1>1, <1>2 DEF Positions, Current
  <2> QED
    BY <2>1 DEF ContractInv, SeenInv
<1> QED
  BY <1>2, <1>3, <1>4 DEF Contract!Turn

\* The request asks for the current message, for the first time.
LEMMA SendAsks ==
    ASSUME ReplyInv, ContractInv, Send
    PROVE  Contract!Ask(Current)
<1>1. /\ Current \in Positions /\ pc = "send" /\ Current <= Current /\ Current <= Len(stream)
      /\ UNCHANGED <<stream, station, outcome>>
  BY Place DEF Send, inboxVars, outVars, Current
<1>2. Taking
  BY <1>1 DEF Taking, Pcs
<1>3. stream[Current] /\ Current \notin seen
  BY <1>2 DEF ContractInv, MentionInv, SeenInv
<1>4. sends[Current] = 0 /\ sends \in [Positions -> Nat]
  BY <1>1 DEF ReplyInv, ConsumerInv, TypeOK
<1>5. Asked' = Asked \cup {Current} /\ Current \notin Asked
  <2>1. sends' = [sends EXCEPT ![Current] = 1]
    BY <1>1, <1>4 DEF Send
  <2> QED
    BY <1>1, <1>4, <2>1 DEF Asked
<1>6. UNCHANGED Replied
  BY <1>1 DEF Replied
<1>7. Contract!Turn(Current)
  BY <1>1, <1>3, CurrentTurn
<1> QED
  BY <1>1, <1>3, <1>5, <1>6, <1>7 DEF Contract!Ask

\* The Station commits the first reply to a message, the current one, that was asked about.
LEMMA SubmitReplies ==
    ASSUME ReplyInv, ContractInv, NEW e \in Events, queue[e] = "queued", e \notin station,
           station' = station \cup {e}, UNCHANGED <<stream, sends, outcome>>
    PROVE  Contract!Reply(e[1])
<1>1. PICK p \in Positions, n \in 1..MaxAuthor : e = <<p, n>>
  BY DEF Events
<1>2. e[1] = p /\ e[2] = n /\ n # 0 /\ ledger[p].sub = n
  <2>1. e[1] = p /\ e[2] = n /\ n # 0
    BY <1>1
  <2> QED
    BY <2>1 DEF ReplyInv, OutInv
<1>3. ledger[p].state # "none" /\ EntryComplete(ledger[p])
  <2>1. ledger[p].state # "none"
    <3>1. NoEntry.sub = 0
      BY DEF NoEntry
    <3> QED
      BY <1>2, <3>1 DEF ReplyInv, EntryInv
  <2> QED
    BY <2>1 DEF ReplyInv, EntryInv
<1>4. p \in Asked
  <2>1. ledger[p].output # 0
    BY <1>2, <1>3 DEF EntryComplete
  <2> QED
    BY <2>1 DEF ContractInv, AskedInv, Asked
<1>5. p \notin seen
  <2> SUFFICES ASSUME p \in seen PROVE FALSE
    OBVIOUS
  <2>1. outcome[p] = "accepted"
    <3>1. ~Unsent(p)
      BY <1>1, <1>2 DEF Unsent
    <3> QED
      BY <3>1 DEF ContractInv, FinalInv
  <2>2. ledger[p].accepted # 0
    BY <2>1 DEF ReplyInv, Settled
  <2>3. <<p, ledger[p].accepted>> \in station /\ ledger[p].accepted = n
    BY <1>2, <1>3, <2>2 DEF ReplyInv, EntryInv, EntryComplete
  <2> QED
    BY <1>1, <2>3
<1>6. p <= Current /\ p <= Len(stream)
  BY <1>3 DEF ContractInv, MentionInv
<1>7. p \notin Replied
  <2> SUFFICES ASSUME NEW d \in station, d[1] = p PROVE FALSE
    BY DEF Replied
  <2>1. ledger[p].sub = d[2] /\ d \in Events
    BY DEF ReplyInv, OutInv, ReplyIsRetained
  <2>2. d = <<p, n>>
    BY <1>2, <2>1 DEF Events
  <2> QED
    BY <1>1, <2>2
<1>8. Replied' = Replied \cup {p}
  BY <1>2 DEF Replied
<1>9. UNCHANGED Asked
  BY DEF Asked
<1>10. Contract!Turn(p)
  BY <1>5, <1>6, CurrentTurn
<1> QED
  BY <1>2, <1>4, <1>7, <1>8, <1>9, <1>10 DEF Contract!Reply

\* The verdict under which the current message is remembered is true.
LEMMA RememberSettles ==
    ASSUME ReplyInv, ContractInv, Remember
    PROVE  Contract!Settle(Current, verdict) /\ verdict \in {"skipped", "suppressed", "unknown", "accepted"}
<1>1. /\ Current \in Positions /\ pc = "settle" /\ Current <= Current /\ Current <= Len(stream)
      /\ UNCHANGED <<stream, station, sends>> /\ outcome' = [outcome EXCEPT ![Current] = verdict]
  BY Place DEF Remember, outVars, countVars, Current
<1>2. /\ Current \notin seen /\ Settled(Current, verdict)
      /\ IF verdict = "skipped" THEN ~stream[Current] ELSE stream[Current]
      /\ verdict # "accepted" => Unsent(Current)
      /\ verdict \in {"skipped", "suppressed", "unknown", "accepted"}
  BY <1>1, Place DEF ContractInv, SeenInv, MentionInv, FinalInv, ReplyInv, ConsumerInv, Verdicts
<1>3. UNCHANGED <<Asked, Replied>>
  BY <1>1 DEF Asked, Replied
<1>4. Contract!Turn(Current)
  BY <1>1, <1>2, CurrentTurn
<1>5. Contract!Holds(Current, verdict)
  <2>1. CASE verdict = "skipped"
    BY <1>2, <2>1 DEF Contract!Holds
  <2>2. CASE verdict = "suppressed"
    <3>1. ledger[Current] = NoEntry
      BY <1>1, <1>2, <2>2 DEF Settled, ReplyInv, EntryInv
    <3>2. sends[Current] = 0
      <4>1. NoEntry.attempt = 0
        BY DEF NoEntry
      <4> QED
        BY <1>1, <3>1, <4>1 DEF ReplyInv, EntryInv
    <3> QED
      BY <1>2, <2>2, <3>2 DEF Contract!Holds, Asked
  <2>3. CASE verdict = "unknown"
    <3>1. Current \notin Replied
      <4> SUFFICES ASSUME NEW d \in station, d[1] = Current PROVE FALSE
        BY DEF Replied
      <4>1. d \in Events /\ queue[d] # "absent"
        BY DEF ReplyInv, OutInv, ContractInv, FinalInv
      <4> QED
        BY <1>2, <2>3, <4>1 DEF Unsent
    <3> QED
      BY <1>2, <2>3, <3>1 DEF Contract!Holds
  <2>4. CASE verdict = "accepted"
    <3>1. <<Current, ledger[Current].accepted>> \in station
      BY <1>1, <1>2, <2>4 DEF Settled, ReplyInv, EntryInv
    <3>2. <<Current, ledger[Current].accepted>>[1] = Current
      OBVIOUS
    <3>3. Current \in Replied
      BY <3>1, <3>2 DEF Replied
    <3> QED
      BY <2>4, <3>3 DEF Contract!Holds
  <2> QED
    BY <1>2, <2>1, <2>2, <2>3, <2>4
<1> QED
  BY <1>1, <1>2, <1>3, <1>4, <1>5 DEF Contract!Settle

\* Steps the contract does not see.
LEMMA ContractStutters ==
    ASSUME UNCHANGED <<stream, sends, station, outcome>>
    PROVE  UNCHANGED Contract!vars
BY DEF Contract!vars, Asked, Replied

\* The ledger, its late transactions, the queue and the inbox implement ReplyContract: the model
\* is asked once and only for a mention, one reply answers a request, verdicts are true, are given
\* in the order of the stream, and are final: a message settled as unknown, suppressed or skipped
\* is never replied to.
THEOREM NativeReplyImplementsContract == Spec => ImplementsReplies
<1>1. Init => Contract!Init
  <2> SUFFICES ASSUME Init PROVE Contract!Init
    OBVIOUS
  <2>1. Asked = {} /\ Replied = {}
    BY DEF Init, Asked, Replied
  <2> QED
    BY <2>1 DEF Init, Contract!Init, Contract!Positions, Positions
<1>2. ASSUME ReplyInv, ContractInv, [Next]_vars
      PROVE  [Contract!Next]_(Contract!vars)
  <2>1. CASE Send
    <3>1. Current \in Contract!Positions
      BY <1>2, <2>1, Place DEF Send, Contract!Positions, Positions
    <3> QED
      BY <1>2, <2>1, <3>1, SendAsks DEF Contract!Next
  <2>2. CASE Remember
    <3>1. Current \in Contract!Positions
      BY <1>2, <2>2, Place DEF Remember, Contract!Positions, Positions
    <3> QED
      BY <1>2, <2>2, <3>1, RememberSettles DEF Contract!Next
  <2>3. ASSUME NEW e \in Events, Submit(e) PROVE [Contract!Next]_(Contract!vars)
    <3>1. /\ queue[e] = "queued" /\ UNCHANGED <<stream, sends, outcome>>
          /\ station' = station \cup {e} \/ UNCHANGED station
      BY <2>3 DEF Submit, inboxVars, countVars
    <3>2. CASE UNCHANGED station
      BY <3>1, <3>2, ContractStutters
    <3>3. CASE station' = station \cup {e} /\ e \notin station
      <4>1. e[1] \in Contract!Positions
        BY DEF Events, Contract!Positions, Positions
      <4> QED
        BY <1>2, <3>1, <3>3, <4>1, SubmitReplies DEF Contract!Next
    <3> QED
      BY <3>1, <3>2, <3>3
  <2>4. ASSUME NEW mention \in BOOLEAN, Post(mention) PROVE [Contract!Next]_(Contract!vars)
    <3>1. UNCHANGED <<sends, station, outcome>>
      BY <2>4 DEF Post, inboxVars, outVars, countVars
    <3>2. UNCHANGED <<Asked, Replied>>
      BY <3>1 DEF Asked, Replied
    <3>3. Contract!Post(mention)
      BY <2>4, <3>1, <3>2 DEF Post, Contract!Post
    <3> QED
      BY <3>3 DEF Contract!Next
  <2>5. CASE ConsumerStep /\ ~Send /\ ~Remember
    <3>1. UNCHANGED <<stream, sends, station, outcome>>
      BY <2>5 DEF ConsumerStep, Take, Prepare, Claim, Complete, Denied, RetainOutput, Author,
                  RetainSubmission, Enqueue, Drained, MarkAccepted, Reject, Ack, inboxVars, outVars,
                  countVars
    <3> QED
      BY <3>1, ContractStutters
  <2>6. CASE \/ FirstConfig
             \/ \E i \in Intents : SaveResume(i) \/ ReadHeads(i) \/ InitializeBatch(i)
             \/ \E tx \in orphans : Orphan(tx)
             \/ Interrupt \/ Crash \/ UNCHANGED vars
    <3>1. UNCHANGED <<stream, sends, station, outcome>>
      BY <2>6 DEF FirstConfig, SaveResume, ReadHeads, InitializeBatch, Orphan, Interrupt, Crash, vars,
                  inboxVars, outVars, countVars
    <3> QED
      BY <3>1, ContractStutters
  <2> QED
    BY <1>2, <2>1, <2>2, <2>3, <2>4, <2>5, <2>6 DEF Next
<1> QED
  BY <1>1, <1>2, ContractInvariant, PTL DEF Spec, ImplementsReplies, Contract!Spec
=============================================================================
