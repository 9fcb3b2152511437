--------------------------- MODULE NativeReplyProofs ---------------------------
(***************************************************************************)
(* Proofs about NativeReply: for a stream of any length, any number of     *)
(* saved and of model configurations, faults and authored events.          *)
(***************************************************************************)
EXTENDS NativeReply, TLAPS

(***************************************************************************)
(* The inductive invariant.                                                *)
(***************************************************************************)

\* An entry of the ledger: complete for its state, beyond the cutoff and not above the
\* watermark; made at most one request for, and accepted only with the Station.
EntryInv ==
    \A p \in Positions :
        /\ ledger[p].state = "none" => ledger[p] = NoEntry
        /\ ledger[p].state # "none" => /\ Receipts # {} /\ ~BehindCutoff(p) /\ p <= water
                                       /\ EntryComplete(ledger[p])
        /\ ledger[p].accepted # 0 => <<p, ledger[p].accepted>> \in station
        /\ sends[p] # 0 => ledger[p].attempt # 0

\* Receipts, the watermark, and the Saves that are under way.
LaneInv ==
    /\ Receipts # {} => first
    /\ Receipts # {} <=> water # 0
    /\ \A i \in Receipts : water >= cutoff[i]
    /\ \A i \in Intents : saving[i] # "idle" => first
    /\ \A i \in Intents : saving[i] = "read" => head[i] # 0

\* What holds of a message for which reply() has returned with verdict v.
Settled(p, v) ==
    /\ v = "accepted"   => ledger[p].accepted # 0
    /\ v = "suppressed" => Receipts # {} /\ BehindCutoff(p)
    /\ v = "unknown"    => ledger[p].attempt # 0

\* Where the consumer is, and what it may rely on there.
ConsumerInv ==
    /\ pc # "idle" => acked < Len(stream)
    /\ pc = "send" => ledger[Current].attempt # 0 /\ sends[Current] = 0
    /\ pc = "freeze" => event # 0
    /\ pc \in {"enqueue", "drain", "accept"} => event # 0 /\ ledger[Current].sub = event
    /\ pc = "accept" => <<Current, event>> \in station
    /\ pc = "settle" => Settled(Current, verdict)

\* The outbound queue and the Station have only what the ledger retains.
OutInv ==
    /\ \A e \in Events : queue[e] # "absent" => ledger[e[1]].sub = e[2]
    /\ \A e \in Events : queue[e] = "committed" => e \in station
    /\ station \subseteq Events
    /\ ReplyIsRetained

\* A transaction without its caller was right when it was handed out, and stays so.
OrphanInv ==
    \A tx \in orphans :
        /\ tx.p <= Current
        /\ tx.op \in {"freeze", "accept"} => tx.event # 0
        /\ tx.op = "accept" => <<tx.p, tx.event>> \in station

ReplyInv ==
    /\ TypeOK
    /\ EntryInv
    /\ LaneInv
    /\ NoLiveInputIsStale
    /\ AtMostOneSend
    /\ ConsumerInv
    /\ OutInv
    /\ OrphanInv
    /\ \A p \in Positions : Settled(p, outcome[p])

\* How an entry may change: what it retains it keeps.
Grows(d, e) ==
    /\ d.state # "none" => e.state # "none" /\ e.input = d.input
    /\ d.attempt # 0 => e.attempt = d.attempt
    /\ d.output # 0 => e.output = d.output
    /\ d.sub # 0 => e.sub = d.sub
    /\ d.accepted # 0 => e.accepted = d.accepted

Grown == \A p \in Positions : Grows(ledger[p], ledger'[p])

\* The part of the invariant that is about the ledger alone.
EntryType == [state : States, input : Configs \cup {None}, attempt : Nat, output : Nat,
              sub : 0..MaxAuthor, accepted : 0..MaxAuthor]

LedgerType ==
    /\ cutoff \in [Intents -> 0..MaxPos]
    /\ water \in 0..MaxPos
    /\ ledger \in [Positions -> EntryType]

LedgerInv == LedgerType /\ EntryInv /\ LaneInv /\ NoLiveInputIsStale

\* What a transaction leaves alone.
Apart == UNCHANGED <<first, cutoff, ownerVars, acked, seen, station, sends>>

(***************************************************************************)
(* The transactions of the ledger                                          *)
(***************************************************************************)

\* The entry that an update of a record makes, field by field.
Entry(s, c, a, o, n, m) ==
    [state |-> s, input |-> c, attempt |-> a, output |-> o, sub |-> n, accepted |-> m]

\* The new entry that native_prepare makes.
LEMMA PreparedEntry ==
    ASSUME NEW c, NEW r, r = [NoEntry EXCEPT !.state = "ready", !.input = c]
    PROVE  r = Entry("ready", c, 0, 0, 0, 0)
BY DEF NoEntry, Entry

\* The entry after native_claim_handoff.
LEMMA ClaimedEntry ==
    ASSUME NEW e \in EntryType, NEW a, NEW r, r = [e EXCEPT !.state = "started", !.attempt = a]
    PROVE  r = Entry("started", e.input, a, e.output, e.sub, e.accepted)
BY DEF EntryType, Entry

\* The entry after native_retain_output.
LEMMA OutputEntry ==
    ASSUME NEW e \in EntryType, NEW o, NEW r, r = [e EXCEPT !.state = "output", !.output = o]
    PROVE  r = Entry("output", e.input, e.attempt, o, e.sub, e.accepted)
BY DEF EntryType, Entry

\* The entry after native_retain_submission.
LEMMA SubmittedEntry ==
    ASSUME NEW e \in EntryType, NEW n, NEW r, r = [e EXCEPT !.sub = n]
    PROVE  r = Entry(e.state, e.input, e.attempt, e.output, n, e.accepted)
BY DEF EntryType, Entry

\* The entry after native_mark_accepted.
LEMMA AcceptedEntry ==
    ASSUME NEW e \in EntryType, NEW n, NEW r, r = [e EXCEPT !.state = "accepted", !.accepted = n]
    PROVE  r = Entry("accepted", e.input, e.attempt, e.output, e.sub, n)
BY DEF EntryType, Entry

\* A started entry after native_resume_required_existing.
LEMMA UnknownEntry ==
    ASSUME NEW e \in EntryType, NEW r, r = [e EXCEPT !.state = "unknown"]
    PROVE  r = Entry("unknown", e.input, e.attempt, e.output, e.sub, e.accepted)
BY DEF EntryType, Entry

\* The fields of an entry, and when it is well typed.
LEMMA EntryFields ==
    ASSUME NEW s, NEW c, NEW a, NEW o, NEW n, NEW m
    PROVE  /\ Entry(s, c, a, o, n, m).state = s /\ Entry(s, c, a, o, n, m).input = c
           /\ Entry(s, c, a, o, n, m).attempt = a /\ Entry(s, c, a, o, n, m).output = o
           /\ Entry(s, c, a, o, n, m).sub = n /\ Entry(s, c, a, o, n, m).accepted = m
           /\ (/\ s \in States /\ c \in Configs \cup {None} /\ a \in Nat /\ o \in Nat
               /\ n \in 0..MaxAuthor /\ m \in 0..MaxAuthor) <=> Entry(s, c, a, o, n, m) \in EntryType
BY DEF Entry, EntryType

\* A transaction that changes nothing.
LEMMA IdleTransaction ==
    ASSUME LedgerInv, Apart, UNCHANGED <<water, ledger>>
    PROVE  LedgerInv' /\ Grown
<1>1. Receipts' = Receipts /\ \A q \in Positions : BehindCutoff(q)' <=> BehindCutoff(q)
  BY DEF Apart, Receipts, BehindCutoff
<1> QED
  BY <1>1 DEF Apart, ownerVars, LedgerInv, LedgerType, EntryInv, LaneInv, NoLiveInputIsStale,
              Grown, Grows

\* A transaction that replaces an entry by one that keeps what it retained.
LEMMA UpdateTransaction ==
    ASSUME LedgerInv, Apart, UNCHANGED water,
           NEW p \in Positions, ledger[p].state # "none",
           NEW new \in EntryType, ledger' = [ledger EXCEPT ![p] = new],
           Grows(ledger[p], new), EntryComplete(new), new.accepted # 0 => <<p, new.accepted>> \in station
    PROVE  LedgerInv' /\ Grown
<1> USE DEF Apart, ownerVars
<1>1. Receipts' = Receipts /\ \A q \in Positions : BehindCutoff(q)' <=> BehindCutoff(q)
  BY DEF Receipts, BehindCutoff
<1>2. ledger \in [Positions -> EntryType]
  BY DEF LedgerInv, LedgerType
<1>3. ledger'[p] = new /\ \A q \in Positions \ {p} : ledger'[q] = ledger[q]
  BY <1>2
<1>4. LedgerType'
  BY <1>2 DEF LedgerInv, LedgerType
<1>5. Grown
  BY <1>3 DEF Grown, Grows
<1>6. new.state # "none"
  BY DEF Grows
<1>7. EntryInv'
  <2> SUFFICES ASSUME NEW q \in Positions
               PROVE  /\ ledger'[q].state = "none" => ledger'[q] = NoEntry
                      /\ ledger'[q].state # "none" =>
                           /\ Receipts # {} /\ ~BehindCutoff(q) /\ q <= water
                           /\ EntryComplete(ledger'[q])
                      /\ ledger'[q].accepted # 0 => <<q, ledger'[q].accepted>> \in station
                      /\ sends[q] # 0 => ledger'[q].attempt # 0
    BY <1>1 DEF EntryInv
  <2>1. CASE q = p
    BY <2>1, <1>3, <1>6 DEF LedgerInv, EntryInv, Grows
  <2>2. CASE q # p
    BY <2>2, <1>3 DEF LedgerInv, EntryInv
  <2> QED
    BY <2>1, <2>2
<1>8. LaneInv'
  BY <1>1 DEF LedgerInv, LaneInv
<1>9. NoLiveInputIsStale'
  BY <1>1, <1>3, <1>6 DEF LedgerInv, NoLiveInputIsStale
<1> QED
  BY <1>4, <1>5, <1>7, <1>8, <1>9 DEF LedgerInv

\* native_prepare adds an entry above the watermark and moves it; all that it passes over
\* is settled, since the caller is at p, or was.
LEMMA PrepareTransaction ==
    ASSUME LedgerInv, acked \in 0..MaxPos, Apart,
           NEW p \in Positions, p <= Current, NEW c \in Configs, NativePrepare(p, c)
    PROVE  LedgerInv' /\ Grown
<1> USE DEF Positions, Apart, ownerVars, Current
<1>1. Receipts' = Receipts /\ \A q \in Positions : BehindCutoff(q)' <=> BehindCutoff(q)
  BY DEF Receipts, BehindCutoff
<1>2. CASE BehindCutoff(p) \/ ledger[p].state # "none"
  BY <1>2, IdleTransaction DEF NativePrepare
<1>3. CASE ~(BehindCutoff(p) \/ ledger[p].state # "none")
  <2>1. PICK new : /\ new = Entry("ready", c, 0, 0, 0, 0)
                   /\ ledger' = [ledger EXCEPT ![p] = new]
    <3>1. PICK new : /\ new = [NoEntry EXCEPT !.state = "ready", !.input = c]
                     /\ ledger' = [ledger EXCEPT ![p] = new]
      BY <1>3, Zenon DEF NativePrepare, Put
    <3>2. new = Entry("ready", c, 0, 0, 0, 0)
      BY <3>1, PreparedEntry, Zenon
    <3> QED
      BY <3>1, <3>2, Zenon
  <2>2. water' = p /\ Receipts # {} /\ p > water
    BY <1>3 DEF NativePrepare, CanPrepare, Bound
  <2>3. /\ new \in EntryType /\ new.state = "ready" /\ new.attempt = 0 /\ new.output = 0
        /\ new.sub = 0 /\ new.accepted = 0
    BY <2>1, EntryFields, NativeReplyAssumption DEF States, NativeReplyAssumption
  <2>4. ledger \in [Positions -> EntryType] /\ water \in 0..MaxPos
    BY DEF LedgerInv, LedgerType
  <2>5. ledger'[p] = new /\ \A q \in Positions \ {p} : ledger'[q] = ledger[q]
    BY <2>1, <2>4
  <2>6. LedgerType'
    BY <2>1, <2>2, <2>3, <2>4 DEF LedgerInv, LedgerType
  <2>7. /\ ledger[p].state = "none" /\ ledger[p].attempt = 0 /\ ledger[p].output = 0
        /\ ledger[p].sub = 0 /\ ledger[p].accepted = 0
    <3>1. ledger[p] = NoEntry
      BY <1>3 DEF LedgerInv, EntryInv
    <3> QED
      BY <3>1 DEF NoEntry
  <2>8. Grown
    BY <2>5, <2>7 DEF Grown, Grows
  <2>9. EntryInv'
    <3> SUFFICES ASSUME NEW q \in Positions
                 PROVE  /\ ledger'[q].state = "none" => ledger'[q] = NoEntry
                        /\ ledger'[q].state # "none" =>
                             /\ Receipts # {} /\ ~BehindCutoff(q) /\ q <= water'
                             /\ EntryComplete(ledger'[q])
                        /\ ledger'[q].accepted # 0 => <<q, ledger'[q].accepted>> \in station
                        /\ sends[q] # 0 => ledger'[q].attempt # 0
      BY <1>1 DEF EntryInv
    <3>1. CASE q = p
      <4>1. sends[p] = 0
        BY <2>7 DEF LedgerInv, EntryInv
      <4>2. EntryComplete(new)
        BY <2>3 DEF EntryComplete
      <4> QED
        BY <3>1, <4>1, <4>2, <2>2, <2>3, <2>5, <1>3
    <3>2. CASE q # p
      BY <3>2, <2>2, <2>4, <2>5 DEF LedgerInv, EntryInv
    <3> QED
      BY <3>1, <3>2
  <2>10. LaneInv'
    <3>1. \A i \in Receipts : cutoff[i] \in Nat /\ cutoff[i] <= water
      BY DEF LedgerInv, LedgerType, LaneInv, Receipts
    <3> QED
      BY <2>2, <2>4, <1>1, <3>1 DEF LedgerInv, LaneInv
  <2>11. NoLiveInputIsStale'
    <3> SUFFICES ASSUME NEW q \in Positions, q > acked, q \notin seen, ~BehindCutoff(q),
                        ledger'[q].state = "none"
                 PROVE  q > water'
      BY <1>1 DEF NoLiveInputIsStale
    <3> QED
      BY <2>2, <2>3, <2>4, <2>5
  <2> QED
    BY <2>6, <2>8, <2>9, <2>10, <2>11 DEF LedgerInv
<1> QED
  BY <1>2, <1>3

\* An entry with its fields, for the transactions that change it.
LEMMA EntryInLedger ==
    ASSUME LedgerInv, NEW p \in Positions, ledger[p].state # "none"
    PROVE  /\ ledger[p] \in EntryType
           /\ ledger[p].state \in States /\ ledger[p].input \in Configs \cup {None}
           /\ ledger[p].attempt \in Nat /\ ledger[p].output \in Nat
           /\ ledger[p].sub \in 0..MaxAuthor /\ ledger[p].accepted \in 0..MaxAuthor
           /\ EntryComplete(ledger[p])
           /\ ledger[p].accepted # 0 => <<p, ledger[p].accepted>> \in station
BY DEF LedgerInv, LedgerType, EntryInv, EntryType

\* native_claim_handoff starts the only attempt of an entry.
LEMMA ClaimTransaction ==
    ASSUME LedgerInv, Apart, NEW p \in Positions, NEW c, NativeClaimHandoff(p, c)
    PROVE  /\ LedgerInv' /\ Grown
           /\ ledger[p].attempt = 0 /\ ledger'[p].attempt # 0
<1> DEFINE e == ledger[p]
<1>1. e.state = "ready" /\ UNCHANGED water
  BY DEF NativeClaimHandoff, CanClaim
<1>2. PICK new : /\ new = [e EXCEPT !.state = "started", !.attempt = e.attempt + 1]
                 /\ ledger' = [ledger EXCEPT ![p] = new]
  BY Zenon DEF NativeClaimHandoff, Put
<1>3. e \in EntryType /\ EntryComplete(e) /\ e.attempt \in Nat
  BY <1>1, EntryInLedger
<1>4. new = Entry("started", e.input, e.attempt + 1, e.output, e.sub, e.accepted)
  BY <1>2, <1>3, ClaimedEntry, Zenon
<1>5. /\ new.state = "started" /\ new.input = e.input /\ new.attempt = e.attempt + 1
      /\ new.output = e.output /\ new.sub = e.sub /\ new.accepted = e.accepted
      /\ new \in EntryType
  BY <1>3, <1>4 DEF Entry, EntryType, States
<1>6. e.attempt = 0
  BY <1>1, <1>3 DEF EntryComplete
<1>7. Grows(e, new) /\ EntryComplete(new) /\ new.accepted = 0
  BY <1>1, <1>3, <1>5, <1>6 DEF Grows, EntryComplete
<1>8. LedgerInv' /\ Grown
  BY <1>1, <1>2, <1>5, <1>7, UpdateTransaction
<1> QED
  BY <1>2, <1>5, <1>6, <1>8 DEF LedgerInv, LedgerType

\* native_retain_output gives a started entry the text of its own attempt.
LEMMA RetainTransaction ==
    ASSUME LedgerInv, Apart, NEW p \in Positions, NEW c, NEW t \in Nat, NativeRetainOutput(p, c, t)
    PROVE  LedgerInv' /\ Grown
<1> DEFINE e == ledger[p]
<1>1. /\ e.state # "none" /\ UNCHANGED water /\ e.attempt = t
      /\ e.output = t \/ (e.output = 0 /\ e.state \in {"started", "unknown"})
  BY DEF NativeRetainOutput, CanRetainOutput, Bound
<1>2. CASE e.output = t
  BY <1>1, <1>2, IdleTransaction DEF NativeRetainOutput
<1>3. CASE e.output # t
  <2>1. PICK new : /\ new = [e EXCEPT !.state = "output", !.output = t]
                   /\ ledger' = [ledger EXCEPT ![p] = new]
    BY <1>3, Zenon DEF NativeRetainOutput, Put
  <2>2. e \in EntryType /\ EntryComplete(e)
    BY <1>1, EntryInLedger
  <2>3. new = Entry("output", e.input, e.attempt, t, e.sub, e.accepted)
    BY <2>1, <2>2, OutputEntry, Zenon
  <2>4. /\ new.state = "output" /\ new.input = e.input /\ new.attempt = e.attempt
        /\ new.output = t /\ new.sub = e.sub /\ new.accepted = e.accepted
        /\ new \in EntryType
    BY <2>2, <2>3 DEF Entry, EntryType, States
  <2>5. Grows(e, new) /\ EntryComplete(new) /\ new.accepted = 0
    BY <1>1, <1>3, <2>2, <2>4 DEF Grows, EntryComplete
  <2> QED
    BY <1>1, <2>1, <2>4, <2>5, UpdateTransaction
<1> QED
  BY <1>2, <1>3

\* native_retain_submission retains the first event it is given.
LEMMA FreezeTransaction ==
    ASSUME LedgerInv, Apart, NEW p \in Positions, NEW c, NEW t, NEW n \in 0..MaxAuthor, n # 0,
           NativeRetainSubmission(p, c, t, n)
    PROVE  LedgerInv' /\ Grown /\ ledger'[p].sub = n
<1> DEFINE e == ledger[p]
<1>1. /\ e.state # "none" /\ UNCHANGED water
      /\ e.sub = n \/ (e.sub = 0 /\ e.state = "output")
  BY DEF NativeRetainSubmission, CanRetainSubmission, Bound
<1>2. PICK new : /\ new = [e EXCEPT !.sub = n]
                 /\ ledger' = [ledger EXCEPT ![p] = new]
  BY Zenon DEF NativeRetainSubmission, Put
<1>3. e \in EntryType /\ EntryComplete(e)
  BY <1>1, EntryInLedger
<1>4. new = Entry(e.state, e.input, e.attempt, e.output, n, e.accepted)
  BY <1>2, <1>3, SubmittedEntry, Zenon
<1>5. /\ new.state = e.state /\ new.input = e.input /\ new.attempt = e.attempt
      /\ new.output = e.output /\ new.sub = n /\ new.accepted = e.accepted
      /\ new \in EntryType
  BY <1>3, <1>4 DEF Entry, EntryType
<1>6. Grows(e, new) /\ EntryComplete(new)
  BY <1>1, <1>3, <1>5 DEF Grows, EntryComplete
<1>7. new.accepted # 0 => <<p, new.accepted>> \in station
  BY <1>1, <1>5, EntryInLedger
<1>8. LedgerInv' /\ Grown
  BY <1>1, <1>2, <1>5, <1>6, <1>7, UpdateTransaction
<1> QED
  BY <1>2, <1>5, <1>8 DEF LedgerInv, LedgerType

\* native_mark_accepted records that the Station has the retained event.
LEMMA AcceptTransaction ==
    ASSUME LedgerInv, Apart, NEW p \in Positions, NEW c, NEW n \in 0..MaxAuthor, n # 0,
           <<p, n>> \in station, NativeMarkAccepted(p, c, n)
    PROVE  LedgerInv' /\ Grown /\ ledger'[p].accepted = n
<1> DEFINE e == ledger[p]
<1>1. /\ e.state # "none" /\ UNCHANGED water /\ e.sub = n
      /\ e.accepted = n \/ (e.accepted = 0 /\ e.state = "output")
  BY DEF NativeMarkAccepted, CanMarkAccepted, Bound
<1>2. PICK new : /\ new = [e EXCEPT !.state = "accepted", !.accepted = n]
                 /\ ledger' = [ledger EXCEPT ![p] = new]
  BY Zenon DEF NativeMarkAccepted, Put
<1>3. e \in EntryType /\ EntryComplete(e)
  BY <1>1, EntryInLedger
<1>4. new = Entry("accepted", e.input, e.attempt, e.output, e.sub, n)
  BY <1>2, <1>3, AcceptedEntry, Zenon
<1>5. /\ new.state = "accepted" /\ new.input = e.input /\ new.attempt = e.attempt
      /\ new.output = e.output /\ new.sub = e.sub /\ new.accepted = n
      /\ new \in EntryType
  BY <1>3, <1>4 DEF Entry, EntryType, States
<1>6. Grows(e, new) /\ EntryComplete(new)
  BY <1>1, <1>3, <1>5 DEF Grows, EntryComplete
<1>7. LedgerInv' /\ Grown
  BY <1>1, <1>2, <1>5, <1>6, UpdateTransaction
<1> QED
  BY <1>2, <1>5, <1>7 DEF LedgerInv, LedgerType

(***************************************************************************)
(* What the other parts of the invariant need of a step                    *)
(***************************************************************************)

\* What is behind the cutoff stays behind it.
CutoffKept == \A p \in Positions : Receipts # {} /\ BehindCutoff(p) => (Receipts # {} /\ BehindCutoff(p))'

\* A step outside the ledger.
LEMMA LedgerKept ==
    ASSUME LedgerInv, UNCHANGED <<cutoff, water, ledger>>, first => first',
           acked \in Nat, acked' \in Nat, acked <= acked', seen \subseteq seen',
           station \subseteq station',
           \A p \in Positions : sends'[p] # 0 => ledger[p].attempt # 0,
           \A i \in Intents : saving'[i] # "idle" => first',
           \A i \in Intents : saving'[i] = "read" => head'[i] # 0
    PROVE  LedgerInv' /\ Grown /\ CutoffKept
<1>1. Receipts' = Receipts /\ \A q \in Positions : BehindCutoff(q)' <=> BehindCutoff(q)
  BY DEF Receipts, BehindCutoff
<1>2. LedgerType' /\ Grown /\ CutoffKept
  BY <1>1 DEF LedgerInv, LedgerType, Grown, Grows, CutoffKept
<1>3. EntryInv'
  BY <1>1 DEF LedgerInv, EntryInv
<1>4. LaneInv'
  BY <1>1 DEF LedgerInv, LaneInv
<1>5. NoLiveInputIsStale'
  BY <1>1 DEF LedgerInv, NoLiveInputIsStale, Positions
<1> QED
  BY <1>2, <1>3, <1>4, <1>5 DEF LedgerInv

\* Cutoffs do not change in a transaction on entries.
LEMMA ApartKeepsCutoff == ASSUME Apart PROVE CutoffKept
BY DEF Apart, CutoffKept, Receipts, BehindCutoff

\* What was settled truly stays so.
LEMMA SettledKept ==
    ASSUME Grown, CutoffKept
    PROVE  \A p \in Positions, v \in Verdicts : Settled(p, v) => Settled(p, v)'
BY DEF Grown, Grows, CutoffKept, Settled

\* The retained event of what is queued or committed does not change.
LEMMA OutKept ==
    ASSUME TypeOK, OutInv, Grown, UNCHANGED outVars
    PROVE  OutInv'
<1>1. \A e \in Events : e[1] \in Positions /\ e[2] # 0
  BY DEF Events
<1>2. \A e \in Events : ledger[e[1]].sub = e[2] => ledger'[e[1]].sub = e[2]
  BY <1>1 DEF Grown, Grows
<1> QED
  BY <1>2 DEF OutInv, outVars, ReplyIsRetained

\* The consumer's position in the stream.
LEMMA Ranges ==
    ASSUME TypeOK
    PROVE  /\ acked \in Nat /\ Len(stream) \in Nat /\ Len(stream) <= MaxPos
           /\ acked < Len(stream) => Current \in Positions
<1>1. acked \in 0..MaxPos /\ Len(stream) \in 1..MaxPos
  BY DEF TypeOK, Positions
<1> QED
  BY <1>1, NativeReplyAssumption DEF NativeReplyAssumption, Current, Positions

\* The fields of a transaction.
LEMMA OrphanFields ==
    ASSUME TypeOK, NEW tx \in orphans
    PROVE  /\ tx.op \in TxPcs /\ tx.p \in Positions /\ tx.input \in Configs
           /\ tx.text \in Nat /\ tx.event \in 0..MaxAuthor
<1>1. tx \in Transactions
  BY DEF TypeOK
<1> QED
  BY <1>1 DEF Transactions

\* Transactions without a caller.
LEMMA OrphanKept ==
    ASSUME TypeOK, OrphanInv, orphans' \subseteq orphans, station \subseteq station',
           acked' \in Nat, acked <= acked'
    PROVE  OrphanInv'
<1> SUFFICES ASSUME NEW tx \in orphans'
             PROVE  /\ tx.p <= Current'
                    /\ tx.op \in {"freeze", "accept"} => tx.event # 0
                    /\ tx.op = "accept" => <<tx.p, tx.event>> \in station'
  BY DEF OrphanInv
<1>1. tx \in orphans /\ tx.p \in Nat /\ acked \in Nat
  BY OrphanFields, Ranges DEF Positions
<1> QED
  BY <1>1 DEF OrphanInv, Current

\* A step that the consumer does not take.
LEMMA ConsumerKept ==
    ASSUME TypeOK, ConsumerInv, Grown, CutoffKept, UNCHANGED <<consumerVars, acked, sends>>,
           station \subseteq station', Len(stream') \in Nat, Len(stream) <= Len(stream')
    PROVE  ConsumerInv'
<1>1. acked < Len(stream) => Current \in Positions
  BY Ranges
<1>2. Current' = Current
  BY DEF Current
<1>3. pc = "settle" => Settled(Current, verdict)'
  BY <1>1, <1>2, SettledKept DEF ConsumerInv, consumerVars, TypeOK
<1>4. pc = "send" => ledger'[Current].attempt # 0
  BY <1>1 DEF ConsumerInv, Grown, Grows
<1>5. pc \in {"enqueue", "drain", "accept"} => ledger'[Current].sub = event
  BY <1>1 DEF ConsumerInv, Grown, Grows
<1> QED
  BY <1>2, <1>3, <1>4, <1>5 DEF ConsumerInv, consumerVars, TypeOK

(***************************************************************************)
(* The steps of the consumer                                               *)
(***************************************************************************)

\* The invariant holds the part that is about the ledger.
LEMMA InvLedger == ASSUME ReplyInv PROVE LedgerInv
BY DEF ReplyInv, LedgerInv, LedgerType, TypeOK, EntryType

\* The invariant from its parts, in a step that remembers nothing.
LEMMA Assemble ==
    ASSUME ReplyInv, TypeOK', LedgerInv', Grown, CutoffKept, AtMostOneSend', ConsumerInv',
           OutInv', OrphanInv', UNCHANGED outcome
    PROVE  ReplyInv' /\ Grown
<1>1. \A p \in Positions : outcome[p] \in Verdicts
  BY DEF ReplyInv, TypeOK
<1>2. \A p \in Positions : Settled(p, outcome[p])'
  BY <1>1, SettledKept DEF ReplyInv
<1> QED
  BY <1>2 DEF ReplyInv, LedgerInv

\* A step of the consumer that touches the ledger and its own place at most.
LEMMA PlaceStep ==
    ASSUME ReplyInv, LedgerInv', Grown, ConsumerInv',
           UNCHANGED <<stream, first, cutoff, ownerVars, config, orphans, inboxVars, outVars,
                       countVars, faults>>,
           pc' \in Pcs, text' \in Nat, event' \in 0..MaxAuthor, verdict' \in Verdicts
    PROVE  ReplyInv' /\ Grown
<1>1. TypeOK'
  BY DEF ReplyInv, TypeOK, LedgerInv, LedgerType, EntryType, ownerVars, inboxVars, outVars, countVars
<1>2. CutoffKept
  BY DEF CutoffKept, Receipts, BehindCutoff
<1>3. OutInv'
  BY OutKept DEF ReplyInv
<1>4. OrphanInv'
  BY OrphanKept, Ranges DEF ReplyInv, inboxVars, outVars
<1>5. AtMostOneSend' /\ UNCHANGED outcome
  BY DEF ReplyInv, AtMostOneSend, countVars, inboxVars
<1> QED
  BY <1>1, <1>2, <1>3, <1>4, <1>5, Assemble

\* A step of the consumer outside the ledger.
LEMMA OutsideLedger ==
    ASSUME ReplyInv, UNCHANGED <<ledgerVars, ownerVars, inboxVars, outVars, sends>>
    PROVE  LedgerInv' /\ Grown
<1>1. acked \in Nat
  BY Ranges DEF ReplyInv
<1>2. /\ \A p \in Positions : sends[p] # 0 => ledger[p].attempt # 0
      /\ \A i \in Intents : saving[i] # "idle" => first
      /\ \A i \in Intents : saving[i] = "read" => head[i] # 0
  BY DEF ReplyInv, EntryInv, LaneInv
<1> QED
  BY <1>1, <1>2, InvLedger, LedgerKept DEF ledgerVars, ownerVars, inboxVars, outVars

\* Where the consumer is.
LEMMA Place ==
    ASSUME ReplyInv
    PROVE  /\ pc \in Pcs /\ text \in Nat /\ event \in 0..MaxAuthor /\ verdict \in Verdicts
           /\ config \in Configs /\ acked \in Nat /\ acked \in 0..MaxPos /\ Current <= Current
           /\ Len(stream) \in Nat
           /\ pc # "idle" => acked < Len(stream) /\ Current \in Positions
<1>1. /\ pc \in Pcs /\ text \in Nat /\ event \in 0..MaxAuthor /\ verdict \in Verdicts
      /\ config \in Configs /\ acked \in 0..MaxPos
  BY DEF ReplyInv, TypeOK
<1>2. /\ acked \in Nat /\ Len(stream) \in Nat
      /\ acked < Len(stream) => Current \in Positions
  BY Ranges DEF ReplyInv
<1>3. pc # "idle" => acked < Len(stream)
  BY DEF ReplyInv, ConsumerInv
<1>4. Current <= Current
  BY <1>2 DEF Current
<1> QED
  BY <1>1, <1>2, <1>3, <1>4

\* The inbox head is taken: a remembered message is acknowledged, one that is no live
\* mention is settled, and for a mention reply() is called.
LEMMA TakeStep == ASSUME ReplyInv, Take PROVE ReplyInv' /\ Grown
<1>1. LedgerInv' /\ Grown
  BY OutsideLedger DEF Take, countVars
<1>2. /\ pc' \in {"ack", "prepare", "settle"} /\ text' = text /\ event' = event
      /\ verdict' \in {verdict, "skipped"} /\ acked < Len(stream)
      /\ pc' = "settle" => verdict' = "skipped"
  BY DEF Take, Goto, Settle
<1>3. ConsumerInv'
  BY <1>2 DEF Take, ConsumerInv, Settled, inboxVars
<1> QED
  <2>1. pc' \in Pcs /\ text' \in Nat /\ event' \in 0..MaxAuthor /\ verdict' \in Verdicts
    BY <1>2, Place DEF Pcs, TxPcs, Verdicts
  <2> QED
    BY <1>1, <1>3, <2>1, PlaceStep DEF Take, ledgerVars

\* The entry is prepared, and reply() goes on by its state.
LEMMA PrepareStep == ASSUME ReplyInv, Prepare PROVE ReplyInv' /\ Grown
<1> DEFINE e == ledger'[Current]
<1>1. Current \in Positions /\ acked < Len(stream) /\ config \in Configs /\ acked \in 0..MaxPos
      /\ Current <= Current
  BY Place DEF Prepare
<1>2. Apart /\ Current' = Current
  BY DEF Prepare, Apart, inboxVars, outVars, countVars, Current
<1>3. LedgerInv' /\ Grown
  BY <1>1, <1>2, InvLedger, PrepareTransaction DEF Prepare
<1>4. Receipts # {} /\ Receipts' = Receipts /\ (BehindCutoff(Current)' <=> BehindCutoff(Current))
  BY <1>2 DEF Prepare, NativePrepare, CanPrepare, Receipts, BehindCutoff, Apart
<1>5. CASE BehindCutoff(Current)
  <2>1. pc' = "settle" /\ verdict' = "suppressed" /\ UNCHANGED <<text, event>>
    BY <1>5 DEF Prepare, Settle
  <2>2. ConsumerInv'
    BY <1>1, <1>2, <1>4, <1>5, <2>1 DEF ConsumerInv, Settled, Prepare, inboxVars
  <2> QED
    BY <1>3, <2>1, <2>2, PlaceStep DEF Prepare, ReplyInv, TypeOK, Pcs, Verdicts
<1>6. CASE ~BehindCutoff(Current)
  <2>1. Resume(e)
    BY <1>6 DEF Prepare
  <2>2. e.state # "none"
    <3>1. CASE ledger[Current].state # "none"
      BY <3>1, <1>1, <1>3 DEF Grown, Grows
    <3>2. CASE ledger[Current].state = "none"
      <4>1. PICK r : /\ r = [NoEntry EXCEPT !.state = "ready", !.input = config]
                     /\ ledger' = [ledger EXCEPT ![Current] = r]
        BY <3>2, <1>6, Zenon DEF Prepare, NativePrepare, Put
      <4>2. r = Entry("ready", config, 0, 0, 0, 0)
        BY <4>1, PreparedEntry, Zenon
      <4>3. r.state = "ready"
        BY <4>2 DEF Entry
      <4>4. ledger \in [Positions -> EntryType]
        BY InvLedger DEF LedgerInv, LedgerType
      <4>5. e = r
        BY <4>1, <4>4, <1>1
      <4> QED
        BY <4>3, <4>5
    <3> QED
      BY <3>1, <3>2
  <2>3. /\ e.state \in States /\ e.output \in Nat /\ e.sub \in 0..MaxAuthor /\ EntryComplete(e)
    BY <1>1, <1>3, <2>2 DEF LedgerInv, LedgerType, EntryType, EntryInv
  <2>4. CASE e.state = "ready"
    <3>1. pc' = "claim" /\ UNCHANGED <<text, event, verdict>>
      BY <2>1, <2>4 DEF Resume, Goto
    <3>2. ConsumerInv'
      BY <1>1, <3>1 DEF ConsumerInv, Prepare, inboxVars
    <3> QED
      BY <1>3, <3>1, <3>2, PlaceStep DEF Prepare, ReplyInv, TypeOK, Pcs, TxPcs
  <2>5. CASE e.state = "accepted"
    <3>1. pc' = "settle" /\ verdict' = "accepted" /\ UNCHANGED <<text, event>>
      BY <2>1, <2>5 DEF Resume, Settle
    <3>2. e.accepted # 0
      BY <2>3, <2>5 DEF EntryComplete
    <3>3. ConsumerInv'
      BY <1>1, <1>2, <3>1, <3>2 DEF ConsumerInv, Prepare, inboxVars, Settled
    <3> QED
      BY <1>3, <3>1, <3>3, PlaceStep DEF Prepare, ReplyInv, TypeOK, Pcs, Verdicts
  <2>6. CASE e.state = "output"
    <3>1. /\ text' = e.output /\ event' = e.sub /\ UNCHANGED verdict
          /\ pc' = IF e.sub = 0 THEN "author" ELSE "enqueue"
      BY <2>1, <2>6 DEF Resume
    <3>2. ConsumerInv'
      BY <1>1, <1>2, <3>1 DEF ConsumerInv, Prepare, inboxVars
    <3>3. pc' \in Pcs /\ verdict' \in Verdicts
      BY <3>1 DEF Pcs, ReplyInv, TypeOK
    <3> QED
      BY <1>3, <2>3, <3>1, <3>2, <3>3, PlaceStep DEF Prepare
  <2>7. CASE e.state \in {"started", "unknown"}
    <3>1. pc' = "settle" /\ verdict' = "unknown" /\ UNCHANGED <<text, event>>
      BY <2>1, <2>7 DEF Resume, Settle
    <3>2. e.attempt # 0
      BY <2>3, <2>7 DEF EntryComplete
    <3>3. ConsumerInv'
      BY <1>1, <1>2, <3>1, <3>2 DEF ConsumerInv, Prepare, inboxVars, Settled
    <3> QED
      BY <1>3, <3>1, <3>3, PlaceStep DEF Prepare, ReplyInv, TypeOK, Pcs, Verdicts
  <2> QED
    BY <2>2, <2>3, <2>4, <2>5, <2>6, <2>7 DEF States
<1> QED
  BY <1>5, <1>6

\* The handoff is claimed: the only attempt of the entry, and nothing was sent for it.
LEMMA ClaimStep == ASSUME ReplyInv, Claim PROVE ReplyInv' /\ Grown
<1>1. Current \in Positions /\ acked < Len(stream)
  BY Place DEF Claim
<1>2. Apart /\ Current' = Current /\ sends' = sends
  BY DEF Claim, Apart, inboxVars, outVars, countVars, Current
<1>3. /\ LedgerInv' /\ Grown
      /\ ledger[Current].attempt = 0 /\ ledger'[Current].attempt # 0
  BY <1>1, <1>2, InvLedger, ClaimTransaction DEF Claim
<1>4. sends[Current] = 0
  BY <1>1, <1>3, InvLedger DEF LedgerInv, EntryInv
<1>5. ConsumerInv'
  BY <1>1, <1>2, <1>3, <1>4 DEF Claim, ConsumerInv, inboxVars
<1>6. text' \in Nat
  BY <1>1, <1>3 DEF Claim, LedgerInv, LedgerType, EntryType
<1>7. pc' \in Pcs /\ event' \in 0..MaxAuthor /\ verdict' \in Verdicts
  BY Place DEF Claim, Pcs
<1> QED
  BY <1>3, <1>5, <1>6, <1>7, PlaceStep DEF Claim

\* The one request is made.
LEMMA SendStep == ASSUME ReplyInv, Send PROVE ReplyInv' /\ Grown
<1>1. Current \in Positions /\ acked < Len(stream) /\ acked \in Nat
  BY Place DEF Send
<1>2. ledger[Current].attempt # 0 /\ sends[Current] = 0 /\ sends \in [Positions -> Nat]
  BY DEF ReplyInv, ConsumerInv, Send, TypeOK
<1>3. sends' = [sends EXCEPT ![Current] = 1]
  BY <1>1, <1>2 DEF Send
<1>4. sends' \in [Positions -> Nat] /\ AtMostOneSend'
  BY <1>1, <1>2, <1>3 DEF ReplyInv, AtMostOneSend
<1>5. /\ \A p \in Positions : sends'[p] # 0 => ledger[p].attempt # 0
      /\ \A i \in Intents : saving[i] # "idle" => first
      /\ \A i \in Intents : saving[i] = "read" => head[i] # 0
  BY <1>1, <1>2, <1>3 DEF ReplyInv, EntryInv, LaneInv
<1>6. LedgerInv' /\ Grown /\ CutoffKept
  BY <1>1, <1>5, InvLedger, LedgerKept DEF Send, ledgerVars, ownerVars, inboxVars, outVars
<1>7. pc' = "stream" /\ UNCHANGED <<text, event, verdict>>
  BY DEF Send, Goto
<1>8. ConsumerInv'
  BY <1>1, <1>7 DEF Send, ConsumerInv, inboxVars
<1>9. TypeOK'
  BY <1>4, <1>7 DEF Send, ReplyInv, TypeOK, ledgerVars, ownerVars, inboxVars, outVars, Pcs
<1>10. OutInv' /\ OrphanInv' /\ UNCHANGED outcome
  BY <1>1, <1>6, OutKept, OrphanKept DEF ReplyInv, Send, inboxVars, outVars
<1> QED
  BY <1>4, <1>6, <1>8, <1>9, <1>10, Assemble

\* A step of the consumer that touches its own place only.
LEMMA OwnStep ==
    ASSUME ReplyInv, ConsumerInv',
           UNCHANGED <<stream, ledgerVars, ownerVars, config, orphans, inboxVars, outVars,
                       countVars, faults>>,
           pc' \in Pcs, text' \in Nat, event' \in 0..MaxAuthor, verdict' \in Verdicts
    PROVE  ReplyInv' /\ Grown
<1>1. LedgerInv' /\ Grown
  BY OutsideLedger DEF countVars
<1> QED
  BY <1>1, PlaceStep DEF ledgerVars

\* The response completes.
LEMMA CompleteStep == ASSUME ReplyInv, Complete PROVE ReplyInv' /\ Grown
<1>1. pc' = "retain" /\ UNCHANGED <<text, event, verdict>> /\ acked < Len(stream)
  BY Place DEF Complete, Goto
<1>2. ConsumerInv'
  BY <1>1 DEF Complete, ConsumerInv, inboxVars
<1>3. pc' \in Pcs /\ text' \in Nat /\ event' \in 0..MaxAuthor /\ verdict' \in Verdicts
  BY <1>1, Place DEF Pcs, TxPcs
<1> QED
  BY <1>2, <1>3, OwnStep DEF Complete

\* reply() fails: the consumer starts over with the same message.
LEMMA GiveUpStep ==
    ASSUME ReplyInv, GiveUp,
           UNCHANGED <<stream, ledgerVars, ownerVars, config, orphans, inboxVars, outVars,
                       countVars, faults>>
    PROVE  ReplyInv' /\ Grown
<1>1. ConsumerInv'
  BY DEF GiveUp, ConsumerInv
<1>2. pc' \in Pcs /\ text' \in Nat /\ event' \in 0..MaxAuthor /\ verdict' \in Verdicts
  BY NativeReplyAssumption DEF GiveUp, Pcs, Verdicts, NativeReplyAssumption
<1> QED
  BY <1>1, <1>2, OwnStep

\* The text of the attempt is retained.
LEMMA RetainOutputStep == ASSUME ReplyInv, RetainOutput PROVE ReplyInv' /\ Grown
<1>1. Current \in Positions /\ acked < Len(stream) /\ text \in Nat
  BY Place DEF RetainOutput
<1>2. Apart
  BY DEF RetainOutput, Apart, inboxVars, outVars, countVars
<1>3. LedgerInv' /\ Grown
  BY <1>1, <1>2, InvLedger, RetainTransaction DEF RetainOutput
<1>4. pc' = "author" /\ UNCHANGED <<text, event, verdict>>
  BY DEF RetainOutput, Goto
<1>5. ConsumerInv'
  BY <1>1, <1>4 DEF RetainOutput, ConsumerInv, inboxVars
<1>6. pc' \in Pcs /\ text' \in Nat /\ event' \in 0..MaxAuthor /\ verdict' \in Verdicts
  BY <1>4, Place DEF Pcs
<1> QED
  BY <1>3, <1>5, <1>6, PlaceStep DEF RetainOutput

\* Another event is authored for the text.
LEMMA AuthorStep == ASSUME ReplyInv, Author PROVE ReplyInv' /\ Grown
<1>1. Current \in Positions /\ acked < Len(stream) /\ acked \in Nat
  BY Place DEF Author
<1>2. authored \in [Positions -> 0..MaxAuthor] /\ MaxAuthor \in Nat
  BY NativeReplyAssumption DEF ReplyInv, TypeOK, NativeReplyAssumption
<1>3. /\ authored' = [authored EXCEPT ![Current] = authored[Current] + 1]
      /\ authored[Current] < MaxAuthor /\ event' = authored'[Current]
  BY DEF Author
<1>4. /\ authored' \in [Positions -> 0..MaxAuthor]
      /\ event' \in 0..MaxAuthor /\ event' # 0
  BY <1>1, <1>2, <1>3
<1>5. LedgerInv' /\ Grown
  BY OutsideLedger DEF Author
<1>6. ConsumerInv'
  BY <1>1, <1>4 DEF Author, ConsumerInv, inboxVars
<1>7. pc' = "freeze" /\ UNCHANGED <<text, verdict>>
  BY DEF Author
<1>8. TypeOK'
  BY <1>4, <1>7 DEF Author, ReplyInv, TypeOK, ledgerVars, ownerVars, inboxVars, outVars, Pcs, TxPcs
<1>9. CutoffKept
  BY DEF Author, ledgerVars, CutoffKept, Receipts, BehindCutoff
<1>10. OutInv' /\ OrphanInv' /\ UNCHANGED outcome /\ AtMostOneSend'
  BY <1>1, <1>5, OutKept, OrphanKept DEF ReplyInv, Author, inboxVars, outVars, AtMostOneSend
<1> QED
  BY <1>5, <1>6, <1>8, <1>9, <1>10, Assemble

\* The event is frozen: the ledger retains it, or has retained it before.
LEMMA RetainSubmissionStep == ASSUME ReplyInv, RetainSubmission PROVE ReplyInv' /\ Grown
<1>1. Current \in Positions /\ acked < Len(stream) /\ event \in 0..MaxAuthor
  BY Place DEF RetainSubmission
<1>2. Apart /\ event # 0
  BY DEF RetainSubmission, Apart, inboxVars, outVars, countVars, ReplyInv, ConsumerInv
<1>3. LedgerInv' /\ Grown /\ ledger'[Current].sub = event
  BY <1>1, <1>2, InvLedger, FreezeTransaction DEF RetainSubmission
<1>4. pc' = "enqueue" /\ UNCHANGED <<text, event, verdict>>
  BY DEF RetainSubmission, Goto
<1>5. ConsumerInv'
  BY <1>1, <1>2, <1>3, <1>4 DEF RetainSubmission, ConsumerInv, inboxVars, Current
<1>6. pc' \in Pcs /\ text' \in Nat /\ event' \in 0..MaxAuthor /\ verdict' \in Verdicts
  BY <1>4, Place DEF Pcs
<1> QED
  BY <1>3, <1>5, <1>6, PlaceStep DEF RetainSubmission

\* The retained event is handed to the outbound queue.
LEMMA EnqueueStep == ASSUME ReplyInv, Enqueue PROVE ReplyInv' /\ Grown
<1>1. /\ Current \in Positions /\ acked < Len(stream) /\ acked \in Nat
      /\ event \in 0..MaxAuthor /\ event # 0 /\ ledger[Current].sub = event
  BY Place DEF Enqueue, ReplyInv, ConsumerInv
<1>2. CASE UNCHANGED queue /\ GiveUp
  BY <1>2, GiveUpStep DEF Enqueue, outVars
<1>3. CASE /\ queue' = [queue EXCEPT ![<<Current, event>>] =
                            IF queue[<<Current, event>>] = "absent"
                              THEN "queued" ELSE queue[<<Current, event>>]]
           /\ Goto("drain")
  <2> DEFINE m == <<Current, event>>
  <2>1. m \in Events /\ m[1] = Current /\ m[2] = event
    <3>1. event \in 1..MaxAuthor
      BY <1>1, NativeReplyAssumption DEF NativeReplyAssumption
    <3> QED
      BY <1>1, <3>1 DEF Events
  <2>2. queue \in [Events -> {"absent", "queued", "committed", "refused"}]
    BY DEF ReplyInv, TypeOK
  <2>3. PICK s \in {"queued", "committed", "refused"} :
             /\ queue' = [queue EXCEPT ![m] = s]
             /\ s = "committed" => queue[m] = "committed"
    BY <1>3, <2>1, <2>2
  <2>4. queue' \in [Events -> {"absent", "queued", "committed", "refused"}]
    BY <2>2, <2>3
  <2>5. UNCHANGED <<ledgerVars, ownerVars, inboxVars, station, sends>>
    BY DEF Enqueue, countVars
  <2>6. LedgerInv' /\ Grown /\ CutoffKept
    <3>1. /\ \A p \in Positions : sends[p] # 0 => ledger[p].attempt # 0
          /\ \A i \in Intents : saving[i] # "idle" => first
          /\ \A i \in Intents : saving[i] = "read" => head[i] # 0
      BY DEF ReplyInv, EntryInv, LaneInv
    <3> QED
      BY <1>1, <2>5, <3>1, InvLedger, LedgerKept DEF ledgerVars, ownerVars, inboxVars
  <2>7. pc' = "drain" /\ UNCHANGED <<text, event, verdict>>
    BY <1>3 DEF Goto
  <2>8. ConsumerInv'
    BY <1>1, <2>5, <2>7 DEF Enqueue, ConsumerInv, Current, inboxVars, ledgerVars
  <2>9. TypeOK'
    BY <2>4, <2>7 DEF Enqueue, ReplyInv, TypeOK, ledgerVars, ownerVars, inboxVars, countVars, Pcs
  <2>10. OutInv'
    BY <1>1, <2>1, <2>2, <2>3, <2>5 DEF ReplyInv, OutInv, ReplyIsRetained, ledgerVars
  <2>11. OrphanInv' /\ UNCHANGED outcome /\ AtMostOneSend'
    BY <1>1, <2>5, OrphanKept DEF ReplyInv, Enqueue, inboxVars, AtMostOneSend
  <2> QED
    BY <2>6, <2>8, <2>9, <2>10, <2>11, Assemble
<1> QED
  BY <1>2, <1>3 DEF Enqueue

\* The drain ends, and only a committed event goes on to be marked accepted.
LEMMA DrainedStep == ASSUME ReplyInv, Drained PROVE ReplyInv' /\ Grown
<1>1. CASE queue[<<Current, event>>] # "committed"
  BY <1>1, GiveUpStep DEF Drained
<1>2. CASE queue[<<Current, event>>] = "committed"
  <2>1. /\ Current \in Positions /\ acked < Len(stream)
        /\ event \in 0..MaxAuthor /\ event # 0 /\ ledger[Current].sub = event
    BY Place DEF Drained, ReplyInv, ConsumerInv
  <2>2. event \in 1..MaxAuthor
    BY <2>1, NativeReplyAssumption DEF NativeReplyAssumption
  <2>3. <<Current, event>> \in station
    BY <1>2, <2>1, <2>2 DEF ReplyInv, OutInv, Events
  <2>4. pc' = "accept" /\ UNCHANGED <<text, event, verdict>>
    BY <1>2 DEF Drained, Goto
  <2>5. ConsumerInv'
    BY <2>1, <2>3, <2>4 DEF Drained, ConsumerInv, Current, inboxVars, ledgerVars, outVars
  <2>6. pc' \in Pcs /\ text' \in Nat /\ event' \in 0..MaxAuthor /\ verdict' \in Verdicts
    BY <2>4, Place DEF Pcs, TxPcs
  <2> QED
    BY <2>5, <2>6, OwnStep DEF Drained
<1> QED
  BY <1>1, <1>2

\* The receipt of the committed event is retained, and reply() returns.
LEMMA MarkAcceptedStep == ASSUME ReplyInv, MarkAccepted PROVE ReplyInv' /\ Grown
<1>1. /\ Current \in Positions /\ acked < Len(stream) /\ event \in 0..MaxAuthor
      /\ event # 0 /\ <<Current, event>> \in station
  BY Place DEF MarkAccepted, ReplyInv, ConsumerInv
<1>2. Apart
  BY DEF MarkAccepted, Apart, inboxVars, outVars, countVars
<1>3. LedgerInv' /\ Grown /\ ledger'[Current].accepted = event
  BY <1>1, <1>2, InvLedger, AcceptTransaction DEF MarkAccepted
<1>4. pc' = "settle" /\ verdict' = "accepted" /\ UNCHANGED <<text, event>>
  BY DEF MarkAccepted, Settle
<1>5. ConsumerInv'
  BY <1>1, <1>3, <1>4 DEF MarkAccepted, ConsumerInv, Settled, inboxVars, Current
<1>6. pc' \in Pcs /\ text' \in Nat /\ event' \in 0..MaxAuthor /\ verdict' \in Verdicts
  BY <1>4, Place DEF Pcs, Verdicts
<1> QED
  BY <1>3, <1>5, <1>6, PlaceStep DEF MarkAccepted

\* The message is remembered under the verdict of reply().
LEMMA RememberStep == ASSUME ReplyInv, Remember PROVE ReplyInv' /\ Grown
<1>1. Current \in Positions /\ acked < Len(stream) /\ acked \in Nat /\ verdict \in Verdicts
  BY Place DEF Remember
<1>2. pc' = "ack" /\ UNCHANGED <<text, event, verdict>>
  BY DEF Remember, Goto
<1>3. /\ \A p \in Positions : sends[p] # 0 => ledger[p].attempt # 0
      /\ \A i \in Intents : saving[i] # "idle" => first
      /\ \A i \in Intents : saving[i] = "read" => head[i] # 0
  BY DEF ReplyInv, EntryInv, LaneInv
<1>4. LedgerInv' /\ Grown /\ CutoffKept
  BY <1>1, <1>3, InvLedger, LedgerKept DEF Remember, ledgerVars, ownerVars, outVars, countVars
<1>5. outcome \in [Positions -> Verdicts] /\ outcome' = [outcome EXCEPT ![Current] = verdict]
  BY DEF ReplyInv, TypeOK, Remember
<1>6. ConsumerInv'
  BY <1>1, <1>2 DEF Remember, ConsumerInv
<1>7. outcome' \in [Positions -> Verdicts] /\ seen' \subseteq Positions
  BY <1>1, <1>5 DEF Remember, ReplyInv, TypeOK
<1>8. TypeOK'
  BY <1>2, <1>7 DEF Remember, ReplyInv, TypeOK, ledgerVars, ownerVars, outVars, countVars, Pcs
<1>9. OutInv' /\ OrphanInv' /\ AtMostOneSend'
  BY <1>1, <1>4, OutKept, OrphanKept DEF ReplyInv, Remember, outVars, countVars, AtMostOneSend
<1>10. \A p \in Positions : Settled(p, outcome'[p])
  BY <1>1, <1>5 DEF ReplyInv, Remember, ConsumerInv
<1>11. \A p \in Positions : Settled(p, outcome[p])'
  BY <1>10 DEF Remember, ledgerVars, Settled, Receipts, BehindCutoff
<1> QED
  BY <1>4, <1>6, <1>8, <1>9, <1>11 DEF ReplyInv, LedgerInv

\* The delivery is acknowledged, and the next message becomes the inbox head.
LEMMA AckStep == ASSUME ReplyInv, Ack PROVE ReplyInv' /\ Grown
<1>1. acked < Len(stream) /\ acked \in Nat /\ acked' = acked + 1
  BY Place DEF Ack
<1>2. acked' \in 0..MaxPos
  BY <1>1, Ranges, NativeReplyAssumption DEF ReplyInv, NativeReplyAssumption
<1>3. /\ \A p \in Positions : sends[p] # 0 => ledger[p].attempt # 0
      /\ \A i \in Intents : saving[i] # "idle" => first
      /\ \A i \in Intents : saving[i] = "read" => head[i] # 0
  BY DEF ReplyInv, EntryInv, LaneInv
<1>4. LedgerInv' /\ Grown /\ CutoffKept
  BY <1>1, <1>3, InvLedger, LedgerKept DEF Ack, ledgerVars, ownerVars, outVars, countVars
<1>5. pc' = "idle" /\ text' = 0 /\ event' = 0 /\ verdict' = "none"
  BY DEF Ack, GiveUp
<1>6. ConsumerInv'
  BY <1>5 DEF ConsumerInv
<1>7. pc' \in Pcs /\ text' \in Nat /\ event' \in 0..MaxAuthor /\ verdict' \in Verdicts
  BY <1>5, NativeReplyAssumption DEF NativeReplyAssumption, Pcs, Verdicts
<1>8. TypeOK'
  BY <1>2, <1>7 DEF Ack, ReplyInv, TypeOK, ledgerVars, ownerVars, outVars, countVars
<1>9. OutInv' /\ OrphanInv' /\ AtMostOneSend' /\ UNCHANGED outcome
  BY <1>1, <1>4, OutKept, OrphanKept DEF ReplyInv, Ack, outVars, countVars, AtMostOneSend
<1> QED
  BY <1>4, <1>6, <1>8, <1>9, Assemble

\* Every step of the consumer.
LEMMA ConsumerStepInv == ASSUME ReplyInv, ConsumerStep PROVE ReplyInv' /\ Grown
<1>1. CASE Denied
  BY <1>1, GiveUpStep DEF Denied
<1>2. CASE Reject
  BY <1>2, GiveUpStep DEF Reject
<1> QED
  BY <1>1, <1>2, TakeStep, PrepareStep, ClaimStep, SendStep, CompleteStep, RetainOutputStep,
     AuthorStep, RetainSubmissionStep, EnqueueStep, DrainedStep, MarkAcceptedStep, RememberStep,
     AckStep DEF ConsumerStep

(***************************************************************************)
(* The configuration owner, the environment and the faults                 *)
(***************************************************************************)

\* A step of the owner, the Station, the stream or an orphan: the consumer stays where it is.
LEMMA OtherStep ==
    ASSUME ReplyInv, TypeOK', LedgerInv', Grown, CutoffKept, OutInv',
           UNCHANGED <<consumerVars, inboxVars, countVars>>, orphans' \subseteq orphans,
           station \subseteq station', Len(stream) <= Len(stream')
    PROVE  ReplyInv' /\ Grown
<1>1. Len(stream') \in Nat
  BY DEF TypeOK, Positions
<1>2. ConsumerInv'
  BY <1>1, ConsumerKept DEF ReplyInv, inboxVars, countVars
<1>3. OrphanInv'
  BY OrphanKept, Place DEF ReplyInv, inboxVars
<1>4. AtMostOneSend' /\ UNCHANGED outcome
  BY DEF ReplyInv, AtMostOneSend, countVars, inboxVars
<1> QED
  BY <1>2, <1>3, <1>4, Assemble

\* A step of the owner, who touches the ledger and his own place.
LEMMA OwnerStep ==
    ASSUME ReplyInv, LedgerInv', Grown, CutoffKept, first' \in BOOLEAN,
           saving' \in [Intents -> {"idle", "resumed", "read"}],
           head' \in [Intents -> 0..MaxPos],
           UNCHANGED <<stream, config, consumerVars, orphans, inboxVars, outVars, countVars, faults>>
    PROVE  ReplyInv' /\ Grown
<1>1. TypeOK'
  BY DEF ReplyInv, TypeOK, LedgerInv, LedgerType, EntryType, consumerVars, inboxVars, outVars,
         countVars
<1>2. OutInv'
  BY OutKept DEF ReplyInv
<1>3. station \subseteq station' /\ Len(stream) <= Len(stream')
  BY Place DEF outVars
<1> QED
  BY <1>1, <1>2, <1>3, OtherStep

\* What the owner's variables are.
LEMMA OwnerPlace ==
    ASSUME ReplyInv
    PROVE  /\ saving \in [Intents -> {"idle", "resumed", "read"}]
           /\ head \in [Intents -> 0..MaxPos] /\ first \in BOOLEAN
           /\ \A p \in Positions : sends[p] # 0 => ledger[p].attempt # 0
           /\ \A i \in Intents : saving[i] # "idle" => first
           /\ \A i \in Intents : saving[i] = "read" => head[i] # 0
BY DEF ReplyInv, TypeOK, EntryInv, LaneInv

\* The first Save.
LEMMA FirstConfigStep == ASSUME ReplyInv, FirstConfig PROVE ReplyInv' /\ Grown
<1>1. LedgerInv' /\ Grown /\ CutoffKept
  BY OwnerPlace, Place, InvLedger, LedgerKept DEF FirstConfig, ownerVars, inboxVars, outVars, countVars
<1> QED
  BY <1>1, OwnerPlace, OwnerStep DEF FirstConfig, ownerVars

\* The heads are read: of a stream that has a commit.
LEMMA ReadHeadsStep == ASSUME ReplyInv, NEW i \in Intents, ReadHeads(i) PROVE ReplyInv' /\ Grown
<1>1. Len(stream) \in 1..MaxPos
  BY DEF ReplyInv, TypeOK, Positions
<1>2. Len(stream) \in 0..MaxPos /\ Len(stream) # 0
  BY <1>1
<1>3. /\ saving' \in [Intents -> {"idle", "resumed", "read"}]
      /\ head' \in [Intents -> 0..MaxPos]
  BY <1>2, OwnerPlace DEF ReadHeads
<1>4. first
  BY OwnerPlace DEF ReadHeads
<1>5. \A j \in Intents : saving'[j] = "read" => head'[j] # 0
  BY <1>2, OwnerPlace DEF ReadHeads
<1>6. LedgerInv' /\ Grown /\ CutoffKept
  BY <1>4, <1>5, OwnerPlace, Place, InvLedger, LedgerKept
  DEF ReadHeads, ledgerVars, inboxVars, outVars, countVars
<1> QED
  BY <1>3, <1>4, <1>6, OwnerStep DEF ReadHeads, ledgerVars

\* Every started handoff becomes an unknown one, and keeps its attempt.
LEMMA SaveResumeStep == ASSUME ReplyInv, NEW i \in Intents, SaveResume(i) PROVE ReplyInv' /\ Grown
<1>1. ledger \in [Positions -> EntryType]
  BY InvLedger DEF LedgerInv, LedgerType
<1>2. \A p \in Positions :
         ledger'[p] = IF ledger[p].state = "started"
                        THEN Entry("unknown", ledger[p].input, ledger[p].attempt, ledger[p].output,
                                   ledger[p].sub, ledger[p].accepted)
                        ELSE ledger[p]
  <2> SUFFICES ASSUME NEW p \in Positions
               PROVE  ledger'[p] = IF ledger[p].state = "started"
                        THEN Entry("unknown", ledger[p].input, ledger[p].attempt, ledger[p].output,
                                   ledger[p].sub, ledger[p].accepted)
                        ELSE ledger[p]
    OBVIOUS
  <2>1. ledger[p] \in EntryType
    BY <1>1
  <2>2. CASE ledger[p].state = "started"
    <3>1. ledger'[p] = [ledger[p] EXCEPT !.state = "unknown"]
      BY <2>2, Zenon DEF SaveResume
    <3> QED
      BY <2>1, <2>2, <3>1, UnknownEntry, Zenon
  <2>3. CASE ledger[p].state # "started"
    BY <2>3, Zenon DEF SaveResume
  <2> QED
    BY <2>2, <2>3, Zenon
<1>3. \A p \in Positions :
         /\ ledger'[p].input = ledger[p].input /\ ledger'[p].attempt = ledger[p].attempt
         /\ ledger'[p].output = ledger[p].output /\ ledger'[p].sub = ledger[p].sub
         /\ ledger'[p].accepted = ledger[p].accepted
         /\ ledger'[p].state = IF ledger[p].state = "started" THEN "unknown" ELSE ledger[p].state
         /\ ledger[p].state = "none" => ledger'[p] = ledger[p]
         /\ ledger'[p] \in EntryType
  <2> TAKE p \in Positions
  <2>1. ledger[p] \in EntryType
    BY <1>1
  <2>2. CASE ledger[p].state = "started"
    <3>1. ledger'[p] = Entry("unknown", ledger[p].input, ledger[p].attempt, ledger[p].output,
                             ledger[p].sub, ledger[p].accepted)
      BY <1>2, <2>2, Zenon
    <3> QED
      BY <2>1, <2>2, <3>1 DEF Entry, EntryType, States
  <2>3. CASE ledger[p].state # "started"
    <3>1. ledger'[p] = ledger[p]
      BY <1>2, <2>3, Zenon
    <3> QED
      BY <2>1, <2>3, <3>1
  <2> QED
    BY <2>2, <2>3, Zenon
<1>4. Grown
  BY <1>3 DEF Grown, Grows
<1>5. ledger' = [p \in Positions |-> ledger'[p]]
  <2> DEFINE F(p) == IF ledger[p].state = "started" THEN [ledger[p] EXCEPT !.state = "unknown"]
                                                    ELSE ledger[p]
  <2>1. ledger' = [p \in Positions |-> F(p)]
    BY Zenon DEF SaveResume
  <2> HIDE DEF F
  <2> QED
    BY <2>1
<1>6. ledger' \in [Positions -> EntryType]
  BY <1>3, <1>5
<1>7. /\ saving' = [saving EXCEPT ![i] = "resumed"]
      /\ UNCHANGED <<first, cutoff, water, head, acked, seen, station, sends>> /\ first
  BY Zenon DEF SaveResume, inboxVars, outVars, countVars
<1>8. Receipts' = Receipts /\ \A q \in Positions : BehindCutoff(q)' <=> BehindCutoff(q)
  BY <1>7 DEF Receipts, BehindCutoff
<1>9. EntryInv'
  <2> SUFFICES ASSUME NEW q \in Positions
               PROVE  /\ ledger'[q].state = "none" => ledger'[q] = NoEntry
                      /\ ledger'[q].state # "none" =>
                           /\ Receipts # {} /\ ~BehindCutoff(q) /\ q <= water
                           /\ EntryComplete(ledger'[q])
                      /\ ledger'[q].accepted # 0 => <<q, ledger'[q].accepted>> \in station
                      /\ sends[q] # 0 => ledger'[q].attempt # 0
    BY <1>7, <1>8 DEF EntryInv
  <2>1. ledger[q].state # "none" => EntryComplete(ledger[q]) /\ EntryComplete(ledger'[q])
    BY <1>3 DEF ReplyInv, EntryInv, EntryComplete
  <2> QED
    BY <2>1, <1>3 DEF ReplyInv, EntryInv
<1>10. LaneInv'
  BY <1>7, <1>8, OwnerPlace DEF ReplyInv, LaneInv
<1>11. NoLiveInputIsStale'
  BY <1>3, <1>7, <1>8 DEF ReplyInv, NoLiveInputIsStale
<1>12. LedgerInv' /\ CutoffKept
  BY <1>6, <1>7, <1>8, <1>9, <1>10, <1>11, InvLedger DEF LedgerInv, LedgerType, CutoffKept
<1>13. /\ saving' \in [Intents -> {"idle", "resumed", "read"}]
       /\ head' \in [Intents -> 0..MaxPos] /\ first' \in BOOLEAN
  BY <1>7, OwnerPlace
<1>14. UNCHANGED <<stream, config, consumerVars, orphans, inboxVars, outVars, countVars, faults>>
  BY Zenon DEF SaveResume
<1> QED
  BY <1>4, <1>12, <1>13, <1>14, OwnerStep

\* A receipt is retained: the head opens the lane, and a later receipt takes the watermark,
\* which is not below any cutoff, so that the least cutoff stays the same.
LEMMA InitializeBatchStep == ASSUME ReplyInv, NEW i \in Intents, InitializeBatch(i) PROVE ReplyInv' /\ Grown
<1>1. /\ saving' = [saving EXCEPT ![i] = "idle"] /\ head' = [head EXCEPT ![i] = 0]
      /\ saving[i] = "read" /\ first /\ head[i] # 0
      /\ UNCHANGED <<first, ledger, acked, seen, station, sends>>
  BY OwnerPlace DEF InitializeBatch, inboxVars, outVars, countVars
<1>2. MaxPos \in Nat
  BY NativeReplyAssumption DEF NativeReplyAssumption
<1>3. /\ saving' \in [Intents -> {"idle", "resumed", "read"}]
      /\ head' \in [Intents -> 0..MaxPos]
  BY <1>1, <1>2, OwnerPlace
<1>4. \A j \in Intents : saving'[j] = "read" => head'[j] # 0
  BY <1>1, OwnerPlace
<1>5. /\ cutoff \in [Intents -> 0..MaxPos] /\ water \in 0..MaxPos /\ head[i] \in 0..MaxPos
      /\ ledger \in [Positions -> EntryType]
  BY InvLedger, OwnerPlace DEF LedgerInv, LedgerType
<1>6. CASE cutoff[i] # 0
  <2>1. LedgerInv' /\ Grown /\ CutoffKept
    BY <1>1, <1>4, <1>6, OwnerPlace, Place, InvLedger, LedgerKept DEF InitializeBatch
  <2> QED
    BY <1>1, <1>3, <2>1, OwnerPlace, OwnerStep DEF InitializeBatch
<1>7. CASE cutoff[i] = 0
  <2>1. /\ water' = IF water = 0 THEN head[i] ELSE water
        /\ cutoff' = [cutoff EXCEPT ![i] = water']
    BY <1>7 DEF InitializeBatch
  <2>2. water' \in 0..MaxPos /\ water' # 0
    BY <1>1, <1>5, <2>1
  <2>3. /\ cutoff' \in [Intents -> 0..MaxPos] /\ cutoff'[i] = water'
        /\ \A j \in Intents \ {i} : cutoff'[j] = cutoff[j]
    BY <1>5, <2>1, <2>2
  <2>4. Receipts' = Receipts \cup {i}
    BY <1>5, <2>2, <2>3 DEF Receipts
  <2>5. \A j \in Receipts : cutoff'[j] = cutoff[j] /\ cutoff[j] \in Nat
    BY <1>5, <1>7, <2>3 DEF Receipts
  <2>6. \A q \in Positions : Receipts # {} => (BehindCutoff(q)' <=> BehindCutoff(q))
    <3> SUFFICES ASSUME NEW q \in Positions, Receipts # {}
                 PROVE  BehindCutoff(q)' <=> BehindCutoff(q)
      OBVIOUS
    <3>1. water' = water /\ \A j \in Receipts : water >= cutoff[j]
      BY <1>5, <2>1 DEF ReplyInv, LaneInv
    <3>2. BehindCutoff(q)' <=> \A j \in Receipts \cup {i} : q <= cutoff'[j]
      BY <2>4 DEF BehindCutoff
    <3>3. BehindCutoff(q) <=> \A j \in Receipts : q <= cutoff[j]
      BY DEF BehindCutoff
    <3>4. q \in Nat /\ water \in Nat
      BY <1>5 DEF Positions
    <3>5. PICK k \in Receipts : TRUE
      OBVIOUS
    <3> QED
      BY <2>3, <2>5, <3>1, <3>2, <3>3, <3>4, <3>5
  <2>7. CutoffKept
    BY <2>4, <2>6 DEF CutoffKept
  <2>8. Grown
    BY <1>1 DEF Grown, Grows
  <2>9. \A q \in Positions : ledger[q].state # "none" => Receipts # {} /\ water' = water
    BY <2>1, <1>5 DEF ReplyInv, EntryInv, LaneInv
  <2>10. EntryInv'
    BY <1>1, <2>4, <2>6, <2>9 DEF ReplyInv, EntryInv
  <2>11. LaneInv'
    <3>1. \A j \in Receipts \cup {i} : water' >= cutoff'[j]
      BY <1>5, <2>1, <2>2, <2>3, <2>5 DEF ReplyInv, LaneInv
    <3> QED
      BY <1>1, <1>4, <2>2, <2>4, <3>1 DEF LaneInv
  <2>12. NoLiveInputIsStale'
    <3> SUFFICES ASSUME NEW q \in Positions, q > acked, q \notin seen, ~BehindCutoff(q)',
                        ledger[q].state = "none"
                 PROVE  q > water'
      BY <1>1 DEF NoLiveInputIsStale
    <3>1. CASE Receipts # {}
      <4>1. water' = water
        BY <3>1, <2>1, <1>5 DEF ReplyInv, LaneInv
      <4> QED
        BY <3>1, <4>1, <2>6 DEF ReplyInv, NoLiveInputIsStale
    <3>2. CASE Receipts = {}
      <4>1. Receipts' = {i}
        BY <3>2, <2>4
      <4>2. ~(q <= cutoff'[i])
        BY <4>1 DEF BehindCutoff
      <4>3. q \in Nat /\ water' \in Nat
        BY <2>2 DEF Positions
      <4> QED
        BY <4>2, <4>3, <2>3
    <3> QED
      BY <3>1, <3>2
  <2>13. LedgerInv'
    BY <1>1, <1>5, <2>2, <2>3, <2>10, <2>11, <2>12 DEF LedgerInv, LedgerType
  <2> QED
    BY <1>1, <1>3, <2>7, <2>8, <2>13, OwnerPlace, OwnerStep DEF InitializeBatch
<1> QED
  BY <1>6, <1>7

\* Another message in the stream.
LEMMA PostStep == ASSUME ReplyInv, NEW mention \in BOOLEAN, Post(mention) PROVE ReplyInv' /\ Grown
<1>1. stream \in Seq(BOOLEAN) /\ Len(stream) \in 1..MaxPos /\ MaxPos \in Nat
  BY NativeReplyAssumption DEF ReplyInv, TypeOK, Positions, NativeReplyAssumption
<1>2. stream' \in Seq(BOOLEAN) /\ Len(stream') = Len(stream) + 1 /\ Len(stream') \in 1..MaxPos
  BY <1>1 DEF Post
<1>3. LedgerInv' /\ Grown
  BY OutsideLedger DEF Post, countVars
<1>4. TypeOK'
  BY <1>2 DEF ReplyInv, TypeOK, Post, ledgerVars, ownerVars, consumerVars, inboxVars, outVars,
              countVars, Positions
<1>5. OutInv' /\ CutoffKept
  BY <1>3, OutKept DEF ReplyInv, Post, ledgerVars, CutoffKept, Receipts, BehindCutoff
<1>6. Len(stream) <= Len(stream') /\ station' = station /\ orphans' = orphans
  BY <1>1, <1>2 DEF Post, outVars
<1> QED
  BY <1>3, <1>4, <1>5, <1>6, OtherStep DEF Post

\* The Station commits an event of the queue, or it is refused.
LEMMA SubmitStep == ASSUME ReplyInv, NEW e \in Events, Submit(e) PROVE ReplyInv' /\ Grown
<1>1. queue \in [Events -> {"absent", "queued", "committed", "refused"}]
  BY DEF ReplyInv, TypeOK
<1>2. ledger[e[1]].sub = e[2]
  BY DEF Submit, ReplyInv, OutInv
<1>3. /\ station' \in {station, station \cup {e}}
      /\ queue' = queue \/ \E s \in {"committed", "refused"} :
                               /\ queue' = [queue EXCEPT ![e] = s]
                               /\ s = "committed" => e \in station'
  BY DEF Submit
<1>4. queue' \in [Events -> {"absent", "queued", "committed", "refused"}] /\ station' \subseteq Events
  BY <1>1, <1>3 DEF ReplyInv, TypeOK
<1>5. LedgerInv' /\ Grown /\ CutoffKept
  BY <1>3, OwnerPlace, Place, InvLedger, LedgerKept
  DEF Submit, ledgerVars, ownerVars, inboxVars, countVars
<1>6. TypeOK'
  BY <1>4 DEF ReplyInv, TypeOK, Submit, ledgerVars, ownerVars, consumerVars, inboxVars, countVars
<1>7. OutInv'
  BY <1>1, <1>2, <1>3, <1>4 DEF ReplyInv, OutInv, ReplyIsRetained, Submit, ledgerVars
<1>8. station \subseteq station' /\ Len(stream) <= Len(stream') /\ orphans' = orphans
  BY <1>3, Place DEF Submit
<1> QED
  BY <1>5, <1>6, <1>7, <1>8, OtherStep DEF Submit

\* A transaction whose caller is gone is applied, or refused.
LEMMA OrphanStep == ASSUME ReplyInv, NEW tx \in orphans, Orphan(tx) PROVE ReplyInv' /\ Grown
<1>1. /\ tx.op \in TxPcs /\ tx.p \in Positions /\ tx.input \in Configs
      /\ tx.text \in Nat /\ tx.event \in 0..MaxAuthor
  BY OrphanFields DEF ReplyInv
<1>2. Apart
  BY DEF Orphan, Apart, inboxVars, outVars, countVars
<1>3. /\ tx.p <= Current
      /\ tx.op \in {"freeze", "accept"} => tx.event # 0
      /\ tx.op = "accept" => <<tx.p, tx.event>> \in station
  BY DEF ReplyInv, OrphanInv
<1>4. LedgerInv' /\ Grown
  <2>1. CASE ~CanCommit(tx)
    BY <1>2, <2>1, InvLedger, IdleTransaction DEF Orphan
  <2>2. CASE CanCommit(tx)
    <3>1. Commit(tx)
      BY <2>2 DEF Orphan
    <3>2. CASE tx.op = "prepare"
      <4>1. NativePrepare(tx.p, tx.input)
        BY <3>1, <3>2 DEF Commit
      <4> QED
        BY <1>1, <1>2, <1>3, <4>1, InvLedger, Place, PrepareTransaction
    <3>3. CASE tx.op = "claim"
      <4>1. NativeClaimHandoff(tx.p, tx.input)
        BY <3>1, <3>3 DEF Commit
      <4> QED
        BY <1>1, <1>2, <4>1, InvLedger, ClaimTransaction
    <3>4. CASE tx.op = "retain"
      <4>1. NativeRetainOutput(tx.p, tx.input, tx.text)
        BY <3>1, <3>4 DEF Commit
      <4> QED
        BY <1>1, <1>2, <4>1, InvLedger, RetainTransaction
    <3>5. CASE tx.op = "freeze"
      <4>1. NativeRetainSubmission(tx.p, tx.input, tx.text, tx.event)
        BY <3>1, <3>5 DEF Commit
      <4> QED
        BY <1>1, <1>2, <1>3, <3>5, <4>1, InvLedger, FreezeTransaction
    <3>6. CASE tx.op = "accept"
      <4>1. NativeMarkAccepted(tx.p, tx.input, tx.event)
        BY <3>1, <3>6 DEF Commit
      <4> QED
        BY <1>1, <1>2, <1>3, <3>6, <4>1, InvLedger, AcceptTransaction
    <3> QED
      BY <1>1, <3>2, <3>3, <3>4, <3>5, <3>6 DEF TxPcs
  <2> QED
    BY <2>1, <2>2
<1>5. orphans' \subseteq orphans
  BY DEF Orphan
<1>6. TypeOK'
  BY <1>4, <1>5 DEF ReplyInv, TypeOK, LedgerInv, LedgerType, EntryType, Orphan, ownerVars,
                    consumerVars, inboxVars, outVars, countVars
<1>7. OutInv' /\ CutoffKept
  BY <1>2, <1>4, OutKept, ApartKeepsCutoff DEF ReplyInv, Orphan
<1>8. station \subseteq station' /\ Len(stream) <= Len(stream')
  BY Place DEF Orphan, outVars
<1> QED
  BY <1>4, <1>5, <1>6, <1>7, <1>8, OtherStep DEF Orphan

\* The consumer is gone, and with it perhaps not the transaction it was waiting for.
LEMMA InterruptStep == ASSUME ReplyInv, Interrupt PROVE ReplyInv' /\ Grown
<1>1. LedgerInv' /\ Grown
  BY OutsideLedger DEF Interrupt, countVars
<1>2. pc' = "idle" /\ text' = 0 /\ event' = 0 /\ verdict' = "none"
  BY DEF Interrupt, GiveUp
<1>3. ConsumerInv'
  BY <1>2 DEF ConsumerInv
<1>4. pc' \in Pcs /\ text' \in Nat /\ event' \in 0..MaxAuthor /\ verdict' \in Verdicts
  BY <1>2, NativeReplyAssumption DEF NativeReplyAssumption, Pcs, Verdicts
<1>5. faults' \in 0..MaxFaults
  <2>1. faults \in 0..MaxFaults /\ MaxFaults \in Nat
    BY NativeReplyAssumption DEF NativeReplyAssumption, ReplyInv, TypeOK
  <2> QED
    BY <2>1 DEF Interrupt
<1>6. Current \in Positions /\ Current <= Current /\ acked' = acked
  BY Place DEF Interrupt, inboxVars
<1>7. /\ Pending.op = pc /\ Pending.p = Current /\ Pending.event = event
      /\ pc \in TxPcs => Pending \in Transactions
  BY <1>6, Place DEF Pending, Transactions
<1>8. orphans' \subseteq Transactions
  BY <1>7 DEF Interrupt, ReplyInv, TypeOK
<1>9. TypeOK'
  BY <1>4, <1>5, <1>8 DEF Interrupt, ReplyInv, TypeOK, ledgerVars, ownerVars, inboxVars, outVars,
                          countVars
<1>10. /\ pc \in {"freeze", "accept"} => event # 0
       /\ pc = "accept" => <<Current, event>> \in station
  BY DEF ReplyInv, ConsumerInv
<1>11. OrphanInv'
  <2> SUFFICES ASSUME NEW tx \in orphans'
               PROVE  /\ tx.p <= Current
                      /\ tx.op \in {"freeze", "accept"} => tx.event # 0
                      /\ tx.op = "accept" => <<tx.p, tx.event>> \in station
    BY DEF OrphanInv, Interrupt, outVars, inboxVars, Current
  <2>1. CASE tx \in orphans
    BY <2>1 DEF ReplyInv, OrphanInv
  <2>2. CASE tx = Pending
    BY <2>2, <1>6, <1>7, <1>10
  <2> QED
    BY <2>1, <2>2 DEF Interrupt
<1>12. OutInv' /\ CutoffKept /\ AtMostOneSend' /\ UNCHANGED outcome
  BY <1>1, OutKept DEF ReplyInv, Interrupt, ledgerVars, inboxVars, countVars, AtMostOneSend,
                       CutoffKept, Receipts, BehindCutoff
<1> QED
  BY <1>1, <1>3, <1>9, <1>11, <1>12, Assemble

\* The process dies: consumer, Saves and orphans are gone, the files are not.
LEMMA CrashStep == ASSUME ReplyInv, Crash PROVE ReplyInv' /\ Grown
<1>1. /\ pc' = "idle" /\ text' = 0 /\ event' = 0 /\ verdict' = "none" /\ orphans' = {}
      /\ \A i \in Intents : saving'[i] = "idle"
  BY DEF Crash, GiveUp
<1>2. MaxPos \in Nat /\ MaxFaults \in Nat /\ MaxAuthor \in Nat
  BY NativeReplyAssumption DEF NativeReplyAssumption
<1>3. LedgerInv' /\ Grown /\ CutoffKept
  BY <1>1, OwnerPlace, Place, InvLedger, LedgerKept DEF Crash, ledgerVars, inboxVars, outVars, countVars
<1>4. ConsumerInv' /\ OrphanInv'
  BY <1>1 DEF ConsumerInv, OrphanInv
<1>5. /\ saving' \in [Intents -> {"idle", "resumed", "read"}]
      /\ head' \in [Intents -> 0..MaxPos] /\ config' \in Configs
  BY <1>2 DEF Crash
<1>6. faults' \in 0..MaxFaults
  <2>1. faults \in 0..MaxFaults
    BY DEF ReplyInv, TypeOK
  <2> QED
    BY <1>2, <2>1 DEF Crash
<1>7. pc' \in Pcs /\ text' \in Nat /\ event' \in 0..MaxAuthor /\ verdict' \in Verdicts
  BY <1>1, <1>2 DEF Pcs, Verdicts
<1>8. TypeOK'
  BY <1>1, <1>5, <1>6, <1>7 DEF Crash, ReplyInv, TypeOK, ledgerVars, inboxVars, outVars, countVars
<1>9. OutInv' /\ AtMostOneSend' /\ UNCHANGED outcome
  BY <1>3, OutKept DEF ReplyInv, Crash, inboxVars, countVars, AtMostOneSend
<1> QED
  BY <1>3, <1>4, <1>8, <1>9, Assemble

(***************************************************************************)
(* The theorems                                                            *)
(***************************************************************************)

\* A stream of one message, and nothing retained.
LEMMA InitInv == ASSUME Init PROVE ReplyInv
<1>1. /\ MaxPos \in Nat /\ MaxFaults \in Nat /\ MaxAuthor \in Nat /\ MaxPos >= 1
  BY NativeReplyAssumption DEF NativeReplyAssumption
<1>2. stream \in Seq(BOOLEAN) /\ Len(stream) = 1
  BY DEF Init
<1>3. NoEntry \in EntryType /\ NoEntry.state = "none" /\ NoEntry.attempt = 0
      /\ NoEntry.output = 0 /\ NoEntry.sub = 0 /\ NoEntry.accepted = 0
  BY <1>1 DEF NoEntry, EntryType, States
<1>4. ledger = [p \in Positions |-> NoEntry]
  BY DEF Init
<1>5. ledger \in [Positions -> EntryType] /\ \A p \in Positions : ledger[p] = NoEntry
  BY <1>3, <1>4
<1>6. Receipts = {}
  BY DEF Init, Receipts
<1>7. /\ cutoff \in [Intents -> 0..MaxPos] /\ water \in 0..MaxPos /\ water = 0
      /\ head \in [Intents -> 0..MaxPos] /\ saving \in [Intents -> {"idle", "resumed", "read"}]
      /\ event \in 0..MaxAuthor /\ acked \in 0..MaxPos /\ faults \in 0..MaxFaults
      /\ authored \in [Positions -> 0..MaxAuthor] /\ sends \in [Positions -> Nat]
  BY <1>1 DEF Init
<1>8. TypeOK
  <2>1. Len(stream) \in Positions
    BY <1>1, <1>2 DEF Positions
  <2>2. first = FALSE /\ config \in Configs
    BY Zenon DEF Init
  <2>3. pc \in Pcs /\ text \in Nat /\ verdict \in Verdicts /\ orphans \subseteq Transactions
    BY DEF Init, Pcs, Verdicts
  <2>4. /\ seen \subseteq Positions /\ outcome \in [Positions -> Verdicts] /\ station \subseteq Events
        /\ queue \in [Events -> {"absent", "queued", "committed", "refused"}]
    BY DEF Init, Verdicts
  <2> QED
    BY <1>2, <1>5, <1>7, <2>1, <2>2, <2>3, <2>4 DEF TypeOK, EntryType
<1>9. EntryInv
  BY <1>3, <1>5 DEF Init, EntryInv
<1>10. LaneInv /\ NoLiveInputIsStale
  BY <1>6, <1>7 DEF Init, LaneInv, NoLiveInputIsStale
<1>11. AtMostOneSend /\ ConsumerInv /\ OrphanInv
  BY DEF Init, AtMostOneSend, ConsumerInv, OrphanInv
<1>12. OutInv
  BY DEF Init, OutInv, ReplyIsRetained
<1>13. \A p \in Positions : Settled(p, outcome[p])
  BY DEF Init, Settled
<1> QED
  BY <1>8, <1>9, <1>10, <1>11, <1>12, <1>13 DEF ReplyInv

\* A step that changes nothing.
LEMMA StutterStep == ASSUME ReplyInv, UNCHANGED vars PROVE ReplyInv' /\ Grown
<1>1. UNCHANGED <<stream, first, cutoff, water, ledger, saving, head, config, pc, text, event, verdict,
                  orphans, seen, acked, outcome, queue, station, sends, authored, faults>>
  BY DEF vars, ledgerVars, ownerVars, consumerVars, inboxVars, outVars, countVars
<1>2. LedgerInv' /\ Grown
  BY <1>1, OutsideLedger DEF ledgerVars, ownerVars, inboxVars, outVars
<1>3. ConsumerInv'
  BY <1>1, <1>2, Place, ConsumerKept DEF ReplyInv, consumerVars, CutoffKept, Receipts, BehindCutoff
<1> QED
  BY <1>1, <1>2, <1>3, Place, PlaceStep DEF ownerVars, inboxVars, outVars, countVars

\* Every step keeps the invariant and what the ledger retains: the case analysis over Next.
LEMMA NextInv == ASSUME ReplyInv, [Next]_vars PROVE ReplyInv' /\ Grown
BY ConsumerStepInv, FirstConfigStep, SaveResumeStep, ReadHeadsStep, InitializeBatchStep, SubmitStep,
   PostStep, OrphanStep, InterruptStep, CrashStep, StutterStep DEF Next

\* The invariant holds in every reachable state.
THEOREM ReplyInvariant == Spec => []ReplyInv
<1>1. Init => ReplyInv
  BY InitInv
<1>2. ReplyInv /\ [Next]_vars => ReplyInv'
  BY NextInv
<1> QED
  BY <1>1, <1>2, PTL DEF Spec

\* The ledger, the consumer, the owner and the queue keep to their types.
THEOREM TypeCorrect == Spec => []TypeOK
<1>1. ReplyInv => TypeOK
  BY DEF ReplyInv
<1> QED
  BY <1>1, ReplyInvariant, PTL

\* NativeReplyLedger::validate accepts the ledger after every transaction, the late ones of
\* an aborted caller included, for any stream, configurations and number of faults.
THEOREM LedgerAlwaysValid == Spec => []LedgerValid
<1>1. ReplyInv => LedgerValid
  <2> SUFFICES ASSUME ReplyInv PROVE LedgerValid
    OBVIOUS
  <2>1. water \in Nat /\ \A p \in Positions : p \in Nat
    BY InvLedger DEF LedgerInv, LedgerType, Positions
  <2> QED
    BY <2>1 DEF ReplyInv, EntryInv, LaneInv, LedgerValid
<1> QED
  BY <1>1, ReplyInvariant, PTL

\* native_claim_handoff lets the guarded transport ask the model at most once for a message.
THEOREM ModelAskedOnce == Spec => []AtMostOneSend
<1>1. ReplyInv => AtMostOneSend
  BY DEF ReplyInv
<1> QED
  BY <1>1, ReplyInvariant, PTL

\* The Station commits only the event that the ledger retains, so at most one per message,
\* however often the reply was authored.
THEOREM OneReplyPerMessage == Spec => []ReplyIsRetained
<1>1. ReplyInv => ReplyIsRetained
  BY DEF ReplyInv, OutInv
<1> QED
  BY <1>1, ReplyInvariant, PTL

\* The watermark never passes a message that is still to be answered: native_prepare does
\* not refuse it as stale.
THEOREM WatermarkIsBehind == Spec => []NoLiveInputIsStale
<1>1. ReplyInv => NoLiveInputIsStale
  BY DEF ReplyInv
<1> QED
  BY <1>1, ReplyInvariant, PTL

\* A message is remembered as what happened to it: accepted, suppressed or unknown.
THEOREM VerdictsAreTrue == Spec => []SettledTruthfully
<1>1. ReplyInv => SettledTruthfully
  <2> SUFFICES ASSUME ReplyInv, NEW p \in Positions
               PROVE  /\ outcome[p] = "accepted"   => <<p, ledger[p].accepted>> \in station
                      /\ outcome[p] = "suppressed" => ledger[p].state = "none" /\ sends[p] = 0
                      /\ outcome[p] = "unknown"    => ledger[p].attempt # 0
    BY DEF SettledTruthfully
  <2>1. Settled(p, outcome[p])
    BY DEF ReplyInv
  <2>2. /\ ledger[p].state # "none" => ~BehindCutoff(p)
        /\ ledger[p].accepted # 0 => <<p, ledger[p].accepted>> \in station
        /\ sends[p] # 0 => ledger[p].attempt # 0
        /\ ledger[p].state = "none" => ledger[p].attempt = 0
    BY DEF ReplyInv, EntryInv, NoEntry
  <2> QED
    BY <2>1, <2>2 DEF Settled
<1> QED
  BY <1>1, ReplyInvariant, PTL

\* Input, attempt, output, signed event and receipt of an entry are set once: no transaction,
\* in whatever order an abort lets them through, writes over them.
THEOREM LedgerOnlyGrows == Spec => RetainedNeverChanges
<1> DEFINE Kept == \A p \in Positions :
          /\ ledger[p].state # "none" => ledger'[p].input = ledger[p].input
          /\ \A f \in {"attempt", "output", "sub", "accepted"} :
                ledger[p][f] # 0 => ledger'[p][f] = ledger[p][f]
<1>1. ASSUME ReplyInv, [Next]_vars PROVE Kept
  <2> SUFFICES ASSUME NEW p \in Positions
               PROVE  /\ ledger[p].state # "none" => ledger'[p].input = ledger[p].input
                      /\ \A f \in {"attempt", "output", "sub", "accepted"} :
                            ledger[p][f] # 0 => ledger'[p][f] = ledger[p][f]
    BY Zenon
  <2>1. Grows(ledger[p], ledger'[p])
    BY <1>1, NextInv DEF Grown
  <2>2. /\ ledger[p].state # "none" => ledger'[p].input = ledger[p].input
        /\ ledger[p].attempt # 0 => ledger'[p].attempt = ledger[p].attempt
        /\ ledger[p].output # 0 => ledger'[p].output = ledger[p].output
        /\ ledger[p].sub # 0 => ledger'[p].sub = ledger[p].sub
        /\ ledger[p].accepted # 0 => ledger'[p].accepted = ledger[p].accepted
    BY <2>1 DEF Grows
  <2> QED
    BY <2>2, Zenon
<1> HIDE DEF Kept
<1>2. ReplyInv /\ [Next]_vars => [Kept]_vars
  BY <1>1
<1>3. Spec => [][Kept]_vars
  BY <1>2, ReplyInvariant, PTL DEF Spec
<1> QED
  BY <1>3 DEF RetainedNeverChanges, Kept
=============================================================================
