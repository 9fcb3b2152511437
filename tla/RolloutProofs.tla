----------------------------- MODULE RolloutProofs -----------------------------
(***************************************************************************)
(* What is behind an acknowledged flush survives, proved for any number of *)
(* records, torn writes and restarts and any capacity of the channel.      *)
(*                                                                         *)
(* The argument is a budget.  A torn write costs one line: the next one,   *)
(* which runs into the torn end of the file.  It costs no other, because   *)
(* the line that was torn itself was never behind an acknowledged flush:   *)
(* the writer dies with it, and after a restart everything that is queued  *)
(* has a new number.                                                       *)
(***************************************************************************)
EXTENDS Rollout, FiniteSetTheorems, SequenceTheorems, TLAPS

\* The commands: an item to write, or a flush.
IsAdd(c, n) == c.type = "add" /\ c.rec.no \in 0..n /\ c.rec.type # "garbled"
IsFlush(c)  == c.type = "flush" /\ c.rec.no = 0 /\ c.by \in Actors

AddAt(q) == {i \in DOMAIN q : q[i].type = "add"}

\* The numbers of the items that are still to be sent, that are in the channel, and
\* that the writer has taken from it since the last load.
Pending(a) == {todo[a][i].rec.no : i \in AddAt(todo[a])}
QueueNos   == {queue[i].rec.no : i \in DOMAIN queue}
Left       == IF writer = "up" THEN sent \ QueueNos ELSE {}

\* The numbers that can be read back, and those that should and cannot.
Readable == {file[i].no : i \in {j \in DOMAIN file : file[j].type # "garbled"}}
Missing  == (acked \cup Left) \ Readable

\* What each actor has to send: an item first, then flushes only.
TodoInv ==
    /\ DOMAIN todo = Actors
    /\ \A a \in Actors :
           /\ todo[a] \in Seq(Range(todo[a]))
           /\ \A i \in DOMAIN todo[a] :
                  (IsAdd(todo[a][i], count) /\ i = 1) \/ IsFlush(todo[a][i])

QueueInv ==
    /\ queue \in Seq(Range(queue))
    /\ \A i \in DOMAIN queue : IsAdd(queue[i], count) \/ IsFlush(queue[i])
    /\ writer = "dead" => queue = <<>>
    /\ ~up => writer = "dead" /\ \A a \in Actors : todo[a] = <<>>

\* A number is sent once, and nothing in the channel was acknowledged.
FreshInv ==
    /\ \A a \in Actors : Pending(a) \subseteq 1..count
    /\ \A a, b \in Actors : a # b => Pending(a) \cap Pending(b) = {}
    /\ \A a \in Actors : Pending(a) \cap (sent \cup acked) = {}
    /\ sent \cup acked \subseteq 1..count
    /\ QueueNos \cap acked = {}

\* A line without its newline was not acknowledged, and is not one that will be.
OpenInv ==
    /\ file \in Seq(Range(file))
    /\ tail = "open" =>
           /\ file # <<>>
           /\ file[Len(file)].no \in 0..count
           /\ file[Len(file)].no \notin acked
           /\ writer = "up" =>
                  /\ file[Len(file)].no \notin sent
                  /\ \A a \in Actors : file[Len(file)].no \notin Pending(a)

\* Every torn write pays for one line, the next that is written.
Budget == Cardinality(Missing) + (IF tail = "line" THEN 0 ELSE 1) <= tears

\* The inductive invariant.
RolloutInv ==
    /\ TypeOK
    /\ TodoInv
    /\ QueueInv
    /\ FreshInv
    /\ OpenInv
    /\ Budget

----------------------------------------------------------------------------
(* Sequences                                                                *)

\* A sequence is one over its own range.
LEMMA SeqRange ==
    ASSUME NEW S, NEW s \in Seq(S)
    PROVE  s \in Seq(Range(s)) /\ DOMAIN s = 1..Len(s) /\ Len(s) \in Nat
<1>1. s \in [1..Len(s) -> S] /\ Len(s) \in Nat /\ DOMAIN s = 1..Len(s)
  OBVIOUS
<1>2. s \in [1..Len(s) -> Range(s)]
  BY <1>1 DEF Range
<1>. QED
  BY <1>1, <1>2

\* What is appended is the last element, and the others stay.
LEMMA AppendSeq ==
    ASSUME NEW s, s \in Seq(Range(s)), NEW e
    PROVE  /\ Append(s, e) \in Seq(Range(Append(s, e)))
           /\ Len(s) \in Nat /\ DOMAIN s = 1..Len(s)
           /\ Len(Append(s, e)) = Len(s) + 1 /\ DOMAIN Append(s, e) = 1..(Len(s) + 1)
           /\ Append(s, e)[Len(s) + 1] = e
           /\ \A i \in 1..Len(s) : Append(s, e)[i] = s[i]
<1>. DEFINE S == Range(s) \cup {e}
            t == Append(s, e)
<1>1. s \in Seq(S)
  <2>1. \A x \in Range(s) : x \in S
    OBVIOUS
  <2>2. s \in [1..Len(s) -> Range(s)] /\ Len(s) \in Nat
    OBVIOUS
  <2>3. s \in [1..Len(s) -> S]
    BY <2>1, <2>2
  <2>. HIDE DEF S
  <2>. QED
    BY <2>2, <2>3
<1>2. e \in S
  OBVIOUS
<1>. HIDE DEF S
<1>3. t \in Seq(S)
  BY <1>1, <1>2
<1>4. t \in Seq(Range(t))
  BY <1>3, SeqRange
<1>. QED
  BY <1>1, <1>2, <1>4

\* The first element leaves, and the others move up.
LEMMA TailSeq ==
    ASSUME NEW s, s \in Seq(Range(s)), s # <<>>, NEW t, t = Tail(s)
    PROVE  /\ t \in Seq(Range(t)) /\ Len(s) \in Nat \ {0} /\ DOMAIN s = 1..Len(s)
           /\ Head(s) = s[1] /\ 1 \in DOMAIN s
           /\ Len(t) = Len(s) - 1 /\ DOMAIN t = 1..(Len(s) - 1)
           /\ \A i \in 1..(Len(s) - 1) : t[i] = s[i + 1] /\ i + 1 \in DOMAIN s
<1>1. t \in Seq(Range(s)) /\ Len(s) \in Nat \ {0} /\ DOMAIN s = 1..Len(s)
  OBVIOUS
<1>2. t \in Seq(Range(t))
  BY <1>1, SeqRange
<1>3. Head(s) = s[1] /\ 1 \in DOMAIN s
  BY <1>1
<1>4. /\ Len(t) = Len(s) - 1 /\ DOMAIN t = 1..(Len(s) - 1)
      /\ \A i \in 1..(Len(s) - 1) : t[i] = s[i + 1] /\ i + 1 \in DOMAIN s
  BY <1>1
<1>. QED
  BY <1>1, <1>2, <1>3, <1>4

\* The empty sequence, and the sequences of one and of two commands.
LEMMA ShortSeq ==
    ASSUME NEW c, NEW d
    PROVE  /\ <<>> \in Seq(Range(<<>>)) /\ DOMAIN <<>> = {}
           /\ <<c>> \in Seq(Range(<<c>>)) /\ DOMAIN <<c>> = {1} /\ <<c>>[1] = c
           /\ <<c, d>> \in Seq(Range(<<c, d>>)) /\ DOMAIN <<c, d>> = {1, 2}
           /\ <<c, d>>[1] = c /\ <<c, d>>[2] = d
           /\ <<c>> \o <<d>> = <<c, d>> /\ <<c>> \o <<>> = <<c>>
<1>1. <<>> \in Seq({}) /\ <<c>> \in Seq({c}) /\ <<c, d>> \in Seq({c, d})
  OBVIOUS
<1>2. /\ <<>> \in Seq(Range(<<>>))
      /\ <<c>> \in Seq(Range(<<c>>))
      /\ <<c, d>> \in Seq(Range(<<c, d>>))
  BY <1>1, SeqRange
<1>3. <<c>> \o <<d>> = <<c, d>> /\ <<c>> \o <<>> = <<c>>
  <2>1. <<c>> \in Seq({c, d}) /\ <<d>> \in Seq({c, d}) /\ <<c, d>> \in Seq({c, d})
    OBVIOUS
  <2>2. PICK s : s = <<c>> \o <<d>>
    OBVIOUS
  <2>3. /\ s \in Seq({c, d}) /\ Len(s) = Len(<<c>>) + Len(<<d>>)
        /\ \A i \in 1..(Len(<<c>>) + Len(<<d>>)) :
               s[i] = IF i <= Len(<<c>>) THEN <<c>>[i] ELSE <<d>>[i - Len(<<c>>)]
    BY <2>1, <2>2, ConcatProperties
  <2>4. Len(s) = 2 /\ s[1] = c /\ s[2] = d
    BY <2>3
  <2>5. \A i \in 1..Len(s) : s[i] = <<c, d>>[i]
    BY <2>4
  <2>6. s = <<c, d>>
    BY <2>1, <2>3, <2>4, <2>5, SeqEqual
  <2>7. <<c>> \o <<>> = <<c>>
    BY <2>1, ConcatEmptySeq
  <2>. QED
    BY <2>2, <2>6, <2>7
<1>4. DOMAIN <<c, d>> = {1, 2} /\ <<c, d>>[1] = c /\ <<c, d>>[2] = d
  OBVIOUS
<1>5. DOMAIN <<c>> = {1} /\ <<c>>[1] = c /\ DOMAIN <<>> = {}
  OBVIOUS
<1>. QED
  BY <1>2, <1>3, <1>4, <1>5

\* A line of the file that is overwritten.
LEMMA LastReplaced ==
    ASSUME NEW s, s \in Seq(Range(s)), s # <<>>, NEW e, NEW t, t = [s EXCEPT ![Len(s)] = e]
    PROVE  /\ t \in Seq(Range(t)) /\ Len(s) \in Nat \ {0} /\ DOMAIN s = 1..Len(s)
           /\ DOMAIN t = DOMAIN s /\ Len(t) = Len(s)
           /\ t[Len(s)] = e
           /\ \A i \in DOMAIN s \ {Len(s)} : t[i] = s[i]
<1>. DEFINE S == Range(s) \cup {e}
<1>1. Len(s) \in Nat \ {0} /\ DOMAIN s = 1..Len(s)
  OBVIOUS
<1>2. s \in Seq(S) /\ e \in S
  BY SeqMonotonic
<1>. HIDE DEF S
<1>3. Len(s) \in 1..Len(s)
  BY <1>1
<1>4. /\ t \in Seq(S) /\ Len(t) = Len(s)
      /\ \A j \in 1..Len(s) : t[j] = IF j = Len(s) THEN e ELSE s[j]
  BY <1>2, <1>3, ExceptSeq
<1>5. t \in Seq(Range(t)) /\ DOMAIN t = 1..Len(t)
  BY <1>4, SeqRange
<1>. QED
  BY <1>1, <1>3, <1>4, <1>5

----------------------------------------------------------------------------
(* The session                                                              *)

\* The types of the numbers.
LEMMA Numbers ==
    ASSUME TypeOK
    PROVE  /\ count \in Nat /\ tears \in Nat /\ MaxTears \in Nat /\ MaxRecords \in Nat
           /\ tail \in {"line", "torn", "open"} /\ writer \in {"up", "dead"}
           /\ up \in BOOLEAN
  BY RolloutAssumption DEF TypeOK

\* The fields of the commands.
LEMMA Commands ==
    ASSUME NEW a \in Actors, NEW type, NEW n, NEW body
    PROVE  /\ Add(Rec(type, n, body)).type = "add" /\ Add(Rec(type, n, body)).rec.no = n
           /\ Add(Rec(type, n, body)).rec.type = type
           /\ Flush(a).type = "flush" /\ Flush(a).rec.no = 0 /\ Flush(a).by = a
  BY DEF Add, Rec, Flush, Garbled

\* What an actor has to send for a new item, numbered n.
Fresh(s, n) == \E c, f : /\ s \in {<<c>>, <<c, f>>} /\ IsFlush(f)
                         /\ c.type = "add" /\ c.rec.no = n /\ c.rec.type # "garbled"

\* What actor a has to send after a step of the session: what it had, nothing, a
\* flush, or a new item.
Todo(a) ==
    \/ todo'[a] = todo[a] \/ todo'[a] = <<>>
    \/ \E f : todo'[a] = <<f>> /\ IsFlush(f)
    \/ count' = count + 1 /\ Fresh(todo'[a], count + 1)

\* One actor's commands after such a step.
LEMMA TodoFacts ==
    ASSUME RolloutInv, count' \in {count, count + 1}, NEW a \in Actors, Todo(a)
    PROVE  /\ todo'[a] \in Seq(Range(todo'[a]))
           /\ \A i \in DOMAIN todo'[a] :
                  (IsAdd(todo'[a][i], count') /\ i = 1) \/ IsFlush(todo'[a][i])
           /\ \/ Pending(a)' \subseteq Pending(a)
              \/ /\ count' = count + 1 /\ Pending(a)' \subseteq {count + 1}
                 /\ Fresh(todo'[a], count + 1)
<1>0. count \in Nat
  BY Numbers DEF RolloutInv
<1>1. CASE todo'[a] = todo[a]
  <2>1. \A i \in DOMAIN todo[a] : IsAdd(todo[a][i], count) => IsAdd(todo'[a][i], count')
    BY <1>0, <1>1 DEF IsAdd
  <2>2. Pending(a)' = Pending(a)
    BY <1>1 DEF Pending, AddAt
  <2>. QED
    BY <1>1, <2>1, <2>2 DEF RolloutInv, TodoInv
<1>2. CASE todo'[a] = <<>>
  <2>1. todo'[a] \in Seq(Range(todo'[a])) /\ DOMAIN todo'[a] = {}
    BY <1>2, ShortSeq
  <2>2. Pending(a)' = {}
    BY <2>1 DEF Pending, AddAt
  <2>. QED
    BY <2>1, <2>2
<1>3. CASE \E f : todo'[a] = <<f>> /\ IsFlush(f)
  <2>1. PICK f : todo'[a] = <<f>> /\ IsFlush(f)
    BY <1>3
  <2>2. /\ todo'[a] \in Seq(Range(todo'[a])) /\ DOMAIN todo'[a] = {1}
        /\ todo'[a][1] = f
    BY <2>1, ShortSeq
  <2>3. f.type # "add"
    BY <2>1 DEF IsFlush
  <2>4. AddAt(todo'[a]) = {}
    BY <2>2, <2>3 DEF AddAt
  <2>5. Pending(a)' = {}
    BY <2>4 DEF Pending, AddAt
  <2>. QED
    BY <2>1, <2>2, <2>5
<1>4. CASE count' = count + 1 /\ Fresh(todo'[a], count + 1)
  <2>1. PICK c, f : /\ todo'[a] \in {<<c>>, <<c, f>>}
                    /\ c.type = "add" /\ c.rec.no = count + 1 /\ c.rec.type # "garbled"
                    /\ IsFlush(f)
    BY <1>4 DEF Fresh
  <2>2. /\ todo'[a] \in Seq(Range(todo'[a])) /\ 1 \in DOMAIN todo'[a] /\ todo'[a][1] = c
        /\ \A i \in DOMAIN todo'[a] : i = 1 \/ (i = 2 /\ todo'[a][2] = f)
    <3>1. CASE todo'[a] = <<c>>
      BY <3>1, ShortSeq
    <3>2. CASE todo'[a] = <<c, f>>
      <4>. DEFINE s == <<c, f>>
      <4>1. s \in Seq(Range(s)) /\ DOMAIN s = {1, 2} /\ s[1] = c /\ s[2] = f
        BY ShortSeq
      <4>. HIDE DEF s
      <4>2. todo'[a] = s
        BY <3>2 DEF s
      <4>. QED
        BY <4>1, <4>2
    <3>. QED
      BY <2>1, <3>1, <3>2
  <2>3. IsAdd(c, count') /\ f.type # "add"
    BY <1>0, <1>4, <2>1 DEF IsAdd, IsFlush
  <2>4. Pending(a)' \subseteq {count + 1}
    <3>1. \A i \in AddAt(todo'[a]) : todo'[a][i] = c
      BY <2>2, <2>3 DEF AddAt
    <3>. QED
      BY <2>1, <3>1 DEF Pending, AddAt
  <2>5. \A i \in DOMAIN todo'[a] :
            (IsAdd(todo'[a][i], count') /\ i = 1) \/ IsFlush(todo'[a][i])
    <3>1. ASSUME NEW i \in DOMAIN todo'[a]
          PROVE  (IsAdd(todo'[a][i], count') /\ i = 1) \/ IsFlush(todo'[a][i])
      <4>1. CASE i = 1
        <5>1. IsAdd(todo'[a][i], count')
          BY <2>2, <2>3, <4>1 DEF IsAdd
        <5>. QED
          BY <4>1, <5>1
      <4>2. CASE i = 2 /\ todo'[a][2] = f
        BY <2>1, <4>2
      <4>. QED
        BY <2>2, <4>1, <4>2
    <3>. QED
      BY <3>1
  <2>. QED
    BY <1>4, <2>2, <2>4, <2>5
<1>. QED
  BY <1>1, <1>2, <1>3, <1>4 DEF Todo

Kept == TodoInv /\ QueueInv /\ FreshInv /\ OpenInv /\ Budget

\* A step of the session that leaves the recorder alone: one actor at most has a new
\* item to send.
LEMMA SessionKeeps ==
    ASSUME RolloutInv, up, UNCHANGED <<up, queue, writer, file, tail, tears, sent, acked>>,
           count' \in {count, count + 1}, DOMAIN todo' = Actors,
           NEW b \in Actors, \A a \in Actors : Todo(a),
           \A a \in Actors \ {b} : todo'[a] = todo[a] \/ todo'[a] = <<>>
    PROVE  Kept'
<1>0. count \in Nat
  BY Numbers DEF RolloutInv
<1>1. TodoInv'
  <2>1. ASSUME NEW a \in Actors
        PROVE  /\ todo'[a] \in Seq(Range(todo'[a]))
               /\ \A i \in DOMAIN todo'[a] :
                      (IsAdd(todo'[a][i], count') /\ i = 1) \/ IsFlush(todo'[a][i])
    BY TodoFacts
  <2>. QED
    BY <2>1 DEF TodoInv, IsFlush, IsAdd
<1>2. QueueInv'
  <2>1. \A i \in DOMAIN queue : IsAdd(queue[i], count) => IsAdd(queue'[i], count')
    BY <1>0 DEF IsAdd
  <2>2. \A i \in DOMAIN queue : IsFlush(queue[i]) => IsFlush(queue'[i])
    BY DEF IsFlush
  <2>3. \A i \in DOMAIN queue : IsAdd(queue[i], count) \/ IsFlush(queue[i])
    BY DEF RolloutInv, QueueInv
  <2>4. \A i \in DOMAIN queue' : IsAdd(queue'[i], count') \/ IsFlush(queue'[i])
    BY <2>1, <2>2, <2>3
  <2>5. queue' \in Seq(Range(queue')) /\ (writer' = "dead" => queue' = <<>>) /\ up'
    BY DEF RolloutInv, QueueInv
  <2>. QED
    BY <2>4, <2>5 DEF QueueInv, IsAdd, IsFlush
<1>3. QueueNos' = QueueNos /\ Left' = Left /\ Missing' = Missing
  BY DEF QueueNos, Left, Missing, Readable
<1>4. ASSUME NEW a \in Actors \ {b} PROVE Pending(a)' \subseteq Pending(a)
  <2>1. CASE todo'[a] = todo[a]
    BY <2>1 DEF Pending, AddAt
  <2>2. CASE todo'[a] = <<>>
    <3>1. DOMAIN todo'[a] = {}
      BY <2>2, ShortSeq
    <3>. QED
      BY <3>1 DEF Pending, AddAt
  <2>. QED
    BY <2>1, <2>2
<1>5. \/ Pending(b)' \subseteq Pending(b)
      \/ count' = count + 1 /\ Pending(b)' \subseteq {count + 1}
  BY TodoFacts
<1>6. /\ \A a \in Actors : Pending(a) \subseteq 1..count
      /\ \A a, c \in Actors : a # c => Pending(a) \cap Pending(c) = {}
      /\ \A a \in Actors : Pending(a) \cap (sent \cup acked) = {}
      /\ sent \cup acked \subseteq 1..count
      /\ QueueNos \cap acked = {}
  BY DEF RolloutInv, FreshInv
<1>7. 1..count \subseteq 1..count' /\ count + 1 \notin 1..count /\ count' \in Nat
      /\ (count' = count + 1 => count + 1 \in 1..count')
  BY <1>0
<1>8. FreshInv'
  <2>1. ASSUME NEW a \in Actors
        PROVE  Pending(a)' \subseteq 1..count' /\ Pending(a)' \cap (sent' \cup acked') = {}
    <3>1. CASE Pending(a)' \subseteq Pending(a)
      BY <1>6, <1>7, <3>1
    <3>2. CASE count' = count + 1 /\ Pending(a)' \subseteq {count + 1}
      BY <1>6, <1>7, <3>2
    <3>. QED
      BY <1>4, <1>5, <3>1, <3>2
  <2>2. ASSUME NEW a \in Actors, NEW c \in Actors, a # c
        PROVE  Pending(a)' \cap Pending(c)' = {}
    <3>1. Pending(a) \cap Pending(c) = {} /\ Pending(a) \cup Pending(c) \subseteq 1..count
      BY <1>6, <2>2
    <3>2. CASE a # b /\ c # b
      BY <1>4, <3>1, <3>2
    <3>3. CASE a = b /\ c # b
      BY <1>4, <1>5, <1>7, <3>1, <3>3
    <3>4. CASE a # b /\ c = b
      BY <1>4, <1>5, <1>7, <3>1, <3>4
    <3>. QED
      BY <2>2, <3>2, <3>3, <3>4
  <2>3. sent' \cup acked' \subseteq 1..count' /\ QueueNos' \cap acked' = {}
    BY <1>3, <1>6, <1>7
  <2>. QED
    BY <2>1, <2>2, <2>3 DEF FreshInv
<1>9. OpenInv'
  <2>. DEFINE n == file[Len(file)].no
  <2>1. file' \in Seq(Range(file'))
    BY DEF RolloutInv, OpenInv
  <2>2. SUFFICES ASSUME tail = "open"
                 PROVE  /\ file # <<>> /\ n \in 0..count' /\ n \notin acked
                        /\ writer = "up" => n \notin sent /\ \A a \in Actors : n \notin Pending(a)'
    BY <2>1 DEF OpenInv
  <2>3. /\ file # <<>> /\ n \in 0..count /\ n \notin acked
        /\ writer = "up" => n \notin sent /\ \A a \in Actors : n \notin Pending(a)
    BY <2>2 DEF RolloutInv, OpenInv
  <2>. HIDE DEF n
  <2>4. n \in 0..count' /\ n # count + 1
    BY <1>0, <2>3
  <2>5. ASSUME writer = "up", NEW a \in Actors PROVE n \notin Pending(a)'
    BY <1>4, <1>5, <2>3, <2>4, <2>5
  <2>. QED
    BY <2>3, <2>4, <2>5
<1>10. Budget'
  BY <1>3 DEF RolloutInv, Budget
<1>. QED
  BY <1>1, <1>2, <1>8, <1>9, <1>10 DEF Kept

\* Change and the other operations of the session are such steps.
LEMMA ChangeFacts ==
    ASSUME RolloutInv, NEW a \in Actors, NEW h, NEW type, NEW body, NEW flush \in BOOLEAN,
           type # "garbled", Change(a, h, type, body, flush)
    PROVE  /\ count' = count + 1 /\ count < MaxRecords
           /\ Fresh(todo'[a], count + 1)
           /\ \A c \in Actors \ {a} : todo'[c] = todo[c]
           /\ DOMAIN todo' = Actors
<1>. DEFINE c == Add(Rec(type, count + 1, body))
            f == Flush(a)
<1>1. /\ c.type = "add" /\ c.rec.no = count + 1 /\ c.rec.type # "garbled"
      /\ IsFlush(f)
  BY Commands DEF IsFlush
<1>2. /\ todo' = [todo EXCEPT ![a] = <<c>> \o (IF flush THEN <<f>> ELSE <<>>)]
      /\ count' = count + 1 /\ count < MaxRecords
  BY DEF Change
<1>. HIDE DEF c, f
<1>3. <<c>> \o (IF flush THEN <<f>> ELSE <<>>) \in {<<c>>, <<c, f>>}
  <2>1. CASE flush
    BY <2>1, ShortSeq
  <2>2. CASE ~flush
    BY <2>2, ShortSeq
  <2>. QED
    BY <2>1, <2>2
<1>4. DOMAIN todo = Actors
  BY DEF RolloutInv, TodoInv
<1>5. PICK s : s = <<c>> \o (IF flush THEN <<f>> ELSE <<>>)
  OBVIOUS
<1>6. todo' = [todo EXCEPT ![a] = s] /\ s \in {<<c>>, <<c, f>>}
  BY <1>2, <1>3, <1>5
<1>7. todo'[a] = s /\ DOMAIN todo' = Actors /\ \A b \in Actors \ {a} : todo'[b] = todo[b]
  BY <1>4, <1>6
<1>8. Fresh(s, count + 1)
  BY <1>1, <1>6 DEF Fresh
<1>. QED
  BY <1>2, <1>7, <1>8

\* The operations that record: Change by one actor.
LEMMA ChangeKeeps ==
    ASSUME RolloutInv, up, UNCHANGED <<up, recorderVars, tears, sent, acked>>,
           NEW a \in Actors, NEW h, NEW type, NEW body, NEW flush \in BOOLEAN,
           type # "garbled", Change(a, h, type, body, flush)
    PROVE  Kept' /\ count' \in 0..MaxRecords
<1>1. /\ count' = count + 1 /\ count < MaxRecords
      /\ Fresh(todo'[a], count + 1)
      /\ \A c \in Actors \ {a} : todo'[c] = todo[c]
      /\ DOMAIN todo' = Actors
  BY ChangeFacts
<1>2. \A c \in Actors : Todo(c)
  BY <1>1 DEF Todo
<1>3. Kept'
  BY <1>1, <1>2, SessionKeeps DEF recorderVars
<1>4. count \in Nat /\ MaxRecords \in Nat
  BY Numbers DEF RolloutInv
<1>. QED
  BY <1>1, <1>3, <1>4

\* Every step of the session that is not a send keeps the invariant.
LEMMA SessionStepKeeps ==
    ASSUME RolloutInv, SessionStep, \A a \in Actors : ~Send(a)
    PROVE  Kept' /\ TypeOK'
<1>. USE DEF sessionVars, bounds, Record
<1>0. TypeOK /\ Task \in Actors /\ Loop \in Actors /\ Ghost \in Actors
  BY DEF RolloutInv, Actors
<1>1. ASSUME UNCHANGED <<up, recorderVars, tears, restarts, sent, acked>>,
             \A b \in {seeded', snapping', own', cut'} : b \in BOOLEAN,
             task' \in {"none", "run", "compact", "ending"},
             event' \in {"none", "TurnAborted", "SessionRolledBack"},
             awaiting' \in [Actors -> BOOLEAN], count' \in 0..MaxRecords
      PROVE  TypeOK'
  <2>1. up \in BOOLEAN
    BY <1>0, Numbers
  <2>. QED
    BY <1>0, <1>1, <2>1 DEF TypeOK, recorderVars
<1>2. /\ up \in BOOLEAN /\ seeded \in BOOLEAN /\ cut \in BOOLEAN /\ snapping \in BOOLEAN
      /\ own \in BOOLEAN
  BY <1>0 DEF TypeOK
<1>3. /\ task \in {"none", "run", "compact", "ending"}
      /\ event \in {"none", "TurnAborted", "SessionRolledBack"}
      /\ awaiting \in [Actors -> BOOLEAN] /\ count \in 0..MaxRecords
  BY <1>0 DEF TypeOK
<1>4. CASE SeedInitialContext
  <2>1. Kept' /\ count' \in 0..MaxRecords
    BY <1>0, <1>4, ChangeKeeps DEF SeedInitialContext, LoopIdle
  <2>. QED
    BY <1>1, <1>2, <1>3, <1>4, <2>1 DEF SeedInitialContext
<1>5. CASE StartTurn
  <2>1. Kept' /\ count' \in 0..MaxRecords
    BY <1>0, <1>5, ChangeKeeps DEF StartTurn, LoopIdle
  <2>. QED
    BY <1>1, <1>2, <1>3, <1>5, <2>1 DEF StartTurn
<1>6. CASE RecordReply
  <2>1. Kept' /\ count' \in 0..MaxRecords
    BY <1>0, <1>6, ChangeKeeps DEF RecordReply
  <2>. QED
    BY <1>1, <1>2, <1>3, <1>6, <2>1 DEF RecordReply
<1>7. CASE GhostSnapshot
  <2>1. Kept' /\ count' \in 0..MaxRecords
    BY <1>0, <1>7, ChangeKeeps DEF GhostSnapshot
  <2>. QED
    BY <1>1, <1>2, <1>3, <1>7, <2>1 DEF GhostSnapshot
<1>8. CASE CompactLocal
  <2>1. Kept' /\ count' \in 0..MaxRecords
    BY <1>0, <1>8, ChangeKeeps DEF CompactLocal
  <2>. QED
    BY <1>1, <1>2, <1>3, <1>8, <2>1 DEF CompactLocal
<1>9. CASE CompactRemote
  <2>1. Kept' /\ count' \in 0..MaxRecords
    BY <1>0, <1>9, ChangeKeeps DEF CompactRemote
  <2>. QED
    BY <1>1, <1>2, <1>3, <1>9, <2>1 DEF CompactRemote
<1>10. ASSUME NEW n \in 1..MaxTurns, Rollback(n) PROVE Kept' /\ TypeOK'
  <2>1. Kept' /\ count' \in 0..MaxRecords
    BY <1>0, <1>10, ChangeKeeps DEF Rollback, LoopIdle
  <2>. QED
    BY <1>1, <1>2, <1>3, <1>10, <2>1 DEF Rollback
<1>11. CASE CompactReply \/ CompactFails \/ FinishTurn \/ SendEvent
  <2>1. /\ up /\ UNCHANGED <<up, recorderVars, tears, restarts, sent, acked, todo, awaiting>>
        /\ count' \in {count, count + 1} /\ count' \in 0..MaxRecords
    <3>1. count \in Nat /\ MaxRecords \in Nat
      BY <1>0, Numbers
    <3>2. count' = count \/ (count' = count + 1 /\ count < MaxRecords)
      BY <1>11 DEF CompactReply, CompactFails, FinishTurn, SendEvent
    <3>3. up /\ UNCHANGED <<up, recorderVars, tears, restarts, sent, acked, todo, awaiting>>
      BY <1>11 DEF CompactReply, CompactFails, FinishTurn, SendEvent
    <3>. QED
      BY <1>3, <3>1, <3>2, <3>3
  <2>2. DOMAIN todo' = Actors /\ \A a \in Actors : Todo(a)
    BY <2>1 DEF Todo, RolloutInv, TodoInv
  <2>3. Kept'
    BY <1>0, <2>1, <2>2, SessionKeeps DEF recorderVars
  <2>4. /\ \A b \in {seeded', snapping', own', cut'} : b \in BOOLEAN
        /\ task' \in {"none", "run", "compact", "ending"}
        /\ event' \in {"none", "TurnAborted", "SessionRolledBack"}
    BY <1>2, <1>3, <1>11 DEF CompactReply, CompactFails, FinishTurn, SendEvent
  <2>. QED
    BY <1>1, <1>3, <2>1, <2>3, <2>4
<1>12. CASE FlushTurn
  <2>1. IsFlush(Flush(Task))
    BY <1>0, Commands DEF IsFlush
  <2>2. /\ up /\ UNCHANGED <<up, recorderVars, tears, restarts, sent, acked, count>>
        /\ todo' = [todo EXCEPT ![Task] = <<Flush(Task)>>]
    BY <1>12 DEF FlushTurn
  <2>3. DOMAIN todo' = Actors /\ todo'[Task] = <<Flush(Task)>>
        /\ \A a \in Actors \ {Task} : todo'[a] = todo[a]
    BY <1>0, <2>2 DEF RolloutInv, TodoInv
  <2>4. \A a \in Actors : Todo(a)
    BY <2>1, <2>3 DEF Todo
  <2>5. Kept'
    BY <1>0, <2>2, <2>3, <2>4, SessionKeeps DEF recorderVars
  <2>. QED
    BY <1>1, <1>2, <1>3, <1>12, <2>2, <2>5 DEF FlushTurn
<1>13. CASE AbortTurn \/ ReplaceTurn
  <2>1. PICK marker : /\ DropTurn(marker)
                      /\ \/ marker = <<>> /\ UNCHANGED <<count, event>>
                         \/ /\ count' = count + 1 /\ count < MaxRecords
                            /\ Fresh(marker, count + 1) /\ event' = "TurnAborted"
    <3>1. CASE AbortTurn
      <4>. DEFINE i == Item("aborted", count + 1)
                  c == Add(Rec("item", count + 1, <<i>>))
                  f == Flush(Loop)
      <4>1. /\ c.type = "add" /\ c.rec.no = count + 1 /\ c.rec.type # "garbled"
            /\ IsFlush(f)
        BY <1>0, Commands DEF IsFlush
      <4>2. /\ DropTurn(<<c, f>>) /\ count' = count + 1 /\ count < MaxRecords
            /\ event' = "TurnAborted"
        BY <3>1 DEF AbortTurn
      <4>. HIDE DEF c, f
      <4>3. Fresh(<<c, f>>, count + 1)
        BY <4>1 DEF Fresh
      <4>. QED
        BY <4>2, <4>3
    <3>2. CASE ReplaceTurn
      BY <3>2 DEF ReplaceTurn
    <3>. QED
      BY <1>13, <3>1, <3>2
  <2>2. /\ up /\ UNCHANGED <<up, seeded, recorderVars, tears, restarts, sent, acked>>
        /\ task' = "none" /\ own' = FALSE
        /\ awaiting' = [awaiting EXCEPT ![Task] = FALSE]
        /\ cut' = (cut \/ task = "compact" \/ (task = "run" /\ todo[Task] # <<>>))
        /\ snapping' = (snapping /\ ~own)
    BY <2>1 DEF DropTurn, LoopIdle
  <2>3. PICK g \in {todo[Ghost], <<>>} :
            todo' = [todo EXCEPT ![Task] = <<>>, ![Loop] = marker, ![Ghost] = g]
    BY <2>1 DEF DropTurn
  <2>4. /\ DOMAIN todo' = Actors
        /\ todo'[Task] = <<>> /\ todo'[Loop] = marker /\ todo'[Ghost] = g
    BY <2>3 DEF RolloutInv, TodoInv, Actors, Task, Loop, Ghost
  <2>5. /\ \A a \in Actors \ {Loop} : todo'[a] = todo[a] \/ todo'[a] = <<>>
        /\ \A a \in Actors : Todo(a)
    BY <2>1, <2>4 DEF Todo, Actors
  <2>6. count \in Nat /\ MaxRecords \in Nat
    BY <1>0, Numbers
  <2>7. count' \in {count, count + 1} /\ count' \in 0..MaxRecords
    BY <1>3, <2>1, <2>6
  <2>8. Kept'
    BY <1>0, <2>2, <2>4, <2>5, <2>7, SessionKeeps DEF recorderVars
  <2>9. cut' \in BOOLEAN /\ snapping' \in BOOLEAN
    BY <1>2, <2>2
  <2>10. awaiting' \in [Actors -> BOOLEAN] /\ event' \in {"none", "TurnAborted", "SessionRolledBack"}
    BY <1>0, <1>3, <2>1, <2>2
  <2>11. \A b \in {seeded', snapping', own', cut'} : b \in BOOLEAN
    BY <1>2, <2>2, <2>9
  <2>. QED
    BY <1>1, <2>2, <2>7, <2>8, <2>10, <2>11
<1>. QED
  BY <1>4, <1>5, <1>6, <1>7, <1>8, <1>9, <1>10, <1>11, <1>12, <1>13 DEF SessionStep

----------------------------------------------------------------------------
(* The recorder                                                             *)

\* What is missing is a finite set, and so is what a step leaves of it.
LEMMA MissingLess ==
    ASSUME RolloutInv, NEW M, M \subseteq Missing
    PROVE  /\ Cardinality(M) \in Nat /\ Cardinality(Missing) \in Nat
           /\ Cardinality(M) <= Cardinality(Missing)
<1>1. IsFiniteSet(1..count)
  BY Numbers, FS_Interval DEF RolloutInv
<1>2. Missing \subseteq 1..count
  BY DEF RolloutInv, FreshInv, Missing, Left
<1>3. IsFiniteSet(Missing)
  BY <1>1, <1>2, FS_Subset
<1>. QED
  BY <1>3, FS_Subset, FS_CardinalityType

\* A step that loses one line more.
LEMMA MissingOne ==
    ASSUME RolloutInv, NEW n, NEW M, M \subseteq Missing \cup {n}
    PROVE  /\ Cardinality(M) \in Nat /\ Cardinality(Missing) \in Nat
           /\ Cardinality(M) <= Cardinality(Missing) + 1
<1>1. IsFiniteSet(1..count)
  BY Numbers, FS_Interval DEF RolloutInv
<1>2. Missing \subseteq 1..count
  BY DEF RolloutInv, FreshInv, Missing, Left
<1>3. IsFiniteSet(Missing)
  BY <1>1, <1>2, FS_Subset
<1>4. /\ IsFiniteSet(Missing \cup {n})
      /\ \/ Cardinality(Missing \cup {n}) = Cardinality(Missing)
         \/ Cardinality(Missing \cup {n}) = Cardinality(Missing) + 1
  BY <1>3, FS_AddElement
<1>5. IsFiniteSet(M) /\ Cardinality(M) <= Cardinality(Missing \cup {n})
  BY <1>4, FS_Subset
<1>6. Cardinality(M) \in Nat /\ Cardinality(Missing) \in Nat
  BY <1>3, <1>5, FS_CardinalityType
<1>. QED
  BY <1>4, <1>5, <1>6

\* A command leaves the channel.
LEMMA TakenFacts ==
    ASSUME RolloutInv, queue # <<>>, queue' = Tail(queue)
    PROVE  /\ queue' \in Seq(Range(queue')) /\ Len(queue') <= Capacity
           /\ \A i \in DOMAIN queue' : IsAdd(queue'[i], count) \/ IsFlush(queue'[i])
           /\ QueueNos = QueueNos' \cup {Head(queue).rec.no}
           /\ IsAdd(Head(queue), count) \/ IsFlush(Head(queue))
<1>1. queue \in Seq(Range(queue)) /\ Len(queue) <= Capacity /\ Capacity \in Nat
      /\ \A i \in DOMAIN queue : IsAdd(queue[i], count) \/ IsFlush(queue[i])
  BY RolloutAssumption DEF RolloutInv, QueueInv, TypeOK
<1>2. /\ queue' \in Seq(Range(queue')) /\ Len(queue) \in Nat \ {0} /\ DOMAIN queue = 1..Len(queue)
      /\ Head(queue) = queue[1] /\ 1 \in DOMAIN queue
      /\ Len(queue') = Len(queue) - 1 /\ DOMAIN queue' = 1..(Len(queue) - 1)
      /\ \A i \in 1..(Len(queue) - 1) : queue'[i] = queue[i + 1] /\ i + 1 \in DOMAIN queue
  BY <1>1, TailSeq
<1>3. Len(queue') <= Capacity
  BY <1>1, <1>2
<1>4. \A i \in DOMAIN queue' : IsAdd(queue'[i], count) \/ IsFlush(queue'[i])
  BY <1>1, <1>2
<1>5. QueueNos' \subseteq QueueNos /\ Head(queue).rec.no \in QueueNos
  BY <1>2 DEF QueueNos
<1>6. ASSUME NEW i \in DOMAIN queue
      PROVE  queue[i].rec.no \in QueueNos' \cup {Head(queue).rec.no}
  <2>1. CASE i = 1
    BY <1>2, <2>1
  <2>2. CASE i # 1
    <3>1. i - 1 \in DOMAIN queue' /\ queue'[i - 1] = queue[(i - 1) + 1] /\ (i - 1) + 1 = i
      BY <1>2, <2>2
    <3>. QED
      BY <3>1 DEF QueueNos
  <2>. QED
    BY <2>1, <2>2
<1>7. QueueNos \subseteq QueueNos' \cup {Head(queue).rec.no}
  BY <1>6 DEF QueueNos
<1>. QED
  BY <1>1, <1>2, <1>3, <1>4, <1>5, <1>7

\* An actor sends its next command.
LEMMA SendKeeps ==
    ASSUME RolloutInv, NEW a \in Actors, Send(a)
    PROVE  Kept' /\ TypeOK'
<1>. DEFINE c == todo[a][1]
<1>0. /\ count \in Nat /\ MaxRecords \in Nat /\ Capacity \in Nat /\ writer \in {"up", "dead"}
      /\ 1..count \subseteq 0..MaxRecords
  <2>1. count \in 0..MaxRecords /\ Capacity \in Nat
    BY RolloutAssumption DEF RolloutInv, TypeOK
  <2>. QED
    BY <2>1, Numbers DEF RolloutInv
<1>1. /\ todo[a] \in Seq(Range(todo[a])) /\ todo[a] # <<>> /\ DOMAIN todo = Actors
      /\ todo' = [todo EXCEPT ![a] = Tail(todo[a])] /\ up
      /\ UNCHANGED <<sessionVars, history, writer, file, tail, lost, count, bounds, acked>>
  BY DEF RolloutInv, TodoInv, Send
<1>2. todo'[a] = Tail(todo[a]) /\ DOMAIN todo' = Actors
      /\ \A b \in Actors \ {a} : todo'[b] = todo[b]
  BY <1>1
<1>3. /\ todo'[a] \in Seq(Range(todo'[a])) /\ Len(todo[a]) \in Nat \ {0}
      /\ Head(todo[a]) = c /\ 1 \in DOMAIN todo[a]
      /\ DOMAIN todo'[a] = 1..(Len(todo[a]) - 1)
      /\ \A i \in 1..(Len(todo[a]) - 1) :
             todo'[a][i] = todo[a][i + 1] /\ i + 1 \in DOMAIN todo[a]
  <2>. DEFINE s == todo[a]
              t == todo'[a]
  <2>1. s \in Seq(Range(s)) /\ s # <<>> /\ t = Tail(s)
    BY <1>1, <1>2
  <2>. HIDE DEF s, t
  <2>2. /\ t \in Seq(Range(t)) /\ Len(s) \in Nat \ {0} /\ DOMAIN s = 1..Len(s)
        /\ Head(s) = s[1] /\ 1 \in DOMAIN s
        /\ Len(t) = Len(s) - 1 /\ DOMAIN t = 1..(Len(s) - 1)
        /\ \A i \in 1..(Len(s) - 1) : t[i] = s[i + 1] /\ i + 1 \in DOMAIN s
    BY <2>1, TailSeq
  <2>. QED
    BY <2>2 DEF s, t, c
<1>4. IsAdd(c, count) \/ IsFlush(c)
  BY <1>3 DEF RolloutInv, TodoInv
<1>5. c.type = "add" => c.rec.no \in Pending(a)
  BY <1>3 DEF Pending, AddAt
<1>. HIDE DEF c
<1>6. \A i \in DOMAIN todo'[a] : IsFlush(todo'[a][i])
  <2>1. ASSUME NEW i \in DOMAIN todo'[a] PROVE IsFlush(todo'[a][i])
    <3>1. todo'[a][i] = todo[a][i + 1] /\ i + 1 \in DOMAIN todo[a] /\ i + 1 # 1
      BY <1>3, <2>1
    <3>. QED
      BY <3>1 DEF RolloutInv, TodoInv
  <2>. QED
    BY <2>1
<1>7. Pending(a)' = {}
  <2>1. AddAt(todo'[a]) = {}
    BY <1>6 DEF AddAt, IsFlush
  <2>. QED
    BY <2>1 DEF Pending, AddAt
<1>8. \A b \in Actors \ {a} : Pending(b)' = Pending(b)
  BY <1>2 DEF Pending, AddAt
<1>9. TodoInv'
  <2>1. ASSUME NEW b \in Actors
        PROVE  /\ todo'[b] \in Seq(Range(todo'[b]))
               /\ \A i \in DOMAIN todo'[b] :
                      (IsAdd(todo'[b][i], count) /\ i = 1) \/ IsFlush(todo'[b][i])
    <3>1. CASE b = a
      BY <1>3, <1>6, <3>1
    <3>2. CASE b # a
      BY <1>2, <3>2 DEF RolloutInv, TodoInv
    <3>. QED
      BY <3>1, <3>2
  <2>. QED
    BY <1>1, <1>2, <2>1 DEF TodoInv
<1>10. /\ \A b \in Actors : Pending(b) \subseteq 1..count
       /\ \A b \in Actors \ {a} : Pending(a) \cap Pending(b) = {}
       /\ \A b, d \in Actors : b # d => Pending(b) \cap Pending(d) = {}
       /\ \A b \in Actors : Pending(b) \cap (sent \cup acked) = {}
       /\ sent \cup acked \subseteq 1..count
       /\ QueueNos \cap acked = {}
  BY DEF RolloutInv, FreshInv
<1>11. CASE writer = "dead"
  <2>1. UNCHANGED <<queue, sent, awaiting>>
    BY <1>11 DEF Send
  <2>2. QueueNos' = QueueNos /\ Left' = Left /\ Missing' = Missing
    BY <1>1, <2>1 DEF QueueNos, Left, Missing, Readable
  <2>3. QueueInv'
    BY <1>1, <2>1 DEF RolloutInv, QueueInv, sessionVars
  <2>4. FreshInv'
    BY <1>1, <1>7, <1>8, <1>10, <2>1, <2>2 DEF FreshInv
  <2>5. OpenInv'
    BY <1>1, <1>11 DEF RolloutInv, OpenInv
  <2>6. Budget'
    BY <1>1, <2>2 DEF RolloutInv, Budget, bounds
  <2>7. TypeOK'
    BY <1>1, <2>1 DEF RolloutInv, TypeOK, sessionVars, bounds
  <2>. QED
    BY <1>9, <2>3, <2>4, <2>5, <2>6, <2>7 DEF Kept
<1>12. CASE writer = "up"
  <2>1. /\ Len(queue) < Capacity /\ queue' = Append(queue, c)
        /\ sent' = IF c.type = "add" THEN sent \cup {c.rec.no} ELSE sent
        /\ awaiting' = [awaiting EXCEPT ![a] = c.type = "flush"]
    BY <1>3, <1>12 DEF Send
  <2>2. queue \in Seq(Range(queue))
        /\ \A i \in DOMAIN queue : IsAdd(queue[i], count) \/ IsFlush(queue[i])
    BY DEF RolloutInv, QueueInv
  <2>3. /\ queue' \in Seq(Range(queue')) /\ Len(queue) \in Nat /\ DOMAIN queue = 1..Len(queue)
        /\ Len(queue') = Len(queue) + 1 /\ DOMAIN queue' = 1..(Len(queue) + 1)
        /\ queue'[Len(queue) + 1] = c
        /\ \A i \in 1..Len(queue) : queue'[i] = queue[i]
    <3>1. queue \in Seq(Range(queue)) /\ queue' = Append(queue, c)
      BY <2>1, <2>2
    <3>. QED
      BY <3>1, AppendSeq
  <2>4. \A i \in DOMAIN queue' : i \in DOMAIN queue \/ i = Len(queue) + 1
    BY <2>3
  <2>5. \A i \in DOMAIN queue' : IsAdd(queue'[i], count) \/ IsFlush(queue'[i])
    BY <1>4, <2>2, <2>3, <2>4
  <2>6. QueueInv'
    BY <1>1, <1>12, <2>3, <2>5 DEF QueueInv, sessionVars
  <2>7. QueueNos' = QueueNos \cup {c.rec.no}
    <3>1. QueueNos \subseteq QueueNos'
      BY <2>3 DEF QueueNos
    <3>2. c.rec.no \in QueueNos'
      BY <2>3 DEF QueueNos
    <3>3. QueueNos' \subseteq QueueNos \cup {c.rec.no}
      BY <2>3, <2>4 DEF QueueNos
    <3>. QED
      BY <3>1, <3>2, <3>3
  <2>8. c.type = "add" \/ (c.type = "flush" /\ c.rec.no = 0)
    BY <1>4 DEF IsAdd, IsFlush
  <2>9. c.rec.no \notin acked /\ sent' \subseteq 1..count
        /\ \A b \in Actors \ {a} : Pending(b) \cap sent' = {}
    <3>1. CASE c.type = "add"
      BY <1>5, <1>10, <2>1, <3>1
    <3>2. CASE c.type = "flush" /\ c.rec.no = 0
      <4>1. sent' = sent
        BY <2>1, <3>2
      <4>2. 0 \notin 1..count
        BY <1>0
      <4>. QED
        BY <1>10, <3>2, <4>1, <4>2
    <3>. QED
      BY <2>8, <3>1, <3>2
  <2>10. FreshInv'
    <3>1. ASSUME NEW b \in Actors
          PROVE  Pending(b)' \subseteq 1..count /\ Pending(b)' \cap (sent' \cup acked) = {}
      <4>1. CASE b = a
        BY <1>7, <4>1
      <4>2. CASE b # a
        BY <1>8, <1>10, <2>9, <4>2
      <4>. QED
        BY <4>1, <4>2
    <3>2. ASSUME NEW b \in Actors, NEW d \in Actors, b # d
          PROVE  Pending(b)' \cap Pending(d)' = {}
      BY <1>7, <1>8, <1>10, <3>2
    <3>3. sent' \cup acked \subseteq 1..count /\ QueueNos' \cap acked = {}
      BY <1>10, <2>7, <2>9
    <3>. QED
      BY <1>1, <3>1, <3>2, <3>3 DEF FreshInv
  <2>11. OpenInv'
    <3>. DEFINE n == file[Len(file)].no
    <3>1. file \in Seq(Range(file))
      BY DEF RolloutInv, OpenInv
    <3>2. SUFFICES ASSUME tail = "open"
                   PROVE  /\ file # <<>> /\ n \in 0..count /\ n \notin acked
                          /\ n \notin sent' /\ \A b \in Actors : n \notin Pending(b)'
      BY <1>1, <3>1 DEF OpenInv
    <3>3. /\ file # <<>> /\ n \in 0..count /\ n \notin acked
          /\ n \notin sent /\ \A b \in Actors : n \notin Pending(b)
      BY <1>12, <3>2 DEF RolloutInv, OpenInv
    <3>. HIDE DEF n
    <3>4. n \notin sent'
      BY <1>5, <2>1, <3>3
    <3>. QED
      BY <1>7, <1>8, <3>3, <3>4
  <2>12. Missing' \subseteq Missing
    BY <1>1, <1>12, <2>1, <2>7 DEF Missing, Left, Readable
  <2>13. Budget'
    <3>1. Cardinality(Missing') \in Nat /\ Cardinality(Missing) \in Nat
          /\ Cardinality(Missing') <= Cardinality(Missing) /\ tears \in Nat
      BY <2>12, MissingLess, Numbers DEF RolloutInv
    <3>2. UNCHANGED <<tail, tears>>
      BY <1>1 DEF bounds
    <3>. QED
      BY <3>1, <3>2 DEF RolloutInv, Budget
  <2>14. TypeOK'
    <3>1. awaiting' \in [Actors -> BOOLEAN]
      BY <2>1 DEF RolloutInv, TypeOK
    <3>2. Len(queue') <= Capacity
      BY <1>0, <2>1, <2>3
    <3>3. sent' \subseteq 0..MaxRecords
      BY <1>0, <2>9
    <3>. QED
      BY <1>1, <3>1, <3>2, <3>3 DEF RolloutInv, TypeOK, sessionVars, bounds
  <2>. QED
    BY <1>9, <2>6, <2>10, <2>11, <2>13, <2>14 DEF Kept
<1>. QED
  BY <1>0, <1>11, <1>12

\* What can be read back after the last line is overwritten.
LEMMA LastGarbled ==
    ASSUME RolloutInv, tail = "open", file' = [file EXCEPT ![Len(file)] = Garbled]
    PROVE  /\ file' \in Seq(Range(file'))
           /\ Readable \subseteq Readable' \cup {file[Len(file)].no}
<1>1. file \in Seq(Range(file)) /\ file # <<>>
  BY DEF RolloutInv, OpenInv
<1>2. /\ file' \in Seq(Range(file')) /\ Len(file) \in Nat \ {0} /\ DOMAIN file = 1..Len(file)
      /\ DOMAIN file' = DOMAIN file /\ Len(file') = Len(file)
      /\ file'[Len(file)] = Garbled
      /\ \A i \in DOMAIN file \ {Len(file)} : file'[i] = file[i]
  BY <1>1, LastReplaced
<1>3. Readable \subseteq Readable' \cup {file[Len(file)].no}
  BY <1>2 DEF Readable
<1>. QED
  BY <1>2, <1>3

\* What can be read back after a line is added.
LEMMA LineAdded ==
    ASSUME RolloutInv, NEW r, file' = Append(file, r)
    PROVE  /\ file' \in Seq(Range(file')) /\ file' # <<>> /\ file'[Len(file')] = r
           /\ Readable \subseteq Readable'
           /\ r.type # "garbled" => r.no \in Readable'
<1>1. file \in Seq(Range(file))
  BY DEF RolloutInv, OpenInv
<1>2. /\ file' \in Seq(Range(file')) /\ Len(file) \in Nat /\ DOMAIN file = 1..Len(file)
      /\ Len(file') = Len(file) + 1 /\ DOMAIN file' = 1..(Len(file) + 1)
      /\ file'[Len(file) + 1] = r
      /\ \A i \in 1..Len(file) : file'[i] = file[i]
  BY <1>1, AppendSeq
<1>3. Readable \subseteq Readable'
  BY <1>2 DEF Readable
<1>4. r.type # "garbled" => r.no \in Readable'
  BY <1>2 DEF Readable
<1>5. file' # <<>> /\ file'[Len(file')] = r
  BY <1>2
<1>. QED
  BY <1>2, <1>3, <1>4, <1>5

\* The actors send nothing: their commands are what they were.
LEMMA TodoSame ==
    ASSUME RolloutInv, UNCHANGED <<todo, count>>
    PROVE  TodoInv' /\ \A a \in Actors : Pending(a)' = Pending(a)
<1>1. TodoInv'
  BY DEF RolloutInv, TodoInv
<1>2. \A a \in Actors : Pending(a)' = Pending(a)
  BY DEF Pending, AddAt
<1>. QED
  BY <1>1, <1>2

\* A line is written: after a torn one it is lost, and with it the tear is paid for.
LEMMA WriteKeeps ==
    ASSUME RolloutInv, WriteLine
    PROVE  Kept' /\ TypeOK'
<1>. DEFINE r == Head(queue).rec
            n == file[Len(file)].no
<1>0. /\ count \in Nat /\ tears \in Nat /\ tail \in {"line", "torn", "open"}
      /\ 1..count \subseteq 0..MaxRecords
  <2>1. count \in 0..MaxRecords
    BY DEF RolloutInv, TypeOK
  <2>. QED
    BY <2>1, Numbers DEF RolloutInv
<1>1. /\ queue # <<>> /\ queue' = Tail(queue) /\ writer = "up" /\ up /\ tail' = "line"
      /\ Head(queue).type = "add"
      /\ UNCHANGED <<sessionVars, history, todo, awaiting, writer, count, bounds, sent, acked>>
  BY DEF WriteLine, Writing
<1>2. /\ queue' \in Seq(Range(queue')) /\ Len(queue') <= Capacity
      /\ \A i \in DOMAIN queue' : IsAdd(queue'[i], count) \/ IsFlush(queue'[i])
      /\ QueueNos = QueueNos' \cup {r.no}
      /\ IsAdd(Head(queue), count) \/ IsFlush(Head(queue))
  BY <1>1, TakenFacts
<1>3. r.no \in 0..count /\ r.type # "garbled"
  BY <1>1, <1>2 DEF IsAdd, IsFlush
<1>4. /\ file' = CASE tail = "line" -> Append(file, r)
                   [] tail = "torn" -> file
                   [] tail = "open" -> [file EXCEPT ![Len(file)] = Garbled]
      /\ lost' = CASE tail = "line" -> lost
                   [] tail = "torn" -> lost \cup {r.no}
                   [] tail = "open" -> lost \cup {r.no, n}
  BY DEF WriteLine
<1>5. tail = "open" => n \in 0..count /\ n \notin acked /\ n \notin sent
  BY <1>1 DEF RolloutInv, OpenInv
<1>. HIDE DEF r, n
<1>6. TodoInv' /\ \A a \in Actors : Pending(a)' = Pending(a)
  BY <1>1, TodoSame
<1>7. QueueInv'
  BY <1>1, <1>2 DEF QueueInv, sessionVars
<1>8. FreshInv'
  <2>1. QueueNos' \subseteq QueueNos
    BY <1>2
  <2>. QED
    BY <1>1, <1>6, <2>1 DEF RolloutInv, FreshInv
<1>9. Left' \subseteq Left \cup {r.no}
  BY <1>1, <1>2 DEF Left
<1>10. Missing' \subseteq (acked \cup Left \cup {r.no}) \ Readable'
  BY <1>1, <1>9 DEF Missing
<1>11. Cardinality(Missing) + (IF tail = "line" THEN 0 ELSE 1) <= tears
  BY DEF RolloutInv, Budget
<1>12. CASE tail = "line"
  <2>1. file' \in Seq(Range(file')) /\ Readable \subseteq Readable' /\ r.no \in Readable'
    BY <1>3, <1>4, <1>12, LineAdded
  <2>2. Missing' \subseteq Missing
    BY <1>10, <2>1 DEF Missing
  <2>3. Budget'
    BY <1>0, <1>1, <1>11, <1>12, <2>2, MissingLess DEF Budget, bounds
  <2>4. OpenInv'
    BY <1>1, <2>1 DEF OpenInv
  <2>5. lost' = lost
    BY <1>4, <1>12
  <2>6. TypeOK'
    BY <1>1, <1>2, <2>5 DEF RolloutInv, TypeOK, sessionVars, bounds
  <2>. QED
    BY <1>6, <1>7, <1>8, <2>3, <2>4, <2>6 DEF Kept
<1>13. CASE tail \in {"torn", "open"}
  <2>1. file' \in Seq(Range(file')) /\ Missing' \subseteq Missing \cup {r.no}
    <3>1. CASE tail = "torn"
      <4>1. file' = file
        BY <1>4, <3>1
      <4>2. Readable' = Readable
        BY <4>1 DEF Readable
      <4>. QED
        BY <1>10, <4>1, <4>2 DEF Missing, RolloutInv, OpenInv
    <3>2. CASE tail = "open"
      <4>1. file' = [file EXCEPT ![Len(file)] = Garbled]
        BY <1>4, <3>2
      <4>2. file' \in Seq(Range(file')) /\ Readable \subseteq Readable' \cup {n}
        BY <3>2, <4>1, LastGarbled DEF n
      <4>3. n \notin acked \cup Left
        BY <1>5, <3>2 DEF Left
      <4>. QED
        BY <1>10, <4>2, <4>3 DEF Missing
    <3>. QED
      BY <1>13, <3>1, <3>2
  <2>2. Budget'
    <3>1. /\ Cardinality(Missing') \in Nat /\ Cardinality(Missing) \in Nat
          /\ Cardinality(Missing') <= Cardinality(Missing) + 1
      BY <2>1, MissingOne
    <3>2. Cardinality(Missing) + 1 <= tears
      BY <1>11, <1>13
    <3>. QED
      BY <1>0, <1>1, <3>1, <3>2 DEF Budget, bounds
  <2>3. OpenInv'
    BY <1>1, <2>1 DEF OpenInv
  <2>4. lost' \subseteq 0..MaxRecords
    <3>0. lost \subseteq 0..MaxRecords /\ count \in 0..MaxRecords /\ MaxRecords \in Nat
      BY RolloutAssumption DEF RolloutInv, TypeOK
    <3>1. lost \subseteq 0..MaxRecords /\ 0..count \subseteq 0..MaxRecords
      BY <1>0, <3>0
    <3>2. CASE tail = "torn"
      BY <1>3, <1>4, <3>1, <3>2
    <3>3. CASE tail = "open"
      BY <1>3, <1>4, <1>5, <3>1, <3>3
    <3>. QED
      BY <1>13, <3>2, <3>3
  <2>5. TypeOK'
    BY <1>1, <1>2, <2>4 DEF RolloutInv, TypeOK, sessionVars, bounds
  <2>. QED
    BY <1>6, <1>7, <1>8, <2>2, <2>3, <2>5 DEF Kept
<1>. QED
  BY <1>0, <1>12, <1>13

\* A flush is acknowledged: what the writer has taken was written, but for the lines
\* that the tears have cost.
LEMMA AckKeeps ==
    ASSUME RolloutInv, AckFlush
    PROVE  Kept' /\ TypeOK'
<1>0. count \in Nat
  BY Numbers DEF RolloutInv
<1>1. /\ queue # <<>> /\ queue' = Tail(queue) /\ writer = "up" /\ up
      /\ Head(queue).type = "flush"
      /\ acked' = acked \cup (sent \ QueueNos)
      /\ awaiting' = [awaiting EXCEPT ![Head(queue).by] = FALSE]
      /\ UNCHANGED <<sessionVars, history, todo, writer, file, tail, lost, count, bounds, sent>>
  BY DEF AckFlush, QueueNos
<1>2. /\ queue' \in Seq(Range(queue')) /\ Len(queue') <= Capacity
      /\ \A i \in DOMAIN queue' : IsAdd(queue'[i], count) \/ IsFlush(queue'[i])
      /\ QueueNos = QueueNos' \cup {Head(queue).rec.no}
      /\ IsAdd(Head(queue), count) \/ IsFlush(Head(queue))
  BY <1>1, TakenFacts
<1>3. Head(queue).rec.no = 0
  BY <1>1, <1>2 DEF IsAdd, IsFlush
<1>4. TodoInv' /\ \A a \in Actors : Pending(a)' = Pending(a)
  BY <1>1, TodoSame
<1>5. QueueInv'
  BY <1>1, <1>2 DEF QueueInv, sessionVars
<1>6. /\ \A a \in Actors : Pending(a) \cap (sent \cup acked) = {}
      /\ sent \cup acked \subseteq 1..count
      /\ QueueNos \cap acked = {}
  BY DEF RolloutInv, FreshInv
<1>7. FreshInv'
  <2>1. QueueNos' \cap acked' = {}
    BY <1>1, <1>2, <1>6
  <2>2. sent' \cup acked' \subseteq 1..count'
    BY <1>1, <1>6
  <2>3. \A a \in Actors : Pending(a)' \cap (sent' \cup acked') = {}
    BY <1>1, <1>4, <1>6
  <2>. QED
    BY <1>1, <1>4, <2>1, <2>2, <2>3 DEF RolloutInv, FreshInv
<1>8. OpenInv'
  BY <1>1, <1>4 DEF RolloutInv, OpenInv
<1>9. Missing' = Missing
  <2>1. 0 \notin sent
    BY <1>0, <1>6
  <2>2. Left' = Left /\ Left = sent \ QueueNos
    BY <1>1, <1>2, <1>3, <2>1 DEF Left
  <2>3. Readable' = Readable
    BY <1>1 DEF Readable
  <2>. QED
    BY <1>1, <2>2, <2>3 DEF Missing
<1>10. Budget'
  BY <1>1, <1>9 DEF RolloutInv, Budget, bounds
<1>11. TypeOK'
  <2>1. acked' \subseteq 0..MaxRecords /\ awaiting' \in [Actors -> BOOLEAN]
    BY <1>1 DEF RolloutInv, TypeOK
  <2>. QED
    BY <1>1, <1>2, <2>1 DEF RolloutInv, TypeOK, sessionVars, bounds
<1>. QED
  BY <1>4, <1>5, <1>7, <1>8, <1>10, <1>11 DEF Kept

\* A write is cut short, and the writer or the process dies: no line is lost by it
\* that was behind an acknowledged flush.
LEMMA TornKeeps ==
    ASSUME RolloutInv, Writing, Torn, writer' = "dead", UNCHANGED <<acked, count>>
    PROVE  /\ OpenInv' /\ Budget'
           /\ tail' \in {"line", "torn", "open"} /\ tears' \in 0..MaxTears
<1>. DEFINE r == Head(queue).rec
            n == file[Len(file)].no
<1>0. /\ count \in Nat /\ tears \in Nat /\ tail \in {"line", "torn", "open"}
      /\ MaxTears \in Nat
  BY Numbers DEF RolloutInv
<1>1. /\ tears < MaxTears /\ tears' = tears + 1
      /\ queue # <<>> /\ Head(queue).type = "add" /\ writer = "up"
  BY DEF Torn, Writing
<1>2. r.no \in 0..count /\ r.no \notin acked
  <2>1. queue \in Seq(Range(queue))
    BY DEF RolloutInv, QueueInv
  <2>2. 1 \in DOMAIN queue /\ Head(queue) = queue[1]
    BY <1>1, <2>1
  <2>3. r.no \in QueueNos
    BY <2>2 DEF QueueNos
  <2>4. IsAdd(Head(queue), count)
    BY <1>1, <2>2 DEF RolloutInv, QueueInv, IsFlush
  <2>. QED
    BY <2>3, <2>4 DEF RolloutInv, FreshInv, IsAdd
<1>3. Missing' = acked \ Readable'
  BY DEF Missing, Left
<1>4. Cardinality(Missing) + (IF tail = "line" THEN 0 ELSE 1) <= tears
  BY DEF RolloutInv, Budget
<1>5. tail = "open" => n \notin acked
  BY DEF RolloutInv, OpenInv
<1>6. ASSUME Missing' \subseteq Missing PROVE Budget'
  <2>1. /\ Cardinality(Missing') \in Nat /\ Cardinality(Missing) \in Nat
        /\ Cardinality(Missing') <= Cardinality(Missing)
    BY <1>6, MissingLess
  <2>2. Cardinality(Missing) <= tears
    BY <1>0, <1>4, <2>1
  <2>. QED
    BY <1>0, <1>1, <2>1, <2>2 DEF Budget
<1>7. CASE /\ tail' = "torn"
           /\ file' = CASE tail = "line" -> Append(file, Garbled)
                        [] tail = "torn" -> file
                        [] tail = "open" -> [file EXCEPT ![Len(file)] = Garbled]
  <2>1. file' \in Seq(Range(file')) /\ Missing' \subseteq Missing
    <3>1. CASE tail = "line"
      <4>1. file' \in Seq(Range(file')) /\ Readable \subseteq Readable'
        BY <1>7, <3>1, LineAdded
      <4>. QED
        BY <1>3, <4>1 DEF Missing
    <3>2. CASE tail = "torn"
      <4>1. file' = file
        BY <1>7, <3>2
      <4>2. Readable' = Readable /\ file' \in Seq(Range(file'))
        BY <4>1 DEF Readable, RolloutInv, OpenInv
      <4>. QED
        BY <1>3, <4>2 DEF Missing
    <3>3. CASE tail = "open"
      <4>1. file' \in Seq(Range(file')) /\ Readable \subseteq Readable' \cup {n}
        BY <1>7, <3>3, LastGarbled
      <4>. QED
        BY <1>3, <1>5, <3>3, <4>1 DEF Missing
    <3>. QED
      BY <1>0, <3>1, <3>2, <3>3
  <2>2. OpenInv'
    BY <1>7, <2>1 DEF OpenInv
  <2>. QED
    BY <1>0, <1>1, <1>6, <1>7, <2>1, <2>2
<1>8. CASE tail = "line" /\ tail' = "open" /\ file' = Append(file, r)
  <2>1. /\ file' \in Seq(Range(file')) /\ file' # <<>> /\ file'[Len(file')] = r
        /\ Readable \subseteq Readable'
    BY <1>8, LineAdded
  <2>2. OpenInv'
    BY <1>2, <1>8, <2>1 DEF OpenInv
  <2>3. Missing' \subseteq Missing
    BY <1>3, <2>1 DEF Missing
  <2>. QED
    BY <1>0, <1>1, <1>6, <1>8, <2>2, <2>3
<1>. QED
  BY <1>7, <1>8 DEF Torn

\* A failed write ends the writer.
LEMMA FailKeeps ==
    ASSUME RolloutInv, WriteFails
    PROVE  Kept' /\ TypeOK'
<1>1. /\ Writing /\ Torn /\ writer' = "dead" /\ queue' = <<>> /\ up
      /\ awaiting' = [a \in Actors |-> FALSE]
      /\ UNCHANGED <<sessionVars, history, todo, count, ghosts, restarts, lost, sent, acked>>
  BY DEF WriteFails, Writing
<1>2. /\ OpenInv' /\ Budget'
      /\ tail' \in {"line", "torn", "open"} /\ tears' \in 0..MaxTears
  BY <1>1, TornKeeps
<1>3. TodoInv' /\ \A a \in Actors : Pending(a)' = Pending(a)
  BY <1>1, TodoSame
<1>4. queue' \in Seq(Range(queue')) /\ DOMAIN queue' = {}
  BY <1>1, ShortSeq
<1>5. QueueInv'
  BY <1>1, <1>4 DEF QueueInv, sessionVars
<1>6. QueueNos' = {}
  BY <1>4 DEF QueueNos
<1>7. FreshInv'
  BY <1>1, <1>3, <1>6 DEF RolloutInv, FreshInv
<1>8. Len(queue') <= Capacity
  BY <1>1, RolloutAssumption
<1>9. TypeOK'
  BY <1>1, <1>2, <1>8 DEF RolloutInv, TypeOK, sessionVars
<1>. QED
  BY <1>2, <1>3, <1>5, <1>7, <1>9 DEF Kept

\* The process dies: the file is what is left.
LEMMA CrashKeeps ==
    ASSUME RolloutInv, Crash
    PROVE  Kept' /\ TypeOK'
<1>1. /\ up' = FALSE /\ task' = "none" /\ event' = "none"
      /\ snapping' = FALSE /\ own' = FALSE /\ seeded' = FALSE /\ cut' = FALSE
      /\ todo' = [a \in Actors |-> <<>>] /\ awaiting' = [a \in Actors |-> FALSE]
      /\ queue' = <<>> /\ writer' = "dead"
      /\ restarts < MaxRestarts /\ restarts' = restarts + 1
      /\ UNCHANGED <<count, ghosts, lost, sent, acked>>
  BY DEF Crash
<1>2. /\ OpenInv' /\ Budget'
      /\ tail' \in {"line", "torn", "open"} /\ tears' \in 0..MaxTears
  <2>1. CASE Writing /\ Torn
    BY <1>1, <2>1, TornKeeps
  <2>2. CASE UNCHANGED <<file, tail, tears>>
    <3>1. Missing' \subseteq Missing
      BY <1>1, <2>2 DEF Missing, Left, Readable
    <3>2. /\ Cardinality(Missing') \in Nat /\ Cardinality(Missing) \in Nat
          /\ Cardinality(Missing') <= Cardinality(Missing) /\ tears \in Nat
      BY <3>1, MissingLess, Numbers DEF RolloutInv
    <3>3. Budget'
      BY <2>2, <3>2 DEF RolloutInv, Budget
    <3>4. OpenInv'
      BY <1>1, <2>2 DEF RolloutInv, OpenInv
    <3>. QED
      BY <2>2, <3>3, <3>4 DEF RolloutInv, TypeOK
  <2>. QED
    BY <2>1, <2>2 DEF Crash
<1>3. \A a \in Actors : /\ todo'[a] = <<>> /\ todo'[a] \in Seq(Range(todo'[a]))
                        /\ DOMAIN todo'[a] = {}
  BY <1>1, ShortSeq
<1>4. TodoInv'
  BY <1>1, <1>3 DEF TodoInv
<1>5. \A a \in Actors : Pending(a)' = {}
  BY <1>3 DEF Pending, AddAt
<1>6. queue' \in Seq(Range(queue')) /\ DOMAIN queue' = {}
  BY <1>1, ShortSeq
<1>7. QueueInv'
  BY <1>1, <1>3, <1>6 DEF QueueInv
<1>8. QueueNos' = {}
  BY <1>6 DEF QueueNos
<1>9. FreshInv'
  BY <1>1, <1>5, <1>8 DEF RolloutInv, FreshInv
<1>10. TypeOK'
  <2>1. Len(queue') <= Capacity
    BY <1>1, RolloutAssumption
  <2>2. restarts' \in 0..MaxRestarts
    <3>1. restarts \in 0..MaxRestarts /\ MaxRestarts \in Nat
      BY RolloutAssumption DEF RolloutInv, TypeOK
    <3>. QED
      BY <1>1, <3>1
  <2>3. awaiting' \in [Actors -> BOOLEAN]
    BY <1>1
  <2>. QED
    BY <1>1, <1>2, <2>1, <2>2, <2>3 DEF RolloutInv, TypeOK
<1>. QED
  BY <1>2, <1>4, <1>7, <1>9, <1>10 DEF Kept

\* The session is loaded again: nothing is queued, and what was sent before counts
\* only as far as it was acknowledged.
LEMMA ResumeKeeps ==
    ASSUME RolloutInv, Resume
    PROVE  Kept' /\ TypeOK'
<1>1. /\ ~up /\ up' = TRUE /\ writer' = "up" /\ lost' = {} /\ sent' = {}
      /\ UNCHANGED <<seeded, task, snapping, own, event, cut, todo, awaiting, queue, file, tail,
                     count, bounds, acked>>
  BY DEF Resume
<1>2. writer = "dead" /\ queue = <<>> /\ \A a \in Actors : todo[a] = <<>>
  BY <1>1 DEF RolloutInv, QueueInv
<1>3. TodoInv' /\ \A a \in Actors : Pending(a)' = Pending(a)
  BY <1>1, TodoSame
<1>4. \A a \in Actors : Pending(a) = {}
  <2>1. DOMAIN <<>> = {}
    BY ShortSeq
  <2>. QED
    BY <1>2, <2>1 DEF Pending, AddAt
<1>5. QueueInv'
  BY <1>1 DEF RolloutInv, QueueInv
<1>6. QueueNos' = QueueNos /\ Left' = {} /\ Readable' = Readable
  BY <1>1 DEF QueueNos, Left, Readable
<1>7. FreshInv'
  BY <1>1, <1>3, <1>6 DEF RolloutInv, FreshInv
<1>8. OpenInv'
  BY <1>1, <1>3, <1>4 DEF RolloutInv, OpenInv
<1>9. Missing' \subseteq Missing
  BY <1>1, <1>6 DEF Missing
<1>10. Budget'
  <2>1. /\ Cardinality(Missing') \in Nat /\ Cardinality(Missing) \in Nat
        /\ Cardinality(Missing') <= Cardinality(Missing) /\ tears \in Nat
    BY <1>9, MissingLess, Numbers DEF RolloutInv
  <2>. QED
    BY <1>1, <2>1 DEF RolloutInv, Budget, bounds
<1>11. TypeOK'
  BY <1>1 DEF RolloutInv, TypeOK, bounds
<1>. QED
  BY <1>3, <1>5, <1>7, <1>8, <1>10, <1>11 DEF Kept

----------------------------------------------------------------------------
(* The theorems                                                             *)

\* Initially the session's first line is in the channel, with the number of no item.
LEMMA InitInv == Init => RolloutInv
<1>. SUFFICES ASSUME Init PROVE RolloutInv
  OBVIOUS
<1>. DEFINE c == Add(Meta)
<1>1. c.type = "add" /\ c.rec.no = 0 /\ c.rec.type # "garbled"
  BY DEF Add, Meta, Rec
<1>2. queue = <<c>>
  BY DEF Init
<1>. HIDE DEF c
<1>3. queue \in Seq(Range(queue)) /\ DOMAIN queue = {1} /\ queue[1] = c /\ Len(queue) = 1
  <2>1. <<c>> \in Seq(Range(<<c>>)) /\ DOMAIN <<c>> = {1} /\ <<c>>[1] = c
    BY ShortSeq
  <2>2. Len(<<c>>) = 1
    OBVIOUS
  <2>. QED
    BY <1>2, <2>1, <2>2
<1>4. TypeOK
  <2>1. /\ {MaxRecords, MaxTears, MaxRestarts} \subseteq Nat /\ Len(queue) <= Capacity
    BY <1>3, RolloutAssumption
  <2>2. awaiting \in [Actors -> BOOLEAN]
    BY DEF Init
  <2>3. count \in 0..MaxRecords /\ tears \in 0..MaxTears /\ restarts \in 0..MaxRestarts
    BY <2>1 DEF Init
  <2>. QED
    BY <2>1, <2>2, <2>3 DEF Init, TypeOK
<1>5. \A a \in Actors : todo[a] = <<>> /\ todo[a] \in Seq(Range(todo[a])) /\ DOMAIN todo[a] = {}
  BY ShortSeq DEF Init
<1>6. TodoInv
  BY <1>5 DEF Init, TodoInv
<1>7. \A a \in Actors : Pending(a) = {}
  BY <1>5 DEF Pending, AddAt
<1>8. QueueInv
  BY <1>1, <1>3 DEF Init, QueueInv, IsAdd
<1>9. FreshInv
  BY <1>7 DEF Init, FreshInv
<1>10. OpenInv
  BY ShortSeq DEF Init, OpenInv
<1>11. Missing = {}
  BY DEF Init, Missing, Left
<1>12. Budget
  BY <1>11, FS_EmptySet DEF Init, Budget
<1>. QED
  BY <1>4, <1>6, <1>8, <1>9, <1>10, <1>12 DEF RolloutInv

\* The inductive step.
LEMMA NextInv == RolloutInv /\ Next => RolloutInv'
<1>. SUFFICES ASSUME RolloutInv, Next PROVE Kept' /\ TypeOK'
  BY DEF Kept, RolloutInv
<1>1. CASE SessionStep
  BY <1>1, SessionStepKeeps, SendKeeps
<1>2. CASE WriterStep
  BY <1>2, WriteKeeps, AckKeeps DEF WriterStep
<1>. QED
  BY <1>1, <1>2, FailKeeps, CrashKeeps, ResumeKeeps DEF Next

\* The invariant is about the variables alone.
LEMMA StutterInv == RolloutInv /\ UNCHANGED vars => RolloutInv'
<1>. SUFFICES ASSUME RolloutInv, UNCHANGED vars PROVE RolloutInv'
  OBVIOUS
<1>. USE DEF vars, sessionVars, recorderVars, bounds
<1>1. TypeOK'
  BY DEF RolloutInv, TypeOK
<1>2. TodoInv' /\ \A a \in Actors : Pending(a)' = Pending(a)
  BY TodoSame
<1>3. QueueInv'
  BY DEF RolloutInv, QueueInv
<1>4. QueueNos' = QueueNos /\ Missing' = Missing
  BY DEF QueueNos, Missing, Left, Readable
<1>5. FreshInv'
  BY <1>2, <1>4 DEF RolloutInv, FreshInv
<1>6. OpenInv'
  BY <1>2 DEF RolloutInv, OpenInv
<1>7. Budget'
  BY <1>4 DEF RolloutInv, Budget
<1>. QED
  BY <1>1, <1>2, <1>3, <1>5, <1>6, <1>7 DEF RolloutInv

\* RolloutInv holds in every reachable state, for any number of records, torn writes
\* and restarts and any capacity of the channel.
THEOREM RolloutInvariant == Spec => []RolloutInv
<1>1. RolloutInv /\ [Next]_vars => RolloutInv'
  BY NextInv, StutterInv
<1>. QED
  BY InitInv, <1>1, PTL DEF Spec

\* The session and the recorder keep their types, and the channel its capacity.
THEOREM TypeCorrect == Spec => []TypeOK
<1>1. RolloutInv => TypeOK
  BY DEF RolloutInv
<1>. QED
  BY <1>1, RolloutInvariant, PTL

\* After an acknowledged flush (RolloutRecorder::flush) an item can be read back,
\* but for one item for each write that was cut short.
THEOREM FlushedSurvives == Spec => []AckedSurvives
<1>1. RolloutInv => AckedSurvives
  <2>. SUFFICES ASSUME RolloutInv PROVE AckedSurvives
    OBVIOUS
  <2>1. acked \ Readable \subseteq Missing
    BY DEF Missing
  <2>2. /\ Cardinality(acked \ Readable) \in Nat /\ Cardinality(Missing) \in Nat
        /\ Cardinality(acked \ Readable) <= Cardinality(Missing) /\ tears \in Nat
    BY <2>1, MissingLess, Numbers DEF RolloutInv
  <2>3. Cardinality(Missing) + (IF tail = "line" THEN 0 ELSE 1) <= tears
    BY DEF RolloutInv, Budget
  <2>4. Cardinality(acked \ Readable) <= tears
    BY <2>2, <2>3
  <2>. QED
    BY <2>4 DEF AckedSurvives, Readable
<1>. QED
  BY <1>1, RolloutInvariant, PTL

=============================================================================
