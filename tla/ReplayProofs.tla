------------------------------ MODULE ReplayProofs ------------------------------
(***************************************************************************)
(* The rollout file gives the history back, proved for any number of       *)
(* items, turns, torn writes and restarts and any capacity of the channel. *)
(*                                                                         *)
(* The argument is about the stream of rollout items: those in the file,   *)
(* in the channel, and still to be sent by the task or by the submission   *)
(* loop, of which only one has something to send.  Its replay is the       *)
(* history at all times, ghost snapshots aside, since every change of the  *)
(* history appends one item to the stream and every other step moves items *)
(* along it or removes what replay skips.                                  *)
(*                                                                         *)
(* What replay does is recursive.  The first part proves the equations of  *)
(* the recursive definitions, by induction from the well-foundedness of    *)
(* the natural numbers.                                                    *)
(***************************************************************************)
EXTENDS RolloutProofs, WellFoundedInduction

AllItems == Items(Kinds)

\* The rollout items that replay can apply, and the commands that carry them.
RecSet ==
    [type : {"item", "replace"}, no : Nat, body : Seq(AllItems)]
    \cup [type : {"compact"}, no : Nat, body : [1..1 -> Items({"summary"})]]
    \cup [type : {"rollback"}, no : Nat, body : [1..1 -> Nat \ {0}]]
    \cup {Meta, Garbled}

Cmds ==
    [type : {"add"}, rec : RecSet, by : Actors] \cup [type : {"flush"}, rec : {Garbled}, by : Actors]

\* An item that changes nothing but ghost snapshots.
NoOp(r) ==
    \/ r.type \in {"meta", "garbled"}
    \/ r.type = "item" /\ NoGhosts(r.body) = <<>>

\* What history and stream consist of.
DataInv ==
    /\ history \in Seq(AllItems)
    /\ file \in Seq(RecSet)
    /\ queue \in Seq(Cmds)
    /\ \A a \in Actors : todo[a] \in Seq(Cmds)
    /\ \A i \in DOMAIN todo[Ghost] : NoOp(todo[Ghost][i].rec)

\* The task and the submission loop take turns.
TurnInv ==
    /\ ~up => task = "none" /\ event = "none"
    /\ task = "none" => Free(Task)
    /\ task # "none" => Free(Loop) /\ event = "none"
    /\ task = "compact" => Free(Task)
    /\ task = "ending" => \A i \in DOMAIN todo[Task] : todo[Task][i].type = "flush"

IsLoopFlush(c) == c.type = "flush" /\ c.by = Loop

\* What the loop sends ends with a flush, and it waits for the one in the channel.
LoopInv ==
    /\ todo[Loop] # <<>> => /\ ~awaiting[Loop]
                            /\ IsLoopFlush(todo[Loop][Len(todo[Loop])])
                            /\ \A i \in 1..(Len(todo[Loop]) - 1) : todo[Loop][i].type = "add"
    /\ \A i \in DOMAIN queue : IsLoopFlush(queue[i]) => awaiting[Loop]
    /\ \A i, j \in DOMAIN queue : IsLoopFlush(queue[i]) /\ IsLoopFlush(queue[j]) => i = j

\* Who sends a flush waits for it.
OwnInv ==
    \A a \in Actors : \A i \in DOMAIN todo[a] : todo[a][i].type = "flush" => todo[a][i].by = a

\* While an event is held back for a flush, nothing comes behind that flush, and
\* nothing is left in the channel once it is acknowledged.
EventInv ==
    event # "none" /\ writer = "up" =>
        /\ Free(Loop) => \A i \in DOMAIN queue : NoOp(queue[i].rec)
        /\ \A i, j \in DOMAIN queue : IsLoopFlush(queue[i]) /\ i < j => NoOp(queue[j].rec)

Recs(cmds) == [i \in 1..Len(cmds) |-> cmds[i].rec]
Stream     == ((file \o Recs(queue)) \o Recs(todo[Task])) \o Recs(todo[Loop])
View(recs) == NoGhosts(Reconstruct(recs))

\* The replay of the stream is the history; during a local compaction the history is
\* ahead by the model's answer.
Synced ==
    up /\ writer = "up" /\ lost = {} /\ ~cut =>
        IF task = "compact"
        THEN \E n \in 0..count : NoGhosts(history) = Append(View(Stream), Item("reply", n))
        ELSE NoGhosts(history) = View(Stream)

\* The inductive invariant, beside RolloutInv.
ReplayInv ==
    /\ DataInv
    /\ TurnInv
    /\ LoopInv
    /\ EventInv
    /\ Synced
----------------------------------------------------------------------------
(* Recursion                                                                *)

\* Induction over the natural numbers, for a set instead of a predicate.
LEMMA NatInduct ==
    ASSUME NEW S, 0 \in S, \A n \in Nat : n \in S => n + 1 \in S
    PROVE  \A n \in Nat : n \in S
<1>. SUFFICES ASSUME NEW k \in Nat, k \notin S PROVE FALSE
  OBVIOUS
<1>. DEFINE T == Nat \ S
<1>1. PICK m \in T : \A n \in T : ~(<<n, m>> \in OpToRel(<, Nat))
  <2>. HIDE DEF T
  <2>1. T \subseteq Nat /\ T # {}
    BY DEF T
  <2>. QED
    BY <2>1, NatLessThanWellFounded, WFMin, Zenon
<1>2. \A n \in T : ~(n < m)
  BY <1>1 DEF OpToRel
<1>3. m # 0 /\ m - 1 \in Nat /\ m - 1 < m
  OBVIOUS
<1>4. m - 1 \in S
  BY <1>2, <1>3
<1>. QED
  BY <1>3, <1>4

\* A sequence that is not empty is a shorter one with an element behind it.
LEMMA AppendSplit ==
    ASSUME NEW T, NEW n \in Nat, NEW s \in Seq(T), Len(s) = n + 1
    PROVE  \E t \in Seq(T), e \in T : s = Append(t, e) /\ Len(t) = n
<1>. DEFINE t == SubSeq(s, 1, n)
<1>1. \A i \in 1..(n + 1) : s[i] \in T
  BY ElementOfSeq
<1>2. t \in Seq(T) /\ Len(t) = n /\ \A i \in 1..n : t[i] = s[i]
  BY <1>1, SubSeqProperties
<1>. HIDE DEF t
<1>3. /\ Append(t, s[n + 1]) \in Seq(T) /\ Len(Append(t, s[n + 1])) = n + 1
      /\ \A i \in 1..(n + 1) : Append(t, s[n + 1])[i] = s[i]
  BY <1>1, <1>2, AppendProperties
<1>4. s = Append(t, s[n + 1])
  BY <1>3, SeqEqual
<1>. QED
  BY <1>1, <1>2, <1>4

\* One step of Only.
Sift(S, x, e) == IF e \in S THEN Append(x, e) ELSE x

\* The function behind Only exists.
LEMMA OnlyExists ==
    ASSUME NEW s, NEW S, NEW k \in Nat
    PROVE  \E f : f = [n \in 0..k |-> IF n = 0 THEN <<>> ELSE Sift(S, f[n - 1], s[n])]
<1>. DEFINE D(f, m) == f = [n \in 0..m |-> IF n = 0 THEN <<>> ELSE Sift(S, f[n - 1], s[n])]
            K == {m \in Nat : \E f : D(f, m)}
<1>1. 0 \in K
  <2>. DEFINE f == [n \in 0..0 |-> <<>>]
  <2>1. D(f, 0)
    OBVIOUS
  <2>. HIDE DEF f, D
  <2>. QED
    BY <2>1
<1>2. ASSUME NEW m \in Nat, m \in K PROVE m + 1 \in K
  <2>1. PICK f : D(f, m)
    BY <1>2
  <2>. DEFINE g == [n \in 0..(m + 1) |-> IF n = m + 1 THEN Sift(S, f[m], s[m + 1]) ELSE f[n]]
  <2>2. D(g, m + 1)
    <3>1. \A n \in 0..m : f[n] = IF n = 0 THEN <<>> ELSE Sift(S, f[n - 1], s[n])
      BY <2>1
    <3>2. \A n \in 0..m : g[n] = f[n]
      OBVIOUS
    <3>3. g[m + 1] = Sift(S, g[m], s[m + 1])
      OBVIOUS
    <3>4. \A n \in 0..(m + 1) : g[n] = IF n = 0 THEN <<>> ELSE Sift(S, g[n - 1], s[n])
      <4>. HIDE DEF g
      <4>. QED
        BY <3>1, <3>2, <3>3
    <3>. QED
      BY <3>4
  <2>. HIDE DEF D, g
  <2>. QED
    BY <2>2
<1>. HIDE DEF D
<1>3. \A m \in Nat : m \in K
  <2>. HIDE DEF K
  <2>. QED
    BY <1>1, <1>2, NatInduct
<1>4. \E f : D(f, k)
  BY <1>3
<1>. QED
  BY <1>4 DEF D

\* The equations of Only.
LEMMA OnlyFcn ==
    ASSUME NEW s, Len(s) \in Nat, NEW S
    PROVE  \E f : /\ Only(s, S) = f[Len(s)]
                  /\ f[0] = <<>>
                  /\ \A n \in 1..Len(s) : f[n] = Sift(S, f[n - 1], s[n])
<1>. DEFINE D(f) == f = [n \in 0..Len(s) |-> IF n = 0 THEN <<>> ELSE Sift(S, f[n - 1], s[n])]
            only == CHOOSE f : D(f)
<1>1. \E f : D(f)
  BY OnlyExists
<1>2. D(only)
  <2>. HIDE DEF D
  <2>. QED
    BY <1>1
<1>3. Only(s, S) = only[Len(s)]
  BY DEF Only, Sift
<1>. HIDE DEF only
<1>. QED
  BY <1>2, <1>3

\* Induction over sequences, for a set instead of a predicate.
LEMMA SeqInduct ==
    ASSUME NEW T, NEW P, <<>> \in P, \A s \in Seq(T), e \in T : s \in P => Append(s, e) \in P
    PROVE  \A s \in Seq(T) : s \in P
<1>. DEFINE K == {n \in Nat : \A s \in Seq(T) : Len(s) = n => s \in P}
<1>1. 0 \in K
  BY EmptySeq
<1>2. ASSUME NEW n \in Nat, n \in K PROVE n + 1 \in K
  <2>. SUFFICES ASSUME NEW s \in Seq(T), Len(s) = n + 1 PROVE s \in P
    OBVIOUS
  <2>1. PICK t \in Seq(T), e \in T : s = Append(t, e) /\ Len(t) = n
    BY AppendSplit
  <2>. QED
    BY <1>2, <2>1
<1>3. \A n \in Nat : n \in K
  <2>. HIDE DEF K
  <2>. QED
    BY <1>1, <1>2, NatInduct
<1>. QED
  BY <1>3, LenProperties

LEMMA OnlyEmpty == ASSUME NEW S PROVE Only(<<>>, S) = <<>>
<1>1. Len(<<>>) = 0
  BY EmptySeq
<1>. QED
  BY <1>1, OnlyFcn

LEMMA OnlyAppend ==
    ASSUME NEW T, NEW s \in Seq(T), NEW e \in T, NEW S
    PROVE  Only(Append(s, e), S) = Sift(S, Only(s, S), e)
<1>. DEFINE r == Append(s, e)
<1>1. /\ Len(s) \in Nat /\ Len(r) = Len(s) + 1 /\ Len(r) \in Nat
      /\ r[Len(s) + 1] = e /\ \A i \in 1..Len(s) : r[i] = s[i]
  BY LenProperties, AppendProperties
<1>. HIDE DEF r
<1>2. PICK f : /\ Only(s, S) = f[Len(s)] /\ f[0] = <<>>
               /\ \A n \in 1..Len(s) : f[n] = Sift(S, f[n - 1], s[n])
  BY <1>1, OnlyFcn
<1>3. PICK g : /\ Only(r, S) = g[Len(r)] /\ g[0] = <<>>
               /\ \A n \in 1..Len(r) : g[n] = Sift(S, g[n - 1], r[n])
  BY <1>1, OnlyFcn
<1>. DEFINE K == {n \in Nat : n <= Len(s) => f[n] = g[n]}
<1>4. 0 \in K
  BY <1>2, <1>3
<1>5. ASSUME NEW n \in Nat, n \in K PROVE n + 1 \in K
  <2>. SUFFICES ASSUME n + 1 <= Len(s) PROVE f[n + 1] = g[n + 1]
    OBVIOUS
  <2>1. n + 1 \in 1..Len(s) /\ n + 1 \in 1..(Len(s) + 1) /\ (n + 1) - 1 = n /\ f[n] = g[n]
    BY <1>1, <1>5
  <2>. QED
    BY <1>1, <1>2, <1>3, <2>1
<1>6. \A n \in Nat : n \in K
  <2>. HIDE DEF K
  <2>. QED
    BY <1>4, <1>5, NatInduct
<1>7. f[Len(s)] = g[Len(s)]
  BY <1>1, <1>6
<1>8. Len(s) + 1 \in 1..(Len(s) + 1) /\ (Len(s) + 1) - 1 = Len(s)
  BY <1>1
<1>. QED
  BY <1>1, <1>2, <1>3, <1>7, <1>8 DEF r

\* Only gives a sequence of the elements in S.
LEMMA OnlyType ==
    ASSUME NEW T, NEW S
    PROVE  \A s \in Seq(T) : Only(s, S) \in Seq(T \cap S)
<1>. DEFINE P == {s \in Seq(T) : Only(s, S) \in Seq(T \cap S)}
<1>1. <<>> \in P
  BY OnlyEmpty, EmptySeq
<1>2. ASSUME NEW s \in Seq(T), NEW e \in T, s \in P PROVE Append(s, e) \in P
  <2>1. Append(s, e) \in Seq(T) /\ Only(Append(s, e), S) = Sift(S, Only(s, S), e)
    BY OnlyAppend, AppendProperties
  <2>2. e \in S => Append(Only(s, S), e) \in Seq(T \cap S)
    BY <1>2, AppendProperties
  <2>. QED
    BY <1>2, <2>1, <2>2, Zenon DEF Sift
<1>. HIDE DEF P
<1>3. \A s \in Seq(T) : s \in P
  BY <1>1, <1>2, SeqInduct
<1>. QED
  BY <1>3 DEF P

\* What S and U agree on is all that matters.
LEMMA OnlySame ==
    ASSUME NEW T, NEW S, NEW U, \A e \in T : e \in S <=> e \in U
    PROVE  \A s \in Seq(T) : Only(s, S) = Only(s, U)
<1>. DEFINE P == {s \in Seq(T) : Only(s, S) = Only(s, U)}
<1>1. <<>> \in P
  BY OnlyEmpty, EmptySeq
<1>2. ASSUME NEW s \in Seq(T), NEW e \in T, s \in P PROVE Append(s, e) \in P
  <2>1. Append(s, e) \in Seq(T)
    BY AppendProperties
  <2>2. /\ Only(Append(s, e), S) = Sift(S, Only(s, S), e)
        /\ Only(Append(s, e), U) = Sift(U, Only(s, U), e)
    BY OnlyAppend
  <2>3. Only(Append(s, e), S) = Only(Append(s, e), U)
    <3>1. CASE e \in S
      BY <1>2, <2>2, <3>1 DEF Sift
    <3>2. CASE e \notin S
      BY <1>2, <2>2, <3>2 DEF Sift
    <3>. QED
      BY <3>1, <3>2
  <2>. QED
    BY <2>1, <2>3
<1>. HIDE DEF P
<1>3. \A s \in Seq(T) : s \in P
  BY <1>1, <1>2, SeqInduct
<1>. QED
  BY <1>3 DEF P

LEMMA OnlyOnly ==
    ASSUME NEW T, NEW S, NEW U
    PROVE  \A s \in Seq(T) : Only(Only(s, S), U) = Only(s, S \cap U)
<1>. DEFINE P == {s \in Seq(T) : Only(Only(s, S), U) = Only(s, S \cap U)}
<1>1. <<>> \in P
  BY OnlyEmpty, EmptySeq
<1>2. ASSUME NEW s \in Seq(T), NEW e \in T, s \in P PROVE Append(s, e) \in P
  <2>1. Append(s, e) \in Seq(T)
    BY AppendProperties
  <2>2. /\ Only(Append(s, e), S) = Sift(S, Only(s, S), e)
        /\ Only(Append(s, e), S \cap U) = Sift(S \cap U, Only(s, S \cap U), e)
    BY OnlyAppend
  <2>3. Only(s, S) \in Seq(T \cap S)
    BY OnlyType
  <2>4. e \in S => Only(Append(Only(s, S), e), U) = Sift(U, Only(Only(s, S), U), e)
    BY <2>3, OnlyAppend
  <2>5. Only(Only(Append(s, e), S), U) = Only(Append(s, e), S \cap U)
    <3>1. CASE e \in S
      <4>1. Only(Append(s, e), S) = Append(Only(s, S), e)
        BY <2>2, <3>1 DEF Sift
      <4>2. Sift(U, Only(Only(s, S), U), e) = Sift(S \cap U, Only(s, S \cap U), e)
        BY <1>2, <3>1 DEF Sift
      <4>. QED
        BY <2>2, <2>4, <3>1, <4>1, <4>2
    <3>2. CASE e \notin S
      BY <1>2, <2>2, <3>2, Zenon DEF Sift
    <3>. QED
      BY <3>1, <3>2
  <2>. QED
    BY <2>1, <2>5
<1>. HIDE DEF P
<1>3. \A s \in Seq(T) : s \in P
  BY <1>1, <1>2, SeqInduct
<1>. QED
  BY <1>3 DEF P

\* Appending to a concatenation.
LEMMA ConcatAppend ==
    ASSUME NEW T, NEW s \in Seq(T), NEW t \in Seq(T), NEW e \in T
    PROVE  s \o Append(t, e) = Append(s \o t, e)
<1>1. <<e>> \in Seq(T) /\ s \o t \in Seq(T)
  BY ConcatProperties
<1>2. Append(t, e) = t \o <<e>> /\ Append(s \o t, e) = (s \o t) \o <<e>>
  BY <1>1, AppendIsConcat
<1>. QED
  BY <1>1, <1>2, ConcatAssociative

LEMMA OnlyConcat ==
    ASSUME NEW T, NEW S, NEW s \in Seq(T)
    PROVE  \A t \in Seq(T) : Only(s \o t, S) = Only(s, S) \o Only(t, S)
<1>. DEFINE P == {t \in Seq(T) : Only(s \o t, S) = Only(s, S) \o Only(t, S)}
<1>0. Only(s, S) \in Seq(T \cap S)
  BY OnlyType
<1>1. <<>> \in P
  BY <1>0, OnlyEmpty, EmptySeq, ConcatEmptySeq
<1>2. ASSUME NEW t \in Seq(T), NEW e \in T, t \in P PROVE Append(t, e) \in P
  <2>1. Append(t, e) \in Seq(T) /\ s \o t \in Seq(T) /\ s \o Append(t, e) = Append(s \o t, e)
    BY AppendProperties, ConcatProperties, ConcatAppend
  <2>2. /\ Only(Append(t, e), S) = Sift(S, Only(t, S), e)
        /\ Only(Append(s \o t, e), S) = Sift(S, Only(s \o t, S), e)
    BY <2>1, OnlyAppend
  <2>3. Only(t, S) \in Seq(T \cap S)
    BY OnlyType
  <2>4. e \in S => Only(s, S) \o Append(Only(t, S), e) = Append(Only(s, S) \o Only(t, S), e)
    BY <1>0, <2>3, ConcatAppend
  <2>. QED
    BY <1>2, <2>1, <2>2, <2>4, Zenon DEF Sift
<1>. HIDE DEF P
<1>3. \A t \in Seq(T) : t \in P
  BY <1>1, <1>2, SeqInduct
<1>. QED
  BY <1>3 DEF P

\* The function behind Reconstruct exists.
LEMMA ReconstructExists ==
    ASSUME NEW s, NEW k \in Nat
    PROVE  \E f : f = [n \in 0..k |-> IF n = 0 THEN <<>> ELSE Apply(f[n - 1], s[n])]
<1>. DEFINE D(f, m) == f = [n \in 0..m |-> IF n = 0 THEN <<>> ELSE Apply(f[n - 1], s[n])]
            K == {m \in Nat : \E f : D(f, m)}
<1>1. 0 \in K
  <2>. DEFINE f == [n \in 0..0 |-> <<>>]
  <2>1. D(f, 0)
    OBVIOUS
  <2>. HIDE DEF f, D
  <2>. QED
    BY <2>1
<1>2. ASSUME NEW m \in Nat, m \in K PROVE m + 1 \in K
  <2>1. PICK f : D(f, m)
    BY <1>2
  <2>. DEFINE g == [n \in 0..(m + 1) |-> IF n = m + 1 THEN Apply(f[m], s[m + 1]) ELSE f[n]]
  <2>2. D(g, m + 1)
    <3>1. \A n \in 0..m : f[n] = IF n = 0 THEN <<>> ELSE Apply(f[n - 1], s[n])
      BY <2>1
    <3>2. \A n \in 0..m : g[n] = f[n]
      OBVIOUS
    <3>3. g[m + 1] = Apply(g[m], s[m + 1])
      OBVIOUS
    <3>4. \A n \in 0..(m + 1) : g[n] = IF n = 0 THEN <<>> ELSE Apply(g[n - 1], s[n])
      <4>. HIDE DEF g
      <4>. QED
        BY <3>1, <3>2, <3>3
    <3>. QED
      BY <3>4
  <2>. HIDE DEF D, g
  <2>. QED
    BY <2>2
<1>. HIDE DEF D
<1>3. \A m \in Nat : m \in K
  <2>. HIDE DEF K
  <2>. QED
    BY <1>1, <1>2, NatInduct
<1>4. \E f : D(f, k)
  BY <1>3
<1>. QED
  BY <1>4 DEF D

\* The equations of Reconstruct.
LEMMA ReconstructFcn ==
    ASSUME NEW s, Len(s) \in Nat
    PROVE  \E f : /\ Reconstruct(s) = f[Len(s)]
                  /\ f[0] = <<>>
                  /\ \A n \in 1..Len(s) : f[n] = Apply(f[n - 1], s[n])
<1>. DEFINE D(f) == f = [n \in 0..Len(s) |-> IF n = 0 THEN <<>> ELSE Apply(f[n - 1], s[n])]
            replay == CHOOSE f : D(f)
<1>1. \E f : D(f)
  BY ReconstructExists
<1>2. D(replay)
  <2>. HIDE DEF D
  <2>. QED
    BY <1>1
<1>3. Reconstruct(s) = replay[Len(s)]
  BY DEF Reconstruct
<1>. HIDE DEF replay
<1>. QED
  BY <1>2, <1>3

LEMMA ReconstructEmpty == Reconstruct(<<>>) = <<>>
<1>1. Len(<<>>) = 0
  BY EmptySeq
<1>. QED
  BY <1>1, ReconstructFcn

\* Replay applies one item after the other.
LEMMA ReconstructAppend ==
    ASSUME NEW T, NEW s \in Seq(T), NEW e \in T
    PROVE  Reconstruct(Append(s, e)) = Apply(Reconstruct(s), e)
<1>. DEFINE r == Append(s, e)
<1>1. /\ Len(s) \in Nat /\ Len(r) = Len(s) + 1 /\ Len(r) \in Nat
      /\ r[Len(s) + 1] = e /\ \A i \in 1..Len(s) : r[i] = s[i]
  BY LenProperties, AppendProperties
<1>. HIDE DEF r
<1>2. PICK f : /\ Reconstruct(s) = f[Len(s)] /\ f[0] = <<>>
               /\ \A n \in 1..Len(s) : f[n] = Apply(f[n - 1], s[n])
  BY <1>1, ReconstructFcn
<1>3. PICK g : /\ Reconstruct(r) = g[Len(r)] /\ g[0] = <<>>
               /\ \A n \in 1..Len(r) : g[n] = Apply(g[n - 1], r[n])
  BY <1>1, ReconstructFcn
<1>. DEFINE K == {n \in Nat : n <= Len(s) => f[n] = g[n]}
<1>4. 0 \in K
  BY <1>2, <1>3
<1>5. ASSUME NEW n \in Nat, n \in K PROVE n + 1 \in K
  <2>. SUFFICES ASSUME n + 1 <= Len(s) PROVE f[n + 1] = g[n + 1]
    OBVIOUS
  <2>1. n + 1 \in 1..Len(s) /\ n + 1 \in 1..(Len(s) + 1) /\ (n + 1) - 1 = n /\ f[n] = g[n]
    BY <1>1, <1>5
  <2>. QED
    BY <1>1, <1>2, <1>3, <2>1
<1>6. \A n \in Nat : n \in K
  <2>. HIDE DEF K
  <2>. QED
    BY <1>4, <1>5, NatInduct
<1>7. f[Len(s)] = g[Len(s)]
  BY <1>1, <1>6
<1>8. Len(s) + 1 \in 1..(Len(s) + 1) /\ (Len(s) + 1) - 1 = Len(s)
  BY <1>1
<1>. QED
  BY <1>1, <1>2, <1>3, <1>7, <1>8 DEF r

----------------------------------------------------------------------------
(* Rollback                                                                 *)

IsUserTurn(e) == e.kind \in {"user", "summary"}

\* Where a rollback of n turns cuts, and where the code looks for it.
From(P, i) == {j \in P : i <= j}

IsCut(P, n, c) ==
    /\ c \in P
    /\ IF n >= Cardinality(P) THEN \A j \in P : c <= j
       ELSE Cardinality(From(P, c)) = n

CutAt(P, n) ==
    LET first == CHOOSE i \in P : \A j \in P : i <= j
        nth   == CHOOSE i \in P : Cardinality({j \in P : i <= j}) = n
    IN (IF n >= Cardinality(P) THEN first ELSE nth) - 1

LEMMA DropIsCut ==
    ASSUME NEW h, NEW n
    PROVE  DropLastUserTurns(h, n) =
               IF UserTurns(h) = {} THEN h ELSE SubSeq(h, 1, CutAt(UserTurns(h), n))
BY DEF DropLastUserTurns, CutAt

LEMMA CutUnique ==
    ASSUME NEW P, P \subseteq Nat, IsFiniteSet(P), NEW n, NEW c, NEW d,
           IsCut(P, n, c), IsCut(P, n, d)
    PROVE  c = d
<1>1. ASSUME NEW x \in P, NEW y \in P, x < y,
             Cardinality({j \in P : x <= j}) = Cardinality({j \in P : y <= j})
      PROVE  FALSE
  <2>. DEFINE X == {j \in P : x <= j}
              Y == {j \in P : y <= j}
  <2>1. IsFiniteSet(X) /\ Y \subseteq X /\ x \in X /\ x \notin Y
    <3>1. X \subseteq P
      OBVIOUS
    <3>2. IsFiniteSet(X)
      BY <3>1, FS_Subset
    <3>3. x \in Nat /\ y \in Nat /\ \A j \in P : j \in Nat
      OBVIOUS
    <3>4. \A j \in P : y <= j => x <= j
      BY <1>1, <3>3
    <3>5. x <= x /\ ~(y <= x)
      BY <1>1, <3>3
    <3>. QED
      BY <3>2, <3>4, <3>5
  <2>. HIDE DEF X, Y
  <2>2. Cardinality(X) = Cardinality(Y) => X = Y
    BY <2>1, FS_Subset
  <2>. QED
    BY <1>1, <2>1, <2>2 DEF X, Y
<1>2. CASE n >= Cardinality(P)
  <2>1. c \in Nat /\ d \in Nat /\ c <= d /\ d <= c
    BY <1>2 DEF IsCut
  <2>. QED
    BY <2>1
<1>3. CASE ~(n >= Cardinality(P))
  <2>1. /\ c \in P /\ d \in P
        /\ Cardinality({j \in P : c <= j}) = n /\ Cardinality({j \in P : d <= j}) = n
    BY <1>3 DEF IsCut, From
  <2>2. ~(c < d) /\ ~(d < c)
    BY <1>1, <2>1
  <2>. QED
    BY <2>1, <2>2
<1>. QED
  BY <1>2, <1>3

LEMMA CutIs ==
    ASSUME NEW P, P \subseteq Nat, IsFiniteSet(P), NEW n, NEW c, IsCut(P, n, c)
    PROVE  CutAt(P, n) = c - 1
<1>1. CASE n >= Cardinality(P)
  <2>. DEFINE first == CHOOSE i \in P : \A j \in P : i <= j
  <2>1. c \in P /\ \A j \in P : c <= j
    BY <1>1 DEF IsCut
  <2>2. first \in P /\ \A j \in P : first <= j
    BY <2>1
  <2>3. CutAt(P, n) = first - 1
    BY <1>1 DEF CutAt
  <2>. HIDE DEF first
  <2>4. IsCut(P, n, first)
    BY <1>1, <2>2 DEF IsCut
  <2>. QED
    BY <2>3, <2>4, CutUnique
<1>2. CASE ~(n >= Cardinality(P))
  <2>. DEFINE nth == CHOOSE i \in P : Cardinality({j \in P : i <= j}) = n
  <2>1. c \in P /\ Cardinality({j \in P : c <= j}) = n
    BY <1>2 DEF IsCut, From
  <2>2. nth \in P /\ Cardinality({j \in P : nth <= j}) = n
    BY <2>1
  <2>3. CutAt(P, n) = nth - 1
    BY <1>2 DEF CutAt
  <2>. HIDE DEF nth
  <2>4. IsCut(P, n, nth)
    BY <1>2, <2>2 DEF IsCut, From
  <2>. QED
    BY <2>3, <2>4, CutUnique
<1>. QED
  BY <1>1, <1>2

LEMMA UserTurnsType ==
    ASSUME NEW h \in Seq(AllItems)
    PROVE  UserTurns(h) \subseteq 1..Len(h) /\ UserTurns(h) \subseteq Nat /\ IsFiniteSet(UserTurns(h))
           /\ Len(h) \in Nat
<1>1. Len(h) \in Nat /\ DOMAIN h = 1..Len(h)
  BY LenProperties
<1>2. UserTurns(h) \subseteq 1..Len(h)
  BY <1>1 DEF UserTurns
<1>3. IsFiniteSet(1..Len(h))
  BY <1>1, FS_Interval
<1>4. IsFiniteSet(UserTurns(h))
  BY <1>2, <1>3, FS_Subset
<1>. QED
  BY <1>1, <1>2, <1>4

LEMMA UserTurnsAppend ==
    ASSUME NEW h \in Seq(AllItems), NEW e \in AllItems
    PROVE  UserTurns(Append(h, e)) =
               IF IsUserTurn(e) THEN UserTurns(h) \cup {Len(h) + 1} ELSE UserTurns(h)
<1>. DEFINE g == Append(h, e)
<1>1. Len(h) \in Nat /\ DOMAIN h = 1..Len(h)
  BY LenProperties
<1>2. g \in Seq(AllItems) /\ Len(g) = Len(h) + 1 /\ g[Len(h) + 1] = e
      /\ \A i \in 1..Len(h) : g[i] = h[i]
  BY AppendProperties
<1>3. DOMAIN g = 1..(Len(h) + 1)
  BY <1>2, LenProperties
<1>. HIDE DEF g
<1>4. DOMAIN g = DOMAIN h \cup {Len(h) + 1} /\ Len(h) + 1 \notin DOMAIN h
  BY <1>1, <1>3
<1>5. \A i \in DOMAIN h : g[i].kind = h[i].kind
  BY <1>1, <1>2
<1>6. UserTurns(g) = {i \in DOMAIN h : h[i].kind \in {"user", "summary"}}
                       \cup (IF IsUserTurn(e) THEN {Len(h) + 1} ELSE {})
  BY <1>2, <1>4, <1>5 DEF UserTurns, IsUserTurn
<1>. QED
  BY <1>6 DEF g, UserTurns

LEMMA UserTurnsEmpty == UserTurns(<<>>) = {}
BY EmptySeq DEF UserTurns

\* The turns from i on, after another item.
LEMMA FromAppend ==
    ASSUME NEW P, NEW l \in Nat, P \subseteq 1..l, IsFiniteSet(P), NEW i \in P
    PROVE  /\ Cardinality(From(P, i)) \in Nat
           /\ Cardinality(From(P \cup {l + 1}, i)) = Cardinality(From(P, i)) + 1
<1>. DEFINE X == From(P, i)
<1>1. X \subseteq P
  BY DEF From
<1>2. IsFiniteSet(X) /\ Cardinality(X) \in Nat
  <2>. HIDE DEF X
  <2>. QED
    BY <1>1, FS_Subset, FS_CardinalityType
<1>3. From(P \cup {l + 1}, i) = X \cup {l + 1} /\ l + 1 \notin X
  BY DEF From
<1>4. Cardinality(X \cup {l + 1}) = Cardinality(X) + 1
  <2>. HIDE DEF X
  <2>. QED
    BY <1>2, <1>3, FS_AddElement
<1>. QED
  BY <1>2, <1>3, <1>4

\* After another turn the cut for one turn more is the same.
LEMMA CutMoves ==
    ASSUME NEW P, NEW l \in Nat, P \subseteq 1..l, IsFiniteSet(P), P # {},
           NEW n \in Nat \ {0}, NEW c, IsCut(P, n, c)
    PROVE  IsCut(P \cup {l + 1}, n + 1, c)
<1>1. Cardinality(P) \in Nat /\ Cardinality(P \cup {l + 1}) = Cardinality(P) + 1
  <2>1. l + 1 \notin P
    OBVIOUS
  <2>. QED
    BY <2>1, FS_AddElement, FS_CardinalityType
<1>2. c \in P /\ c \in 1..l
  BY DEF IsCut
<1>3. CASE n >= Cardinality(P)
  <2>1. \A j \in P : c <= j
    BY <1>3 DEF IsCut
  <2>2. \A j \in P \cup {l + 1} : c <= j
    BY <1>2, <2>1
  <2>3. n + 1 >= Cardinality(P \cup {l + 1})
    BY <1>1, <1>3
  <2>. QED
    BY <1>2, <2>2, <2>3 DEF IsCut
<1>4. CASE ~(n >= Cardinality(P))
  <2>1. Cardinality(From(P, c)) = n
    BY <1>4 DEF IsCut
  <2>2. Cardinality(From(P \cup {l + 1}, c)) = n + 1
    BY <1>2, <2>1, FromAppend
  <2>3. ~(n + 1 >= Cardinality(P \cup {l + 1}))
    BY <1>1, <1>4
  <2>. QED
    BY <1>2, <2>2, <2>3 DEF IsCut
<1>. QED
  BY <1>3, <1>4

\* The last turn, or the only one, is cut off as a whole.
LEMMA CutLast ==
    ASSUME NEW P, NEW l \in Nat, P \subseteq 1..l, IsFiniteSet(P),
           NEW n \in Nat \ {0}, n = 1 \/ P = {}
    PROVE  IsCut(P \cup {l + 1}, n, l + 1)
<1>1. Cardinality(P) \in Nat /\ Cardinality(P \cup {l + 1}) = Cardinality(P) + 1
  <2>1. l + 1 \notin P
    OBVIOUS
  <2>. QED
    BY <2>1, FS_AddElement, FS_CardinalityType
<1>2. P = {} <=> Cardinality(P) = 0
  BY FS_EmptySet
<1>3. From(P \cup {l + 1}, l + 1) = {l + 1}
  <2>1. \A j \in P : ~(l + 1 <= j)
    OBVIOUS
  <2>2. l + 1 <= l + 1
    OBVIOUS
  <2>. QED
    BY <2>1, <2>2 DEF From
<1>4. Cardinality(From(P \cup {l + 1}, l + 1)) = 1
  BY <1>3, FS_Singleton
<1>5. CASE P = {}
  <2>1. Cardinality(P \cup {l + 1}) = 1 /\ n >= 1
    BY <1>1, <1>2, <1>5
  <2>2. \A j \in P \cup {l + 1} : l + 1 <= j
    BY <1>5
  <2>. QED
    BY <2>1, <2>2 DEF IsCut
<1>6. CASE P # {} /\ n = 1
  <2>0. Cardinality(P) # 0
    BY <1>2, <1>6
  <2>1. ~(n >= Cardinality(P \cup {l + 1}))
    BY <1>1, <1>6, <2>0
  <2>. QED
    BY <1>4, <1>6, <2>1 DEF IsCut
<1>. QED
  BY <1>5, <1>6

\* There is always a cut.
LEMMA CutExists ==
    \A h \in Seq(AllItems) : UserTurns(h) # {} =>
        \A n \in Nat \ {0} : \E c : IsCut(UserTurns(h), n, c)
<1>. DEFINE C(h) == UserTurns(h) # {} => \A n \in Nat \ {0} : \E c : IsCut(UserTurns(h), n, c)
            P == {h \in Seq(AllItems) : C(h)}
<1>1. <<>> \in P
  BY UserTurnsEmpty, EmptySeq
<1>2. ASSUME NEW h \in Seq(AllItems), NEW e \in AllItems, h \in P PROVE Append(h, e) \in P
  <2>1. Append(h, e) \in Seq(AllItems)
    BY AppendProperties
  <2>2. CASE ~IsUserTurn(e)
    BY <1>2, <2>1, <2>2, UserTurnsAppend
  <2>3. CASE IsUserTurn(e)
    <3>. DEFINE Q == UserTurns(h)
    <3>1. UserTurns(Append(h, e)) = Q \cup {Len(h) + 1}
      BY <2>3, UserTurnsAppend
    <3>2. Q \subseteq 1..Len(h) /\ IsFiniteSet(Q) /\ Len(h) \in Nat
      BY UserTurnsType
    <3>. HIDE DEF Q
    <3>3. ASSUME NEW n \in Nat \ {0} PROVE \E c : IsCut(Q \cup {Len(h) + 1}, n, c)
      <4>1. CASE n = 1 \/ Q = {}
        BY <3>2, <4>1, CutLast
      <4>2. CASE n # 1 /\ Q # {}
        <5>1. n - 1 \in Nat \ {0} /\ (n - 1) + 1 = n
          BY <4>2
        <5>2. PICK c : IsCut(Q, n - 1, c)
          BY <1>2, <4>2, <5>1 DEF Q
        <5>3. IsCut(Q \cup {Len(h) + 1}, (n - 1) + 1, c)
          BY <3>2, <4>2, <5>1, <5>2, CutMoves
        <5>. QED
          BY <5>1, <5>3
      <4>. QED
        BY <4>1, <4>2
    <3>4. C(Append(h, e))
      BY <3>1, <3>3
    <3>. HIDE DEF C
    <3>. QED
      BY <2>1, <3>4
  <2>. QED
    BY <2>2, <2>3
<1>. HIDE DEF P
<1>3. \A h \in Seq(AllItems) : h \in P
  BY <1>1, <1>2, SeqInduct
<1>. QED
  BY <1>3 DEF P

LEMMA SubSeqOfAppend ==
    ASSUME NEW T, NEW g \in Seq(T), NEW e \in T, NEW k \in 0..Len(g)
    PROVE  /\ SubSeq(Append(g, e), 1, k) = SubSeq(g, 1, k)
           /\ SubSeq(g, 1, k) \in Seq(T)
           /\ k = Len(g) => SubSeq(g, 1, k) = g
<1>. DEFINE h == Append(g, e)
<1>1. Len(g) \in Nat /\ \A i \in 1..Len(g) : g[i] \in T
  BY LenProperties, ElementOfSeq
<1>2. h \in Seq(T) /\ Len(h) = Len(g) + 1 /\ \A i \in 1..Len(g) : h[i] = g[i]
  BY <1>1, AppendProperties
<1>. HIDE DEF h
<1>3. \A i \in 1..Len(h) : h[i] \in T
  BY <1>2, ElementOfSeq
<1>. DEFINE s == SubSeq(g, 1, k)
            t == SubSeq(h, 1, k)
<1>4. s \in Seq(T) /\ Len(s) = k /\ \A i \in 1..k : s[i] = g[i]
  BY <1>1, SubSeqProperties
<1>5. t \in Seq(T) /\ Len(t) = k /\ \A i \in 1..k : t[i] = h[i]
  BY <1>1, <1>2, <1>3, SubSeqProperties
<1>. HIDE DEF s, t
<1>6. s = t
  BY <1>1, <1>2, <1>4, <1>5, SeqEqual
<1>7. k = Len(g) => s = g
  BY <1>1, <1>4, SeqEqual
<1>. QED
  BY <1>4, <1>6, <1>7 DEF s, t, h

\* What a rollback leaves of a history with another item at its end.
LEMMA DropNone ==
    ASSUME NEW h \in Seq(AllItems), NEW n \in Nat \ {0}, UserTurns(h) = {}
    PROVE  DropLastUserTurns(h, n) = h
BY DropIsCut

LEMMA DropAtCut ==
    ASSUME NEW h \in Seq(AllItems), NEW n \in Nat \ {0}, NEW c, IsCut(UserTurns(h), n, c)
    PROVE  DropLastUserTurns(h, n) = SubSeq(h, 1, c - 1) /\ c \in UserTurns(h)
<1>1. c \in UserTurns(h)
  BY DEF IsCut
<1>2. CutAt(UserTurns(h), n) = c - 1
  BY UserTurnsType, CutIs
<1>. QED
  BY <1>1, <1>2, DropIsCut

LEMMA DropAppendOther ==
    ASSUME NEW g \in Seq(AllItems), NEW e \in AllItems, NEW n \in Nat \ {0},
           ~IsUserTurn(e), UserTurns(g) # {}
    PROVE  DropLastUserTurns(Append(g, e), n) = DropLastUserTurns(g, n)
<1>1. UserTurns(Append(g, e)) = UserTurns(g) /\ Append(g, e) \in Seq(AllItems)
  BY UserTurnsAppend, AppendProperties
<1>2. PICK c : IsCut(UserTurns(g), n, c)
  BY CutExists
<1>3. /\ DropLastUserTurns(g, n) = SubSeq(g, 1, c - 1) /\ c \in UserTurns(g)
      /\ DropLastUserTurns(Append(g, e), n) = SubSeq(Append(g, e), 1, c - 1)
  BY <1>1, <1>2, DropAtCut
<1>4. c - 1 \in 0..Len(g)
  BY <1>3, UserTurnsType
<1>. QED
  BY <1>3, <1>4, SubSeqOfAppend

LEMMA DropAppendLast ==
    ASSUME NEW g \in Seq(AllItems), NEW e \in AllItems, NEW n \in Nat \ {0},
           IsUserTurn(e), n = 1 \/ UserTurns(g) = {}
    PROVE  DropLastUserTurns(Append(g, e), n) = g
<1>1. /\ UserTurns(Append(g, e)) = UserTurns(g) \cup {Len(g) + 1}
      /\ Append(g, e) \in Seq(AllItems)
  BY UserTurnsAppend, AppendProperties
<1>2. IsCut(UserTurns(Append(g, e)), n, Len(g) + 1)
  BY <1>1, UserTurnsType, CutLast
<1>3. Len(g) \in Nat /\ (Len(g) + 1) - 1 = Len(g) /\ Len(g) \in 0..Len(g)
  BY LenProperties
<1>4. DropLastUserTurns(Append(g, e), n) = SubSeq(Append(g, e), 1, (Len(g) + 1) - 1)
  BY <1>1, <1>2, DropAtCut
<1>. QED
  BY <1>3, <1>4, SubSeqOfAppend

LEMMA DropAppendTurn ==
    ASSUME NEW g \in Seq(AllItems), NEW e \in AllItems, NEW n \in Nat \ {0},
           IsUserTurn(e), n # 1, UserTurns(g) # {}
    PROVE  DropLastUserTurns(Append(g, e), n) = DropLastUserTurns(g, n - 1)
<1>1. /\ UserTurns(Append(g, e)) = UserTurns(g) \cup {Len(g) + 1}
      /\ Append(g, e) \in Seq(AllItems)
  BY UserTurnsAppend, AppendProperties
<1>2. n - 1 \in Nat \ {0} /\ (n - 1) + 1 = n
  OBVIOUS
<1>3. PICK c : IsCut(UserTurns(g), n - 1, c)
  BY <1>2, CutExists
<1>4. IsCut(UserTurns(g) \cup {Len(g) + 1}, (n - 1) + 1, c)
  BY <1>2, <1>3, UserTurnsType, CutMoves
<1>5. IsCut(UserTurns(Append(g, e)), n, c)
  BY <1>1, <1>2, <1>4
<1>6. DropLastUserTurns(g, n - 1) = SubSeq(g, 1, c - 1) /\ c \in UserTurns(g)
  BY <1>2, <1>3, DropAtCut
<1>7. DropLastUserTurns(Append(g, e), n) = SubSeq(Append(g, e), 1, c - 1)
  BY <1>1, <1>5, DropAtCut
<1>8. c - 1 \in 0..Len(g)
  BY <1>6, UserTurnsType
<1>. QED
  BY <1>6, <1>7, <1>8, SubSeqOfAppend

LEMMA DropType ==
    ASSUME NEW h \in Seq(AllItems), NEW n \in Nat \ {0}
    PROVE  DropLastUserTurns(h, n) \in Seq(AllItems)
<1>1. CASE UserTurns(h) = {}
  BY <1>1, DropNone
<1>2. CASE UserTurns(h) # {}
  <2>1. PICK c : IsCut(UserTurns(h), n, c)
    BY <1>2, CutExists
  <2>2. DropLastUserTurns(h, n) = SubSeq(h, 1, c - 1) /\ c \in UserTurns(h)
    BY <2>1, DropAtCut
  <2>3. c - 1 \in 0..Len(h)
    BY <2>2, UserTurnsType
  <2>4. h # <<>>
    BY <1>2, UserTurnsEmpty
  <2>5. \A e \in AllItems : SubSeq(h, 1, c - 1) \in Seq(AllItems)
    BY <2>3, SubSeqOfAppend
  <2>6. h[c] \in AllItems
    BY <2>2, UserTurnsType, ElementOfSeq
  <2>. QED
    BY <2>2, <2>5, <2>6
<1>. QED
  BY <1>1, <1>2

----------------------------------------------------------------------------
(* Histories without their ghost snapshots                                  *)

LEMMA KindOf ==
    /\ \A e \in AllItems : e.kind \in Kinds
    /\ \A K : K \subseteq Kinds => \A e \in AllItems : e \in Items(K) <=> e.kind \in K
    /\ \A K : K \subseteq Kinds => Items(K) \subseteq AllItems
BY DEF AllItems, Items

LEMMA NoGhostsType ==
    ASSUME NEW h \in Seq(AllItems)
    PROVE  NoGhosts(h) \in Seq(AllItems)
<1>. DEFINE N == Items(Kinds \ {"ghost"})
<1>1. Only(h, N) \in Seq(AllItems \cap N)
  BY OnlyType
<1>2. AllItems \cap N \subseteq AllItems
  OBVIOUS
<1>. HIDE DEF N
<1>3. Only(h, N) \in Seq(AllItems)
  BY <1>1, <1>2, SeqMonotonic
<1>. QED
  BY <1>3 DEF NoGhosts, N

LEMMA NoGhostsEmpty == NoGhosts(<<>>) = <<>>
BY OnlyEmpty DEF NoGhosts

LEMMA NoGhostsAppend ==
    ASSUME NEW h \in Seq(AllItems), NEW e \in AllItems
    PROVE  /\ e.kind = "ghost" => NoGhosts(Append(h, e)) = NoGhosts(h)
           /\ e.kind # "ghost" => NoGhosts(Append(h, e)) = Append(NoGhosts(h), e)
<1>. DEFINE N == Items(Kinds \ {"ghost"})
<1>1. e \in N <=> e.kind # "ghost"
  BY KindOf
<1>. HIDE DEF N
<1>2. Only(Append(h, e), N) = Sift(N, Only(h, N), e)
  BY OnlyAppend
<1>. QED
  BY <1>1, <1>2, Zenon DEF NoGhosts, N, Sift

LEMMA NoGhostsConcat ==
    ASSUME NEW g \in Seq(AllItems), NEW h \in Seq(AllItems)
    PROVE  NoGhosts(g \o h) = NoGhosts(g) \o NoGhosts(h)
BY OnlyConcat DEF NoGhosts

LEMMA NoGhostsTwice ==
    ASSUME NEW h \in Seq(AllItems)
    PROVE  NoGhosts(NoGhosts(h)) = NoGhosts(h)
<1>. DEFINE N == Items(Kinds \ {"ghost"})
<1>. HIDE DEF N
<1>1. Only(Only(h, N), N) = Only(h, N \cap N)
  BY OnlyOnly
<1>2. N \cap N = N
  OBVIOUS
<1>. QED
  BY <1>1, <1>2 DEF NoGhosts, N

\* A rollback cuts the history and its view without snapshots at the same turn.
LEMMA DropNoGhosts ==
    \A h \in Seq(AllItems) :
        /\ UserTurns(NoGhosts(h)) = {} <=> UserTurns(h) = {}
        /\ \A n \in Nat \ {0} :
              NoGhosts(DropLastUserTurns(h, n)) = DropLastUserTurns(NoGhosts(h), n)
<1>. DEFINE E(h) == UserTurns(NoGhosts(h)) = {} <=> UserTurns(h) = {}
            D(h) == \A n \in Nat \ {0} :
                        NoGhosts(DropLastUserTurns(h, n)) = DropLastUserTurns(NoGhosts(h), n)
            P == {h \in Seq(AllItems) : E(h) /\ D(h)}
<1>1. <<>> \in P
  <2>1. <<>> \in Seq(AllItems)
    BY EmptySeq
  <2>2. E(<<>>)
    BY NoGhostsEmpty
  <2>3. D(<<>>)
    BY <2>1, NoGhostsEmpty, UserTurnsEmpty, DropNone
  <2>. QED
    BY <2>1, <2>2, <2>3
<1>2. ASSUME NEW g \in Seq(AllItems), NEW e \in AllItems, g \in P PROVE Append(g, e) \in P
  <2>. DEFINE h == Append(g, e)
              k == NoGhosts(g)
  <2>0. E(g) /\ D(g)
    BY <1>2
  <2>1. h \in Seq(AllItems) /\ k \in Seq(AllItems)
    BY AppendProperties, NoGhostsType
  <2>2. E(h) /\ D(h)
    <3>1. CASE e.kind = "ghost"
      <4>1. ~IsUserTurn(e) /\ NoGhosts(h) = k
        BY <3>1, NoGhostsAppend DEF IsUserTurn
      <4>2. UserTurns(h) = UserTurns(g)
        BY <4>1, UserTurnsAppend
      <4>3. E(h)
        BY <2>0, <4>1, <4>2
      <4>4. ASSUME NEW n \in Nat \ {0}
            PROVE  NoGhosts(DropLastUserTurns(h, n)) = DropLastUserTurns(NoGhosts(h), n)
        <5>0. NoGhosts(DropLastUserTurns(g, n)) = DropLastUserTurns(k, n)
          BY <2>0
        <5>1. CASE UserTurns(g) = {}
          <6>1. DropLastUserTurns(h, n) = h /\ DropLastUserTurns(g, n) = g
            BY <2>1, <4>2, <5>1, DropNone
          <6>. QED
            BY <4>1, <5>0, <6>1
        <5>2. CASE UserTurns(g) # {}
          <6>1. DropLastUserTurns(h, n) = DropLastUserTurns(g, n)
            BY <4>1, <5>2, DropAppendOther
          <6>. QED
            BY <4>1, <5>0, <6>1
        <5>. QED
          BY <5>1, <5>2
      <4>. QED
        BY <4>3, <4>4
    <3>2. CASE e.kind # "ghost"
      <4>1. NoGhosts(h) = Append(k, e)
        BY <3>2, NoGhostsAppend
      <4>2. /\ UserTurns(h) = IF IsUserTurn(e) THEN UserTurns(g) \cup {Len(g) + 1}
                                               ELSE UserTurns(g)
            /\ UserTurns(Append(k, e)) = IF IsUserTurn(e) THEN UserTurns(k) \cup {Len(k) + 1}
                                                          ELSE UserTurns(k)
        BY <2>1, UserTurnsAppend
      <4>3. E(h)
        <5>. HIDE DEF h, k
        <5>1. UserTurns(k) = {} <=> UserTurns(g) = {}
          BY <2>0 DEF k
        <5>. QED
          BY <4>1, <4>2, <5>1
      <4>4. ASSUME NEW n \in Nat \ {0}
            PROVE  NoGhosts(DropLastUserTurns(h, n)) = DropLastUserTurns(Append(k, e), n)
        <5>0. /\ NoGhosts(DropLastUserTurns(g, n)) = DropLastUserTurns(k, n)
              /\ UserTurns(k) = {} <=> UserTurns(g) = {}
          BY <2>0
        <5>1. CASE IsUserTurn(e) /\ (n = 1 \/ UserTurns(g) = {})
          <6>1. DropLastUserTurns(h, n) = g
            BY <5>1, DropAppendLast
          <6>2. DropLastUserTurns(Append(k, e), n) = k
            BY <2>1, <5>0, <5>1, DropAppendLast
          <6>. QED
            BY <6>1, <6>2
        <5>2. CASE IsUserTurn(e) /\ n # 1 /\ UserTurns(g) # {}
          <6>0. n - 1 \in Nat \ {0}
            BY <5>2
          <6>1. DropLastUserTurns(h, n) = DropLastUserTurns(g, n - 1)
            BY <5>2, DropAppendTurn
          <6>2. DropLastUserTurns(Append(k, e), n) = DropLastUserTurns(k, n - 1)
            BY <2>1, <5>0, <5>2, DropAppendTurn
          <6>3. NoGhosts(DropLastUserTurns(g, n - 1)) = DropLastUserTurns(k, n - 1)
            BY <2>0, <6>0
          <6>. QED
            BY <6>1, <6>2, <6>3
        <5>3. CASE ~IsUserTurn(e) /\ UserTurns(g) = {}
          <6>1. UserTurns(h) = {} /\ UserTurns(Append(k, e)) = {}
            BY <4>2, <5>0, <5>3
          <6>2. Append(k, e) \in Seq(AllItems)
            BY <2>1, AppendProperties
          <6>3. DropLastUserTurns(h, n) = h /\ DropLastUserTurns(Append(k, e), n) = Append(k, e)
            BY <2>1, <6>1, <6>2, DropNone
          <6>. QED
            BY <4>1, <6>3
        <5>4. CASE ~IsUserTurn(e) /\ UserTurns(g) # {}
          <6>1. DropLastUserTurns(h, n) = DropLastUserTurns(g, n)
            BY <5>4, DropAppendOther
          <6>2. DropLastUserTurns(Append(k, e), n) = DropLastUserTurns(k, n)
            BY <2>1, <5>0, <5>4, DropAppendOther
          <6>. QED
            BY <5>0, <6>1, <6>2
        <5>. QED
          BY <5>1, <5>2, <5>3, <5>4
      <4>. QED
        BY <4>1, <4>3, <4>4
    <3>. QED
      BY <3>1, <3>2
  <2>. HIDE DEF h, E, D
  <2>3. h \in P
    BY <2>1, <2>2
  <2>. QED
    BY <2>3 DEF h
<1>. HIDE DEF P
<1>3. \A h \in Seq(AllItems) : h \in P
  BY <1>1, <1>2, SeqInduct
<1>. QED
  BY <1>3 DEF P

----------------------------------------------------------------------------
(* Replay                                                                   *)

LEMMA RecFacts ==
    ASSUME NEW r \in RecSet
    PROVE  /\ r.type \in {"item", "compact", "replace", "rollback", "meta", "garbled"}
           /\ r.type \in {"item", "replace"} => r.body \in Seq(AllItems)
           /\ r.type = "compact" => r.body[1] \in Items({"summary"})
           /\ r.type = "rollback" => r.body[1] \in Nat \ {0}
<1>1. CASE r \in [type : {"item", "replace"}, no : Nat, body : Seq(AllItems)]
  BY <1>1
<1>2. CASE r \in [type : {"compact"}, no : Nat, body : [1..1 -> Items({"summary"})]]
  BY <1>2
<1>3. CASE r \in [type : {"rollback"}, no : Nat, body : [1..1 -> Nat \ {0}]]
  BY <1>3
<1>4. CASE r \in {Meta, Garbled}
  BY <1>4 DEF Meta, Garbled, Rec
<1>. QED
  BY <1>1, <1>2, <1>3, <1>4 DEF RecSet

LEMMA ApplyIs ==
    ASSUME NEW h, NEW r \in RecSet
    PROVE  /\ r.type = "item" => Apply(h, r) = h \o r.body
           /\ r.type = "compact" => Apply(h, r) = CompactedHistory(h, r.body[1])
           /\ r.type = "replace" => Apply(h, r) = r.body
           /\ r.type = "rollback" => Apply(h, r) = DropLastUserTurns(h, r.body[1])
           /\ r.type \in {"meta", "garbled"} => Apply(h, r) = h
BY DEF Apply, Rebuilt

\* What a local compaction keeps does not depend on ghost snapshots or on output.
KeptItems == Items({"user", "aborted"})

LEMMA KeptTypes ==
    /\ KeptItems \subseteq AllItems
    /\ \A h \in Seq(AllItems) : Only(h, KeptItems) \in Seq(AllItems)
    /\ Context \in AllItems
    /\ \A e \in Items({"summary"}) : e \in AllItems /\ e.kind = "summary"
<1>1. KeptItems \subseteq AllItems
  BY DEF KeptItems, AllItems, Items, Kinds
<1>2. ASSUME NEW h \in Seq(AllItems) PROVE Only(h, KeptItems) \in Seq(AllItems)
  <2>1. Only(h, KeptItems) \in Seq(AllItems \cap KeptItems)
    BY OnlyType
  <2>. QED
    BY <2>1, SeqMonotonic
<1>3. Context \in AllItems
  BY DEF Context, Item, AllItems, Items, Kinds
<1>4. \A e \in Items({"summary"}) : e \in AllItems /\ e.kind = "summary"
  BY DEF AllItems, Items, Kinds
<1>. QED
  BY <1>1, <1>2, <1>3, <1>4

LEMMA KeptNoGhosts ==
    ASSUME NEW h \in Seq(AllItems)
    PROVE  Only(NoGhosts(h), KeptItems) = Only(h, KeptItems)
<1>. DEFINE N == Items(Kinds \ {"ghost"})
<1>1. N \cap KeptItems = KeptItems
  BY DEF KeptItems, Items, Kinds
<1>. HIDE DEF N
<1>2. Only(Only(h, N), KeptItems) = Only(h, N \cap KeptItems)
  BY OnlyOnly
<1>. QED
  BY <1>1, <1>2 DEF NoGhosts, N

LEMMA CompactedIs ==
    ASSUME NEW h \in Seq(AllItems), NEW s \in Items({"summary"})
    PROVE  /\ CompactedHistory(h, s) = (<<Context>> \o Only(h, KeptItems)) \o <<s>>
           /\ CompactedHistory(h, s) \in Seq(AllItems)
<1>1. CompactedHistory(h, s) = (<<Context>> \o Only(h, KeptItems)) \o <<s>>
  BY DEF CompactedHistory, KeptItems
<1>2. <<Context>> \in Seq(AllItems) /\ <<s>> \in Seq(AllItems)
  BY KeptTypes
<1>3. Only(h, KeptItems) \in Seq(AllItems)
  BY KeptTypes
<1>4. (<<Context>> \o Only(h, KeptItems)) \o <<s>> \in Seq(AllItems)
  BY <1>2, <1>3, ConcatProperties
<1>. QED
  BY <1>1, <1>4

LEMMA CompactedSame ==
    ASSUME NEW g \in Seq(AllItems), NEW h \in Seq(AllItems), NEW s \in Items({"summary"}),
           Only(g, KeptItems) = Only(h, KeptItems)
    PROVE  CompactedHistory(g, s) = CompactedHistory(h, s)
BY CompactedIs

LEMMA ApplyType ==
    ASSUME NEW h \in Seq(AllItems), NEW r \in RecSet
    PROVE  Apply(h, r) \in Seq(AllItems)
<1>1. CASE r.type = "item"
  <2>1. r.body \in Seq(AllItems)
    BY <1>1, RecFacts
  <2>2. Apply(h, r) = h \o r.body
    BY <1>1, ApplyIs
  <2>3. h \o r.body \in Seq(AllItems)
    BY <2>1, ConcatProperties
  <2>. QED
    BY <2>2, <2>3
<1>2. CASE r.type = "compact"
  BY <1>2, ApplyIs, RecFacts, CompactedIs
<1>3. CASE r.type = "replace"
  BY <1>3, ApplyIs, RecFacts
<1>4. CASE r.type = "rollback"
  BY <1>4, ApplyIs, RecFacts, DropType
<1>5. CASE r.type \in {"meta", "garbled"}
  BY <1>5, ApplyIs
<1>. QED
  BY <1>1, <1>2, <1>3, <1>4, <1>5, RecFacts

\* Replay does not tell apart histories that differ in ghost snapshots only.
LEMMA ApplySame ==
    ASSUME NEW g \in Seq(AllItems), NEW h \in Seq(AllItems), NEW r \in RecSet,
           NoGhosts(g) = NoGhosts(h)
    PROVE  NoGhosts(Apply(g, r)) = NoGhosts(Apply(h, r))
<1>1. CASE r.type = "item"
  <2>1. r.body \in Seq(AllItems)
    BY <1>1, RecFacts
  <2>. QED
    <3>1. Apply(g, r) = g \o r.body /\ Apply(h, r) = h \o r.body
      BY <1>1, ApplyIs
    <3>2. /\ NoGhosts(g \o r.body) = NoGhosts(g) \o NoGhosts(r.body)
          /\ NoGhosts(h \o r.body) = NoGhosts(h) \o NoGhosts(r.body)
      BY <2>1, NoGhostsConcat
    <3>. QED
      BY <3>1, <3>2
<1>2. CASE r.type = "compact"
  <2>1. Only(g, KeptItems) = Only(h, KeptItems)
    <3>1. Only(NoGhosts(g), KeptItems) = Only(g, KeptItems)
      BY KeptNoGhosts
    <3>2. Only(NoGhosts(h), KeptItems) = Only(h, KeptItems)
      BY KeptNoGhosts
    <3>. QED
      BY <3>1, <3>2
  <2>2. r.body[1] \in Items({"summary"})
    BY <1>2, RecFacts
  <2>3. CompactedHistory(g, r.body[1]) = CompactedHistory(h, r.body[1])
    BY <2>1, <2>2, CompactedSame
  <2>. QED
    BY <1>2, <2>3, ApplyIs
<1>3. CASE r.type = "replace"
  BY <1>3, ApplyIs
<1>4. CASE r.type = "rollback"
  <2>1. r.body[1] \in Nat \ {0}
    BY <1>4, RecFacts
  <2>2. /\ NoGhosts(DropLastUserTurns(g, r.body[1])) = DropLastUserTurns(NoGhosts(g), r.body[1])
        /\ NoGhosts(DropLastUserTurns(h, r.body[1])) = DropLastUserTurns(NoGhosts(h), r.body[1])
    BY <2>1, DropNoGhosts
  <2>. QED
    BY <1>4, <2>2, ApplyIs
<1>5. CASE r.type \in {"meta", "garbled"}
  BY <1>5, ApplyIs
<1>. QED
  BY <1>1, <1>2, <1>3, <1>4, <1>5, RecFacts

LEMMA ReconstructType == \A s \in Seq(RecSet) : Reconstruct(s) \in Seq(AllItems)
<1>. DEFINE P == {s \in Seq(RecSet) : Reconstruct(s) \in Seq(AllItems)}
<1>1. <<>> \in P
  BY ReconstructEmpty, EmptySeq
<1>2. ASSUME NEW s \in Seq(RecSet), NEW e \in RecSet, s \in P PROVE Append(s, e) \in P
  <2>1. Append(s, e) \in Seq(RecSet)
    BY AppendProperties
  <2>2. Reconstruct(Append(s, e)) = Apply(Reconstruct(s), e)
    BY ReconstructAppend
  <2>3. Apply(Reconstruct(s), e) \in Seq(AllItems)
    BY <1>2, ApplyType
  <2>. QED
    BY <2>1, <2>2, <2>3
<1>. HIDE DEF P
<1>3. \A s \in Seq(RecSet) : s \in P
  BY <1>1, <1>2, SeqInduct
<1>. QED
  BY <1>3 DEF P

\* Lines that do not parse change nothing.
LEMMA ParsedSame ==
    ASSUME NEW s \in Seq(RecSet)
    PROVE  Reconstruct(Parsed(s)) = Reconstruct(s)
<1>. DEFINE U == {r \in RecSet : r.type # "garbled"}
            P == {t \in Seq(RecSet) : Reconstruct(Only(t, U)) = Reconstruct(t)}
<1>1. Parsed(s) = Only(s, U)
  <2>. DEFINE S == {r \in Range(s) : r.type # "garbled"}
  <2>1. s \in Seq(Range(s)) /\ DOMAIN s = 1..Len(s)
    BY SeqRange
  <2>2. \A e \in Range(s) : e \in RecSet
    BY <2>1, ElementOfSeq DEF Range
  <2>3. \A e \in Range(s) : e \in S <=> e \in U
    BY <2>2
  <2>. HIDE DEF S, U
  <2>4. Only(s, S) = Only(s, U)
    BY <2>1, <2>3, OnlySame
  <2>. QED
    BY <2>4 DEF Parsed, S
<1>2. <<>> \in P
  BY OnlyEmpty, EmptySeq
<1>3. ASSUME NEW t \in Seq(RecSet), NEW e \in RecSet, t \in P PROVE Append(t, e) \in P
  <2>1. Append(t, e) \in Seq(RecSet)
    BY AppendProperties
  <2>2. /\ Reconstruct(Append(t, e)) = Apply(Reconstruct(t), e)
        /\ Reconstruct(Only(t, U)) = Reconstruct(t)
    BY <1>3, ReconstructAppend
  <2>3. Only(Append(t, e), U) = Sift(U, Only(t, U), e)
    BY OnlyAppend
  <2>4. Reconstruct(Only(Append(t, e), U)) = Reconstruct(Append(t, e))
    <3>1. CASE e \in U
      <4>. HIDE DEF U
      <4>1. Only(t, U) \in Seq(RecSet \cap U) /\ e \in RecSet \cap U
        BY <3>1, OnlyType
      <4>2. Reconstruct(Append(Only(t, U), e)) = Apply(Reconstruct(Only(t, U)), e)
        BY <4>1, ReconstructAppend
      <4>. QED
        BY <2>2, <2>3, <3>1, <4>2 DEF Sift
    <3>2. CASE e \notin U
      <4>1. Apply(Reconstruct(t), e) = Reconstruct(t)
        BY <3>2, ApplyIs
      <4>. HIDE DEF U
      <4>. QED
        BY <2>2, <2>3, <3>2, <4>1 DEF Sift
    <3>. QED
      BY <3>1, <3>2
  <2>. QED
    BY <2>1, <2>4
<1>. HIDE DEF P
<1>4. \A t \in Seq(RecSet) : t \in P
  BY <1>2, <1>3, SeqInduct
<1>. QED
  BY <1>1, <1>4 DEF P

LEMMA ViewAppend ==
    ASSUME NEW s \in Seq(RecSet), NEW r \in RecSet
    PROVE  View(Append(s, r)) = NoGhosts(Apply(Reconstruct(s), r))
BY ReconstructAppend DEF View

LEMMA AppendSame ==
    ASSUME NEW a \in Seq(RecSet), NEW b \in Seq(RecSet), NEW r \in RecSet, View(a) = View(b)
    PROVE  View(Append(a, r)) = View(Append(b, r))
<1>1. Reconstruct(a) \in Seq(AllItems) /\ Reconstruct(b) \in Seq(AllItems)
  BY ReconstructType
<1>2. NoGhosts(Apply(Reconstruct(a), r)) = NoGhosts(Apply(Reconstruct(b), r))
  BY <1>1, ApplySame DEF View
<1>. QED
  BY <1>2, ViewAppend

\* What comes behind two streams with the same view leaves them the same view.
LEMMA ViewSame ==
    ASSUME NEW a \in Seq(RecSet), NEW b \in Seq(RecSet), View(a) = View(b)
    PROVE  \A t \in Seq(RecSet) : View(a \o t) = View(b \o t)
<1>. DEFINE P == {t \in Seq(RecSet) : View(a \o t) = View(b \o t)}
<1>1. <<>> \in P
  BY EmptySeq, ConcatEmptySeq
<1>2. ASSUME NEW t \in Seq(RecSet), NEW e \in RecSet, t \in P PROVE Append(t, e) \in P
  <2>1. Append(t, e) \in Seq(RecSet) /\ a \o t \in Seq(RecSet) /\ b \o t \in Seq(RecSet)
    BY AppendProperties, ConcatProperties
  <2>2. a \o Append(t, e) = Append(a \o t, e) /\ b \o Append(t, e) = Append(b \o t, e)
    BY ConcatAppend
  <2>3. View(Append(a \o t, e)) = View(Append(b \o t, e))
    BY <1>2, <2>1, AppendSame
  <2>. QED
    BY <2>1, <2>2, <2>3
<1>. HIDE DEF P
<1>3. \A t \in Seq(RecSet) : t \in P
  BY <1>1, <1>2, SeqInduct
<1>. QED
  BY <1>3 DEF P

LEMMA ViewNoOp ==
    ASSUME NEW s \in Seq(RecSet), NEW r \in RecSet, NoOp(r)
    PROVE  View(Append(s, r)) = View(s)
<1>0. Reconstruct(s) \in Seq(AllItems)
  BY ReconstructType
<1>1. CASE r.type \in {"meta", "garbled"}
  <2>1. Apply(Reconstruct(s), r) = Reconstruct(s)
    BY <1>1, ApplyIs
  <2>. QED
    BY <2>1, ViewAppend DEF View
<1>2. CASE r.type = "item" /\ NoGhosts(r.body) = <<>>
  <2>1. r.body \in Seq(AllItems)
    BY <1>2, RecFacts
  <2>2. Apply(Reconstruct(s), r) = Reconstruct(s) \o r.body
    BY <1>2, ApplyIs
  <2>3. NoGhosts(Reconstruct(s) \o r.body) = NoGhosts(Reconstruct(s)) \o <<>>
    BY <1>0, <1>2, <2>1, NoGhostsConcat
  <2>4. NoGhosts(Reconstruct(s)) \o <<>> = NoGhosts(Reconstruct(s))
    BY <1>0, NoGhostsType, ConcatEmptySeq
  <2>. QED
    BY <2>2, <2>3, <2>4, ViewAppend DEF View
<1>. QED
  BY <1>1, <1>2 DEF NoOp

LEMMA ViewNoOps ==
    ASSUME NEW s \in Seq(RecSet), NEW t \in Seq(RecSet), \A i \in 1..Len(t) : NoOp(t[i])
    PROVE  View(s \o t) = View(s)
<1>. DEFINE T == {r \in RecSet : NoOp(r)}
            P == {u \in Seq(T) : View(s \o u) = View(s)}
<1>0. T \subseteq RecSet /\ \A e \in T : NoOp(e)
  OBVIOUS
<1>. HIDE DEF T
<1>1. <<>> \in P
  BY EmptySeq, ConcatEmptySeq
<1>2. ASSUME NEW u \in Seq(T), NEW e \in T, u \in P PROVE Append(u, e) \in P
  <2>1. Append(u, e) \in Seq(T) /\ u \in Seq(RecSet) /\ e \in RecSet
    BY <1>0, AppendProperties, SeqMonotonic
  <2>2. s \o u \in Seq(RecSet) /\ s \o Append(u, e) = Append(s \o u, e)
    BY <2>1, ConcatProperties, ConcatAppend
  <2>3. View(Append(s \o u, e)) = View(s \o u)
    BY <1>0, <2>1, <2>2, ViewNoOp
  <2>. QED
    BY <1>2, <2>1, <2>2, <2>3
<1>3. t \in Seq(T)
  <2>1. \A i \in 1..Len(t) : t[i] \in T
    BY ElementOfSeq DEF T
  <2>2. t \in [1..Len(t) -> RecSet] /\ Len(t) \in Nat
    OBVIOUS
  <2>3. t \in [1..Len(t) -> T]
    BY <2>1, <2>2
  <2>. QED
    BY <2>2, <2>3
<1>. HIDE DEF P
<1>4. \A u \in Seq(T) : u \in P
  BY <1>1, <1>2, SeqInduct
<1>. QED
  BY <1>3, <1>4 DEF P

----------------------------------------------------------------------------
(* The stream                                                               *)

LEMMA CmdFacts ==
    ASSUME NEW c \in Cmds
    PROVE  /\ c.rec \in RecSet /\ c.type \in {"add", "flush"} /\ c.by \in Actors
           /\ c.type = "flush" => c.rec = Garbled /\ NoOp(c.rec)
<1>1. Garbled \in RecSet /\ Garbled.type = "garbled"
  BY DEF RecSet, Garbled, Rec
<1>2. CASE c \in [type : {"add"}, rec : RecSet, by : Actors]
  BY <1>2
<1>3. CASE c \in [type : {"flush"}, rec : {Garbled}, by : Actors]
  BY <1>1, <1>3 DEF NoOp
<1>. QED
  BY <1>2, <1>3 DEF Cmds

LEMMA RecsType ==
    ASSUME NEW q \in Seq(Cmds)
    PROVE  /\ Recs(q) \in Seq(RecSet) /\ Len(Recs(q)) = Len(q) /\ Len(q) \in Nat
           /\ \A i \in 1..Len(q) : Recs(q)[i] = q[i].rec
<1>1. Len(q) \in Nat /\ \A i \in 1..Len(q) : q[i] \in Cmds
  BY LenProperties, ElementOfSeq
<1>2. \A i \in 1..Len(q) : q[i].rec \in RecSet
  BY <1>1, CmdFacts
<1>3. Recs(q) \in [1..Len(q) -> RecSet]
  BY <1>2 DEF Recs
<1>. QED
  BY <1>1, <1>3 DEF Recs

LEMMA RecsEmpty == Recs(<<>>) = <<>>
<1>1. <<>> \in Seq(Cmds) /\ Len(<<>>) = 0
  BY EmptySeq
<1>2. Recs(<<>>) \in Seq(RecSet) /\ Len(Recs(<<>>)) = 0
  BY <1>1, RecsType
<1>. QED
  BY <1>2, EmptySeq

LEMMA RecsAppend ==
    ASSUME NEW q \in Seq(Cmds), NEW c \in Cmds
    PROVE  Recs(Append(q, c)) = Append(Recs(q), c.rec)
<1>. DEFINE p == Append(q, c)
            r == Append(Recs(q), c.rec)
<1>1. /\ p \in Seq(Cmds) /\ Len(p) = Len(q) + 1 /\ p[Len(q) + 1] = c
      /\ \A i \in 1..Len(q) : p[i] = q[i]
  BY AppendProperties
<1>2. /\ Recs(q) \in Seq(RecSet) /\ Len(Recs(q)) = Len(q) /\ Len(q) \in Nat
      /\ \A i \in 1..Len(q) : Recs(q)[i] = q[i].rec
  BY RecsType
<1>3. c.rec \in RecSet
  BY CmdFacts
<1>4. /\ r \in Seq(RecSet) /\ Len(r) = Len(q) + 1 /\ r[Len(q) + 1] = c.rec
      /\ \A i \in 1..Len(q) : r[i] = q[i].rec
  BY <1>2, <1>3, AppendProperties
<1>. HIDE DEF p, r
<1>5. /\ Recs(p) \in Seq(RecSet) /\ Len(Recs(p)) = Len(p)
      /\ \A i \in 1..Len(p) : Recs(p)[i] = p[i].rec
  BY <1>1, RecsType
<1>6. \A i \in 1..(Len(q) + 1) : i \in 1..Len(q) \/ i = Len(q) + 1
  BY <1>2
<1>7. \A i \in 1..Len(r) : Recs(p)[i] = r[i]
  BY <1>1, <1>4, <1>5, <1>6
<1>8. Recs(p) = r
  BY <1>1, <1>4, <1>5, <1>7, SeqEqual
<1>. QED
  BY <1>8 DEF p, r

LEMMA ShortAppend ==
    ASSUME NEW c, NEW d
    PROVE  Append(<<>>, c) = <<c>> /\ Append(<<c>>, d) = <<c, d>>
<1>1. <<>> \in Seq({c, d}) /\ <<c>> \in Seq({c, d})
  BY EmptySeq
<1>2. Append(<<>>, c) = <<>> \o <<c>> /\ Append(<<c>>, d) = <<c>> \o <<d>>
  BY <1>1, AppendIsConcat
<1>3. <<>> \o <<c>> = <<c>>
  BY <1>1, ConcatEmptySeq
<1>. QED
  BY <1>2, <1>3, ShortSeq

LEMMA RecsOne ==
    ASSUME NEW c \in Cmds, NEW d \in Cmds
    PROVE  Recs(<<c>>) = <<c.rec>> /\ Recs(<<c, d>>) = Append(<<c.rec>>, d.rec)
<1>1. <<>> \in Seq(Cmds) /\ <<c>> \in Seq(Cmds)
  BY EmptySeq
<1>2. Append(<<>>, c) = <<c>> /\ Append(<<c>>, d) = <<c, d>> /\ Append(<<>>, c.rec) = <<c.rec>>
  BY ShortAppend
<1>3. Recs(Append(<<>>, c)) = Append(<<>>, c.rec)
  BY <1>1, RecsAppend, RecsEmpty
<1>4. Recs(Append(<<c>>, d)) = Append(Recs(<<c>>), d.rec)
  BY <1>1, RecsAppend
<1>. QED
  BY <1>2, <1>3, <1>4

LEMMA RecsTail ==
    ASSUME NEW q \in Seq(Cmds), q # <<>>
    PROVE  /\ Recs(q) = <<Head(q).rec>> \o Recs(Tail(q))
           /\ Head(q) \in Cmds /\ Tail(q) \in Seq(Cmds)
           /\ <<Head(q).rec>> \in Seq(RecSet) /\ Recs(Tail(q)) \in Seq(RecSet)
<1>. DEFINE p == Tail(q)
            r == <<Head(q).rec>>
<1>1. /\ p \in Seq(Cmds) /\ Len(q) \in Nat \ {0} /\ Head(q) = q[1] /\ q[1] \in Cmds
      /\ Len(p) = Len(q) - 1 /\ \A i \in 1..(Len(q) - 1) : p[i] = q[i + 1]
  OBVIOUS
<1>2. /\ Recs(q) \in Seq(RecSet) /\ Len(Recs(q)) = Len(q)
      /\ \A i \in 1..Len(q) : Recs(q)[i] = q[i].rec
  BY RecsType
<1>. HIDE DEF p
<1>3. /\ Recs(p) \in Seq(RecSet) /\ Len(Recs(p)) = Len(p)
      /\ \A i \in 1..Len(p) : Recs(p)[i] = p[i].rec
  BY <1>1, RecsType
<1>4. q[1].rec \in RecSet
  BY <1>1, CmdFacts
<1>5. r \in Seq(RecSet) /\ Len(r) = 1 /\ r[1] = q[1].rec
  BY <1>1, <1>4
<1>. HIDE DEF r
<1>. DEFINE u == r \o Recs(p)
<1>6. /\ u \in Seq(RecSet) /\ Len(u) = Len(r) + Len(Recs(p))
      /\ \A i \in 1..(Len(r) + Len(Recs(p))) :
            u[i] = IF i <= Len(r) THEN r[i] ELSE Recs(p)[i - Len(r)]
  BY <1>3, <1>5, ConcatProperties
<1>. HIDE DEF u
<1>7. Len(u) = Len(q) /\ Len(Recs(p)) = Len(q) - 1
  BY <1>1, <1>3, <1>5, <1>6
<1>8. ASSUME NEW i \in 1..Len(q) PROVE u[i] = Recs(q)[i]
  <2>1. CASE i = 1
    BY <1>1, <1>2, <1>5, <1>6, <1>7, <2>1
  <2>2. CASE i # 1
    <3>1. i - 1 \in 1..(Len(q) - 1) /\ (i - 1) + 1 = i /\ ~(i <= 1)
      BY <1>1, <2>2
    <3>2. u[i] = Recs(p)[i - 1]
      BY <1>5, <1>6, <1>7, <3>1
    <3>3. Recs(p)[i - 1] = p[i - 1].rec /\ p[i - 1] = q[i]
      BY <1>1, <1>3, <3>1
    <3>. QED
      BY <1>2, <3>2, <3>3
  <2>. QED
    BY <2>1, <2>2
<1>9. u = Recs(q)
  BY <1>2, <1>6, <1>7, <1>8, SeqEqual
<1>. QED
  BY <1>1, <1>3, <1>5, <1>9 DEF u, r, p

\* The stream, as a function of the four places it runs through.
Join(f, q, t, l) == ((f \o Recs(q)) \o Recs(t)) \o Recs(l)

LEMMA StreamIs == Stream = Join(file, queue, todo[Task], todo[Loop])
BY DEF Stream, Join

\* The head of one part moves to the end of the part before it.
LEMMA MoveUp ==
    ASSUME NEW a \in Seq(RecSet), NEW t \in Seq(Cmds), t # <<>>
    PROVE  a \o Recs(t) = Append(a, Head(t).rec) \o Recs(Tail(t))
<1>. DEFINE e == Head(t).rec
            b == Recs(Tail(t))
<1>1. Recs(t) = <<e>> \o b /\ <<e>> \in Seq(RecSet) /\ b \in Seq(RecSet) /\ Head(t) \in Cmds
  BY RecsTail
<1>2. e \in RecSet
  BY <1>1, CmdFacts
<1>. HIDE DEF e, b
<1>3. a \o (<<e>> \o b) = (a \o <<e>>) \o b
  BY <1>1, ConcatAssociative
<1>4. Append(a, e) = a \o <<e>>
  BY <1>2, AppendIsConcat
<1>. QED
  BY <1>1, <1>3, <1>4 DEF e, b

LEMMA JoinType ==
    ASSUME NEW f \in Seq(RecSet), NEW q \in Seq(Cmds), NEW t \in Seq(Cmds), NEW l \in Seq(Cmds)
    PROVE  /\ f \o Recs(q) \in Seq(RecSet)
           /\ (f \o Recs(q)) \o Recs(t) \in Seq(RecSet)
           /\ Join(f, q, t, l) \in Seq(RecSet)
           /\ Join(f, q, t, <<>>) = (f \o Recs(q)) \o Recs(t)
           /\ Join(f, q, <<>>, <<>>) = f \o Recs(q)
           /\ Join(f, q, <<>>, l) = (f \o Recs(q)) \o Recs(l)
<1>1. Recs(q) \in Seq(RecSet) /\ Recs(t) \in Seq(RecSet) /\ Recs(l) \in Seq(RecSet)
  BY RecsType
<1>2. f \o Recs(q) \in Seq(RecSet)
  BY <1>1, ConcatProperties
<1>3. (f \o Recs(q)) \o Recs(t) \in Seq(RecSet)
  BY <1>1, <1>2, ConcatProperties
<1>4. Join(f, q, t, l) \in Seq(RecSet)
  BY <1>1, <1>3, ConcatProperties DEF Join
<1>5. /\ ((f \o Recs(q)) \o Recs(t)) \o <<>> = (f \o Recs(q)) \o Recs(t)
      /\ (f \o Recs(q)) \o <<>> = f \o Recs(q)
  BY <1>2, <1>3, ConcatEmptySeq
<1>. QED
  BY <1>2, <1>3, <1>4, <1>5, RecsEmpty DEF Join

LEMMA JoinShort ==
    ASSUME NEW f \in Seq(RecSet), NEW q \in Seq(Cmds), NEW t \in Seq(Cmds)
    PROVE  /\ f \o Recs(q) \in Seq(RecSet)
           /\ Join(f, q, <<>>, <<>>) = f \o Recs(q)
           /\ Join(f, q, t, <<>>) = (f \o Recs(q)) \o Recs(t)
           /\ Join(f, q, <<>>, t) = (f \o Recs(q)) \o Recs(t)
BY JoinType

\* The writer writes a line.
LEMMA JoinWrite ==
    ASSUME NEW f \in Seq(RecSet), NEW q \in Seq(Cmds), NEW t \in Seq(Cmds), NEW l \in Seq(Cmds),
           q # <<>>
    PROVE  Join(Append(f, Head(q).rec), Tail(q), t, l) = Join(f, q, t, l)
BY MoveUp DEF Join

\* The task, and the submission loop, send a command.
LEMMA JoinSendTask ==
    ASSUME NEW f \in Seq(RecSet), NEW q \in Seq(Cmds), NEW t \in Seq(Cmds), NEW l \in Seq(Cmds),
           t # <<>>
    PROVE  Join(f, Append(q, Head(t)), Tail(t), l) = Join(f, q, t, l)
<1>1. Head(t) \in Cmds
  BY RecsTail
<1>2. Head(t).rec \in RecSet
  BY <1>1, CmdFacts
<1>3. Recs(Append(q, Head(t))) = Append(Recs(q), Head(t).rec)
  BY <1>1, RecsAppend
<1>4. f \o Append(Recs(q), Head(t).rec) = Append(f \o Recs(q), Head(t).rec)
  BY <1>2, RecsType, ConcatAppend
<1>5. (f \o Recs(q)) \o Recs(t) = Append(f \o Recs(q), Head(t).rec) \o Recs(Tail(t))
  BY JoinType, MoveUp
<1>. QED
  BY <1>3, <1>4, <1>5 DEF Join

LEMMA JoinSwap ==
    ASSUME NEW f \in Seq(RecSet), NEW q \in Seq(Cmds), NEW t \in Seq(Cmds)
    PROVE  Join(f, q, t, <<>>) = Join(f, q, <<>>, t)
<1>1. Join(f, q, t, <<>>) = (f \o Recs(q)) \o Recs(t)
  BY JoinShort
<1>2. Join(f, q, <<>>, t) = (f \o Recs(q)) \o Recs(t)
  BY JoinShort
<1>. QED
  BY <1>1, <1>2

LEMMA JoinSendLoop ==
    ASSUME NEW f \in Seq(RecSet), NEW q \in Seq(Cmds), NEW l \in Seq(Cmds), l # <<>>
    PROVE  Join(f, Append(q, Head(l)), <<>>, Tail(l)) = Join(f, q, <<>>, l)
<1>. DEFINE p == Append(q, Head(l))
            m == Tail(l)
<1>0. <<>> \in Seq(Cmds) /\ Head(l) \in Cmds /\ m \in Seq(Cmds)
  BY EmptySeq, RecsTail
<1>1. p \in Seq(Cmds)
  BY <1>0, AppendProperties
<1>2. Join(f, p, m, <<>>) = Join(f, q, l, <<>>)
  BY <1>0, JoinSendTask
<1>. HIDE DEF p, m
<1>3. Join(f, p, m, <<>>) = Join(f, p, <<>>, m)
  BY <1>0, <1>1, JoinSwap
<1>4. Join(f, q, l, <<>>) = Join(f, q, <<>>, l)
  BY JoinSwap
<1>. QED
  BY <1>2, <1>3, <1>4 DEF p, m

\* Something that changes nothing is sent beside them, or leaves the channel.
LEMMA JoinSendNoOp ==
    ASSUME NEW f \in Seq(RecSet), NEW q \in Seq(Cmds), NEW t \in Seq(Cmds), NEW l \in Seq(Cmds),
           NEW c \in Cmds, NoOp(c.rec)
    PROVE  View(Join(f, Append(q, c), t, l)) = View(Join(f, q, t, l))
<1>1. /\ f \o Recs(q) \in Seq(RecSet) /\ Recs(q) \in Seq(RecSet) /\ Recs(t) \in Seq(RecSet)
      /\ Recs(l) \in Seq(RecSet) /\ c.rec \in RecSet
  BY JoinType, RecsType, CmdFacts
<1>2. f \o Recs(Append(q, c)) = Append(f \o Recs(q), c.rec)
  <2>1. Recs(Append(q, c)) = Append(Recs(q), c.rec)
    BY RecsAppend
  <2>2. f \o Append(Recs(q), c.rec) = Append(f \o Recs(q), c.rec)
    BY <1>1, ConcatAppend
  <2>. QED
    BY <2>1, <2>2
<1>3. View(Append(f \o Recs(q), c.rec)) = View(f \o Recs(q))
  BY <1>1, ViewNoOp
<1>. DEFINE a == Append(f \o Recs(q), c.rec)
            b == f \o Recs(q)
<1>4. a \in Seq(RecSet) /\ b \in Seq(RecSet)
  BY <1>1, AppendProperties
<1>5. Join(f, Append(q, c), t, l) = (a \o Recs(t)) \o Recs(l)
  BY <1>2 DEF Join
<1>6. Join(f, q, t, l) = (b \o Recs(t)) \o Recs(l)
  BY DEF Join
<1>. HIDE DEF a, b
<1>7. View(a) = View(b)
  BY <1>3 DEF a, b
<1>8. a \o Recs(t) \in Seq(RecSet) /\ b \o Recs(t) \in Seq(RecSet)
  BY <1>1, <1>4, ConcatProperties
<1>9. View(a \o Recs(t)) = View(b \o Recs(t))
  BY <1>1, <1>4, <1>7, ViewSame
<1>10. View((a \o Recs(t)) \o Recs(l)) = View((b \o Recs(t)) \o Recs(l))
  BY <1>1, <1>8, <1>9, ViewSame
<1>. QED
  BY <1>5, <1>6, <1>10

LEMMA JoinAck ==
    ASSUME NEW f \in Seq(RecSet), NEW q \in Seq(Cmds), NEW t \in Seq(Cmds), NEW l \in Seq(Cmds),
           q # <<>>, NoOp(Head(q).rec)
    PROVE  View(Join(f, Tail(q), t, l)) = View(Join(f, q, t, l))
<1>. DEFINE a == Append(f, Head(q).rec)
            x == Recs(Tail(q))
<1>1. /\ Head(q) \in Cmds /\ x \in Seq(RecSet) /\ Recs(t) \in Seq(RecSet) /\ Recs(l) \in Seq(RecSet)
      /\ Tail(q) \in Seq(Cmds)
  BY RecsTail, RecsType
<1>2. Head(q).rec \in RecSet
  BY <1>1, CmdFacts
<1>3. View(a) = View(f) /\ a \in Seq(RecSet)
  BY <1>2, ViewNoOp, AppendProperties
<1>4. Join(f, q, t, l) = ((a \o x) \o Recs(t)) \o Recs(l)
  BY JoinWrite DEF Join
<1>5. Join(f, Tail(q), t, l) = ((f \o x) \o Recs(t)) \o Recs(l)
  BY DEF Join
<1>. HIDE DEF a, x
<1>6. View(a \o x) = View(f \o x) /\ a \o x \in Seq(RecSet) /\ f \o x \in Seq(RecSet)
  BY <1>1, <1>3, ViewSame, ConcatProperties
<1>7. /\ View((a \o x) \o Recs(t)) = View((f \o x) \o Recs(t))
      /\ (a \o x) \o Recs(t) \in Seq(RecSet) /\ (f \o x) \o Recs(t) \in Seq(RecSet)
  BY <1>1, <1>6, ViewSame, ConcatProperties
<1>8. View(((a \o x) \o Recs(t)) \o Recs(l)) = View(((f \o x) \o Recs(t)) \o Recs(l))
  BY <1>1, <1>7, ViewSame
<1>. QED
  BY <1>4, <1>5, <1>8

\* What changes nothing is dropped from the task, or is all that is in the channel.
LEMMA JoinDropTask ==
    ASSUME NEW f \in Seq(RecSet), NEW q \in Seq(Cmds), NEW t \in Seq(Cmds),
           \A i \in 1..Len(t) : NoOp(t[i].rec)
    PROVE  View(Join(f, q, t, <<>>)) = View(Join(f, q, <<>>, <<>>))
<1>1. <<>> \in Seq(Cmds)
  BY EmptySeq
<1>2. /\ f \o Recs(q) \in Seq(RecSet)
      /\ Join(f, q, t, <<>>) = (f \o Recs(q)) \o Recs(t)
      /\ Join(f, q, <<>>, <<>>) = f \o Recs(q)
  BY <1>1, JoinType
<1>3. Recs(t) \in Seq(RecSet) /\ \A i \in 1..Len(Recs(t)) : NoOp(Recs(t)[i])
  BY RecsType
<1>. QED
  BY <1>2, <1>3, ViewNoOps

LEMMA JoinFile ==
    ASSUME NEW f \in Seq(RecSet), NEW q \in Seq(Cmds), \A i \in 1..Len(q) : NoOp(q[i].rec)
    PROVE  View(Join(f, q, <<>>, <<>>)) = View(f)
<1>1. <<>> \in Seq(Cmds)
  BY EmptySeq
<1>2. Join(f, q, <<>>, <<>>) = f \o Recs(q)
  BY <1>1, JoinType
<1>3. Recs(q) \in Seq(RecSet) /\ \A i \in 1..Len(Recs(q)) : NoOp(Recs(q)[i])
  BY RecsType
<1>. QED
  BY <1>2, <1>3, ViewNoOps

\* The task has something to send, and the loop something with a flush behind it.
LEMMA JoinNew ==
    ASSUME NEW f \in Seq(RecSet), NEW q \in Seq(Cmds), NEW c \in Cmds, NEW d \in Cmds,
           d.type = "flush"
    PROVE  /\ Join(f, q, <<c>>, <<>>) = Append(Join(f, q, <<>>, <<>>), c.rec)
           /\ View(Join(f, q, <<>>, <<c, d>>)) = View(Append(Join(f, q, <<>>, <<>>), c.rec))
           /\ View(Join(f, q, <<d>>, <<>>)) = View(Join(f, q, <<>>, <<>>))
<1>. DEFINE a == f \o Recs(q)
<1>1. <<>> \in Seq(Cmds) /\ <<c>> \in Seq(Cmds) /\ <<d>> \in Seq(Cmds) /\ <<c, d>> \in Seq(Cmds)
  BY EmptySeq
<1>2. /\ a \in Seq(RecSet)
      /\ Join(f, q, <<c>>, <<>>) = a \o Recs(<<c>>)
      /\ Join(f, q, <<d>>, <<>>) = a \o Recs(<<d>>)
      /\ Join(f, q, <<>>, <<>>) = a
      /\ Join(f, q, <<>>, <<c, d>>) = a \o Recs(<<c, d>>)
  BY <1>1, JoinShort, Zenon
<1>3. c.rec \in RecSet /\ d.rec \in RecSet /\ NoOp(d.rec)
  BY CmdFacts
<1>. HIDE DEF a
<1>4. a \o <<c.rec>> = Append(a, c.rec) /\ a \o <<d.rec>> = Append(a, d.rec)
  BY <1>2, <1>3, AppendIsConcat
<1>5. <<c.rec>> \in Seq(RecSet)
  BY <1>3
<1>6. a \o Append(<<c.rec>>, d.rec) = Append(a \o <<c.rec>>, d.rec)
  BY <1>2, <1>3, <1>5, ConcatAppend
<1>7. Append(a, c.rec) \in Seq(RecSet)
  BY <1>2, <1>3, AppendProperties
<1>8. View(Append(Append(a, c.rec), d.rec)) = View(Append(a, c.rec))
  BY <1>3, <1>7, ViewNoOp
<1>9. View(Append(a, d.rec)) = View(a)
  BY <1>2, <1>3, ViewNoOp
<1>10. Recs(<<c>>) = <<c.rec>> /\ Recs(<<d>>) = <<d.rec>> /\ Recs(<<c, d>>) = Append(<<c.rec>>, d.rec)
  BY RecsOne
<1>. QED
  BY <1>2, <1>4, <1>6, <1>8, <1>9, <1>10

----------------------------------------------------------------------------
(* What each change of the history adds to the stream                       *)

LEMMA NewRec ==
    ASSUME NEW n \in Nat
    PROVE  /\ \A h \in Seq(AllItems) : Rec("item", n, h) \in RecSet /\ Rec("replace", n, h) \in RecSet
           /\ \A e \in Items({"summary"}) : Rec("compact", n, <<e>>) \in RecSet
           /\ \A k \in Nat \ {0} : Rec("rollback", n, <<k>>) \in RecSet
<1>1. ASSUME NEW h \in Seq(AllItems)
      PROVE  Rec("item", n, h) \in RecSet /\ Rec("replace", n, h) \in RecSet
  BY DEF Rec, RecSet
<1>2. ASSUME NEW e \in Items({"summary"}) PROVE Rec("compact", n, <<e>>) \in RecSet
  <2>1. <<e>> \in [1..1 -> Items({"summary"})]
    OBVIOUS
  <2>. QED
    BY <2>1 DEF Rec, RecSet
<1>3. ASSUME NEW k \in Nat \ {0} PROVE Rec("rollback", n, <<k>>) \in RecSet
  <2>1. <<k>> \in [1..1 -> Nat \ {0}]
    OBVIOUS
  <2>. QED
    BY <2>1 DEF Rec, RecSet
<1>. QED
  BY <1>1, <1>2, <1>3

LEMMA RecFields ==
    ASSUME NEW type, NEW n, NEW body
    PROVE  Rec(type, n, body).type = type /\ Rec(type, n, body).body = body
BY DEF Rec

LEMMA NewCmd ==
    /\ \A r \in RecSet : Add(r) \in Cmds /\ Add(r).rec = r /\ Add(r).type = "add"
    /\ \A a \in Actors : Flush(a) \in Cmds /\ Flush(a).type = "flush" /\ Flush(a).by = a
<1>1. ASSUME NEW r \in RecSet PROVE Add(r) \in Cmds /\ Add(r).rec = r /\ Add(r).type = "add"
  <2>1. Add(r) \in [type : {"add"}, rec : RecSet, by : Actors]
    BY DEF Add, Actors
  <2>. QED
    BY <2>1 DEF Add, Cmds
<1>2. ASSUME NEW a \in Actors
      PROVE  Flush(a) \in Cmds /\ Flush(a).type = "flush" /\ Flush(a).by = a
  <2>1. Flush(a) \in [type : {"flush"}, rec : {Garbled}, by : Actors]
    BY DEF Flush
  <2>. QED
    BY <2>1 DEF Flush, Cmds
<1>. QED
  BY <1>1, <1>2

LEMMA NewItem ==
    ASSUME NEW n \in Nat
    PROVE  /\ \A k \in Kinds : Item(k, n) \in AllItems /\ Item(k, n).kind = k
           /\ Item("summary", n) \in Items({"summary"})
           /\ Item("reply", n) \in AllItems /\ Item("reply", n).kind = "reply"
           /\ Context \in AllItems
BY KeptTypes DEF Item, AllItems, Items, Kinds

\* An item is recorded.
LEMMA RecordView ==
    ASSUME NEW h \in Seq(AllItems), NEW i \in AllItems, NEW s \in Seq(RecSet), NEW n \in Nat,
           NoGhosts(h) = View(s)
    PROVE  NoGhosts(Append(h, i)) = View(Append(s, Rec("item", n, <<i>>)))
<1>. DEFINE r == Rec("item", n, <<i>>)
            g == Reconstruct(s)
<1>1. <<i>> \in Seq(AllItems) /\ g \in Seq(AllItems)
  BY ReconstructType
<1>2. r \in RecSet /\ r.type = "item" /\ r.body = <<i>>
  <2>1. r \in RecSet
    BY <1>1, NewRec
  <2>. QED
    BY <2>1, RecFields
<1>3. View(Append(s, r)) = NoGhosts(Apply(g, r))
  BY <1>2, ViewAppend
<1>. HIDE DEF r, g
<1>4. Apply(g, r) = g \o <<i>>
  BY <1>2, ApplyIs
<1>5. NoGhosts(g \o <<i>>) = NoGhosts(g) \o NoGhosts(<<i>>)
  BY <1>1, NoGhostsConcat
<1>6. Append(h, i) = h \o <<i>>
  BY AppendIsConcat
<1>7. NoGhosts(h \o <<i>>) = NoGhosts(h) \o NoGhosts(<<i>>)
  BY <1>1, NoGhostsConcat
<1>8. NoGhosts(h) = NoGhosts(g)
  BY DEF View, g
<1>. QED
  BY <1>3, <1>4, <1>5, <1>6, <1>7, <1>8 DEF r

\* Turns are rolled back.
LEMMA RollbackView ==
    ASSUME NEW h \in Seq(AllItems), NEW k \in Nat \ {0}, NEW s \in Seq(RecSet), NEW n \in Nat,
           NoGhosts(h) = View(s)
    PROVE  NoGhosts(DropLastUserTurns(h, k)) = View(Append(s, Rec("rollback", n, <<k>>)))
<1>. DEFINE r == Rec("rollback", n, <<k>>)
            g == Reconstruct(s)
<1>1. g \in Seq(AllItems)
  BY ReconstructType
<1>2. r \in RecSet /\ r.type = "rollback" /\ r.body = <<k>>
  BY NewRec, RecFields
<1>3. View(Append(s, r)) = NoGhosts(Apply(g, r))
  BY <1>2, ViewAppend
<1>. HIDE DEF r, g
<1>4. Apply(g, r) = DropLastUserTurns(g, k)
  BY <1>2, ApplyIs
<1>5. NoGhosts(h) = NoGhosts(g)
  BY DEF View, g
<1>6. /\ NoGhosts(DropLastUserTurns(g, k)) = DropLastUserTurns(NoGhosts(g), k)
      /\ NoGhosts(DropLastUserTurns(h, k)) = DropLastUserTurns(NoGhosts(h), k)
  BY <1>1, DropNoGhosts
<1>. QED
  BY <1>3, <1>4, <1>5, <1>6 DEF r

\* The model service replaces the history.
LEMMA ReplaceView ==
    ASSUME NEW h \in Seq(AllItems), NEW s \in Seq(RecSet), NEW n \in Nat
    PROVE  NoGhosts(h) = View(Append(s, Rec("replace", n, h)))
<1>. DEFINE r == Rec("replace", n, h)
            g == Reconstruct(s)
<1>2. r \in RecSet /\ r.type = "replace" /\ r.body = h
  BY NewRec, RecFields
<1>3. View(Append(s, r)) = NoGhosts(Apply(g, r))
  BY <1>2, ViewAppend
<1>. HIDE DEF r, g
<1>4. Apply(g, r) = h
  BY <1>2, ApplyIs
<1>. QED
  BY <1>3, <1>4 DEF r

LEMMA GhostsType ==
    ASSUME NEW h \in Seq(AllItems)
    PROVE  GhostsOf(h) \in Seq(AllItems) /\ NoGhosts(GhostsOf(h)) = <<>>
<1>. DEFINE G == Items({"ghost"})
            N == Items(Kinds \ {"ghost"})
<1>1. G \cap N = {}
  BY DEF Items
<1>. HIDE DEF G, N
<1>2. Only(h, G) \in Seq(AllItems \cap G)
  BY OnlyType
<1>3. Only(h, G) \in Seq(AllItems)
  BY <1>2, SeqMonotonic
<1>4. Only(Only(h, G), N) = Only(h, G \cap N)
  BY OnlyOnly
<1>5. Only(h, {}) \in Seq(AllItems \cap {})
  BY OnlyType
<1>6. Only(h, {}) = <<>>
  <2>. DEFINE u == Only(h, {})
  <2>1. u \in Seq({})
    BY <1>5
  <2>. HIDE DEF u
  <2>2. Len(u) \in Nat /\ \A i \in 1..Len(u) : u[i] \in {}
    BY <2>1, ElementOfSeq, LenProperties
  <2>3. Len(u) = 0
    <3>1. Len(u) # 0 => 1 \in 1..Len(u)
      BY <2>2
    <3>. QED
      BY <2>2, <3>1
  <2>4. u = <<>>
    BY <2>1, <2>3, EmptySeq
  <2>. QED
    BY <2>4 DEF u
<1>. QED
  BY <1>1, <1>3, <1>4, <1>6 DEF GhostsOf, NoGhosts, G, N

\* A local compaction: neither the model's answer nor the snapshots are kept.
LEMMA CompactView ==
    ASSUME NEW h \in Seq(AllItems), NEW e \in Items({"summary"}), NEW s \in Seq(RecSet),
           NEW n \in Nat, NEW m \in Nat, NoGhosts(h) = Append(View(s), Item("reply", m))
    PROVE  NoGhosts(CompactedHistory(h, e) \o GhostsOf(h))
               = View(Append(s, Rec("compact", n, <<e>>)))
<1>. DEFINE r == Rec("compact", n, <<e>>)
            g == Reconstruct(s)
            i == Item("reply", m)
<1>1. g \in Seq(AllItems)
  BY ReconstructType
<1>2. r \in RecSet /\ r.type = "compact" /\ r.body = <<e>>
  BY NewRec, RecFields
<1>3. View(Append(s, r)) = NoGhosts(Apply(g, r))
  BY <1>2, ViewAppend
<1>4. i \in AllItems /\ i \notin KeptItems
  BY NewItem DEF KeptItems, Items
<1>5. NoGhosts(h) = Append(NoGhosts(g), i)
  BY DEF View
<1>. HIDE DEF r, g, i
<1>6. Apply(g, r) = CompactedHistory(g, e)
  BY <1>2, ApplyIs
<1>7. Only(g, KeptItems) = Only(h, KeptItems)
  <2>1. NoGhosts(g) \in Seq(AllItems)
    BY <1>1, NoGhostsType
  <2>2. Only(Append(NoGhosts(g), i), KeptItems) = Sift(KeptItems, Only(NoGhosts(g), KeptItems), i)
    BY <1>4, <2>1, OnlyAppend
  <2>3. Only(NoGhosts(h), KeptItems) = Only(NoGhosts(g), KeptItems)
    BY <1>4, <1>5, <2>2 DEF Sift
  <2>4. Only(NoGhosts(h), KeptItems) = Only(h, KeptItems)
    BY KeptNoGhosts
  <2>5. Only(NoGhosts(g), KeptItems) = Only(g, KeptItems)
    BY <1>1, KeptNoGhosts
  <2>. QED
    BY <2>3, <2>4, <2>5
<1>8. CompactedHistory(g, e) = CompactedHistory(h, e) /\ CompactedHistory(h, e) \in Seq(AllItems)
  BY <1>1, <1>7, CompactedSame, CompactedIs
<1>9. NoGhosts(CompactedHistory(h, e) \o GhostsOf(h)) = NoGhosts(CompactedHistory(h, e)) \o <<>>
  BY <1>8, GhostsType, NoGhostsConcat
<1>10. NoGhosts(CompactedHistory(h, e)) \o <<>> = NoGhosts(CompactedHistory(h, e))
  BY <1>8, NoGhostsType, ConcatEmptySeq
<1>. QED
  BY <1>3, <1>6, <1>8, <1>9, <1>10 DEF r

----------------------------------------------------------------------------
(* The session                                                              *)

Known == RolloutInv /\ OwnInv /\ ReplayInv

\* What the invariants say of the state, in the form the steps use it.
LEMMA KnownFacts ==
    ASSUME Known
    PROVE  /\ count \in Nat /\ DOMAIN todo = Actors /\ awaiting \in [Actors -> BOOLEAN]
           /\ history \in Seq(AllItems) /\ file \in Seq(RecSet) /\ queue \in Seq(Cmds)
           /\ \A a \in Actors : todo[a] \in Seq(Cmds)
           /\ <<>> \in Seq(Cmds)
           /\ Stream \in Seq(RecSet)
           /\ Task \in Actors /\ Loop \in Actors /\ Ghost \in Actors
           /\ Task # Loop /\ Task # Ghost /\ Loop # Ghost
           /\ \A a \in Actors : a \in {Task, Loop, Ghost}
           /\ \A i \in DOMAIN todo[Ghost] : NoOp(todo[Ghost][i].rec)
<1>1. count \in Nat /\ DOMAIN todo = Actors /\ awaiting \in [Actors -> BOOLEAN]
  BY Numbers DEF Known, RolloutInv, TodoInv, TypeOK
<1>2. /\ history \in Seq(AllItems) /\ file \in Seq(RecSet) /\ queue \in Seq(Cmds)
      /\ \A a \in Actors : todo[a] \in Seq(Cmds)
      /\ \A i \in DOMAIN todo[Ghost] : NoOp(todo[Ghost][i].rec)
  BY DEF Known, ReplayInv, DataInv
<1>3. /\ Task \in Actors /\ Loop \in Actors /\ Ghost \in Actors
      /\ Task # Loop /\ Task # Ghost /\ Loop # Ghost
      /\ \A a \in Actors : a \in {Task, Loop, Ghost}
  BY DEF Actors, Task, Loop, Ghost
<1>4. Stream \in Seq(RecSet)
  BY <1>2, <1>3, StreamIs, JoinType
<1>5. <<>> \in Seq(Cmds)
  BY EmptySeq
<1>. QED
  BY <1>1, <1>2, <1>3, <1>4, <1>5

LEMMA ChangeTodo ==
    ASSUME Known, NEW a \in Actors, NEW h, NEW type, NEW body, Change(a, h, type, body, FALSE)
    PROVE  /\ Free(a) /\ history' = h /\ count' = count + 1
           /\ todo'[a] = <<Add(Rec(type, count + 1, body))>>
           /\ \A b \in Actors \ {a} : todo'[b] = todo[b]
<1>. DEFINE c == Add(Rec(type, count + 1, body))
<1>1. /\ Free(a) /\ history' = h /\ count' = count + 1
      /\ todo' = [todo EXCEPT ![a] = <<c>> \o <<>>]
  BY DEF Change
<1>. HIDE DEF c
<1>2. <<c>> \o <<>> = <<c>>
  BY ShortSeq
<1>3. todo'[a] = <<c>> /\ \A b \in Actors \ {a} : todo'[b] = todo[b]
  BY <1>1, <1>2, KnownFacts
<1>. QED
  BY <1>1, <1>3 DEF c

LEMMA LoopSame ==
    ASSUME LoopInv, EventInv, todo'[Loop] = todo[Loop], awaiting'[Loop] = awaiting[Loop],
           UNCHANGED <<queue, writer>>, event' = event \/ event' = "none"
    PROVE  LoopInv' /\ EventInv'
<1>1. LoopInv'
  BY DEF LoopInv, IsLoopFlush
<1>2. Free(Loop)' = Free(Loop)
  BY DEF Free
<1>3. EventInv'
  <2>1. ASSUME NEW i \in DOMAIN queue, NoOp(queue[i].rec) PROVE NoOp(queue[i].rec)'
    BY <2>1 DEF NoOp, NoGhosts
  <2>. QED
    BY <1>2 DEF EventInv, IsLoopFlush, NoOp, NoGhosts
<1>. QED
  BY <1>1, <1>3

LEMMA SyncedNext ==
    ASSUME task' # "compact",
           up' /\ writer' = "up" /\ lost' = {} /\ ~cut' =>
               NoGhosts(history') = View(Join(file', queue', todo'[Task], todo'[Loop]))
    PROVE  Synced'
BY DEF Synced, Stream, Join, View, NoGhosts

\* The task records, and the submission loop is idle.
LEMMA TaskChange ==
    ASSUME Known, up, NEW h \in Seq(AllItems), NEW type, NEW body,
           Rec(type, count + 1, body) \in RecSet, Change(Task, h, type, body, FALSE),
           Free(Loop), event = "none", task' = "run",
           UNCHANGED <<up, event, cut, awaiting, recorderVars>>,
           writer = "up" /\ lost = {} /\ ~cut =>
               NoGhosts(h) = View(Append(Stream, Rec(type, count + 1, body)))
    PROVE  ReplayInv'
<1>. DEFINE r == Rec(type, count + 1, body)
            c == Add(r)
            d == Flush(Task)
<1>1. /\ Free(Task) /\ history' = h /\ todo'[Task] = <<c>>
      /\ todo'[Loop] = todo[Loop] /\ todo'[Ghost] = todo[Ghost]
  <2>1. Task \in Actors /\ Loop \in Actors \ {Task} /\ Ghost \in Actors \ {Task}
    BY KnownFacts
  <2>2. /\ Free(Task) /\ history' = h
        /\ todo'[Task] = <<Add(Rec(type, count + 1, body))>>
        /\ \A b \in Actors \ {Task} : todo'[b] = todo[b]
    BY <2>1, ChangeTodo, ZenonT(30)
  <2>. QED
    BY <2>1, <2>2
<1>2. c \in Cmds /\ c.rec = r /\ d \in Cmds /\ d.type = "flush"
  BY NewCmd, KnownFacts
<1>. HIDE DEF r, c, d
<1>3. todo[Task] = <<>> /\ todo[Loop] = <<>>
  BY <1>1 DEF Free
<1>4. <<c>> \in Seq(Cmds)
  BY <1>2
<1>5. DataInv'
  <2>1. \A a \in Actors : todo'[a] \in Seq(Cmds)
    BY <1>1, <1>4, KnownFacts
  <2>. QED
    BY <1>1, <2>1, KnownFacts DEF DataInv, recorderVars, NoOp, NoGhosts
<1>6. TurnInv'
  BY <1>1 DEF TurnInv, Free
<1>7. LoopInv' /\ EventInv'
  BY <1>1, LoopSame DEF Known, ReplayInv, recorderVars
<1>8. Synced'
  <2>1. Stream = Join(file, queue, <<>>, <<>>)
    BY <1>3, StreamIs
  <2>2. Join(file, queue, <<c>>, <<>>) = Append(Stream, r)
    BY <1>2, <2>1, JoinNew, KnownFacts
  <2>3. Join(file', queue', todo'[Task], todo'[Loop]) = Append(Stream, r)
    BY <1>1, <1>3, <2>2 DEF recorderVars
  <2>. QED
    BY <1>1, <2>3, SyncedNext DEF recorderVars, r
<1>. QED
  BY <1>5, <1>6, <1>7, <1>8 DEF ReplayInv

\* What the invariant says of the history while no local compaction is under way.
LEMMA SyncedNow ==
    ASSUME Known, up, task # "compact", writer = "up", lost = {}, ~cut
    PROVE  NoGhosts(history) = View(Stream)
BY DEF Known, ReplayInv, Synced

LEMMA StartKeeps ==
    ASSUME Known, StartTurn
    PROVE  ReplayInv'
<1>. DEFINE i == Item("user", count + 1)
            h == Append(history, i)
<1>1. /\ up /\ Free(Loop) /\ event = "none" /\ task = "none" /\ task' = "run"
      /\ UNCHANGED <<up, event, cut, awaiting, recorderVars>>
      /\ Change(Task, h, "item", <<i>>, FALSE)
  BY DEF StartTurn, LoopIdle, Record
<1>2. i \in AllItems /\ h \in Seq(AllItems) /\ count + 1 \in Nat /\ <<i>> \in Seq(AllItems)
  <2>1. count + 1 \in Nat /\ history \in Seq(AllItems)
    BY KnownFacts
  <2>2. i \in AllItems
    BY <2>1, NewItem DEF Kinds
  <2>. QED
    BY <2>1, <2>2, AppendProperties
<1>. HIDE DEF i
<1>3. Rec("item", count + 1, <<i>>) \in RecSet
  BY <1>2, NewRec
<1>4. writer = "up" /\ lost = {} /\ ~cut =>
          NoGhosts(h) = View(Append(Stream, Rec("item", count + 1, <<i>>)))
  BY <1>1, <1>2, KnownFacts, SyncedNow, RecordView
<1>. HIDE DEF h
<1>. QED
  BY <1>1, <1>2, <1>3, <1>4, TaskChange

LEMMA ReplyKeeps ==
    ASSUME Known, RecordReply
    PROVE  ReplayInv'
<1>. DEFINE i == Item("reply", count + 1)
            h == Append(history, i)
<1>1. /\ up /\ task = "run" /\ task' = "run"
      /\ UNCHANGED <<up, event, cut, awaiting, recorderVars>>
      /\ Change(Task, h, "item", <<i>>, FALSE)
  BY DEF RecordReply, Record, sessionVars
<1>2. Free(Loop) /\ event = "none"
  BY <1>1 DEF Known, ReplayInv, TurnInv
<1>3. i \in AllItems /\ h \in Seq(AllItems) /\ count + 1 \in Nat /\ <<i>> \in Seq(AllItems)
  <2>1. count + 1 \in Nat /\ history \in Seq(AllItems)
    BY KnownFacts
  <2>2. i \in AllItems
    BY <2>1, NewItem
  <2>. QED
    BY <2>1, <2>2, AppendProperties
<1>. HIDE DEF i
<1>4. Rec("item", count + 1, <<i>>) \in RecSet
  BY <1>3, NewRec
<1>5. writer = "up" /\ lost = {} /\ ~cut =>
          NoGhosts(h) = View(Append(Stream, Rec("item", count + 1, <<i>>)))
  BY <1>1, <1>3, KnownFacts, SyncedNow, RecordView
<1>. HIDE DEF h
<1>. QED
  BY <1>1, <1>2, <1>3, <1>4, <1>5, TaskChange

LEMMA CompactLocalKeeps ==
    ASSUME Known, CompactLocal
    PROVE  ReplayInv'
<1>. DEFINE e == Item("summary", count + 1)
            h == CompactedHistory(history, e) \o GhostsOf(history)
<1>1. /\ up /\ task = "compact" /\ task' = "run"
      /\ UNCHANGED <<up, event, cut, awaiting, recorderVars>>
      /\ Change(Task, h, "compact", <<e>>, FALSE)
  BY DEF CompactLocal
<1>2. Free(Loop) /\ event = "none"
  BY <1>1 DEF Known, ReplayInv, TurnInv
<1>3. e \in Items({"summary"}) /\ count + 1 \in Nat /\ history \in Seq(AllItems)
  BY KnownFacts, NewItem
<1>. HIDE DEF e
<1>4. h \in Seq(AllItems)
  BY <1>3, CompactedIs, GhostsType, ConcatProperties
<1>5. Rec("compact", count + 1, <<e>>) \in RecSet
  BY <1>3, NewRec
<1>6. writer = "up" /\ lost = {} /\ ~cut =>
          NoGhosts(h) = View(Append(Stream, Rec("compact", count + 1, <<e>>)))
  <2>1. SUFFICES ASSUME writer = "up", lost = {}, ~cut
                 PROVE  NoGhosts(h) = View(Append(Stream, Rec("compact", count + 1, <<e>>)))
    OBVIOUS
  <2>2. PICK n \in 0..count : NoGhosts(history) = Append(View(Stream), Item("reply", n))
    BY <1>1, <2>1 DEF Known, ReplayInv, Synced
  <2>3. n \in Nat /\ Stream \in Seq(RecSet)
    BY KnownFacts
  <2>. QED
    BY <1>3, <2>2, <2>3, CompactView
<1>. HIDE DEF h
<1>. QED
  BY <1>1, <1>2, <1>4, <1>5, <1>6, TaskChange

LEMMA CompactRemoteKeeps ==
    ASSUME Known, CompactRemote
    PROVE  ReplayInv'
<1>. DEFINE e == Item("summary", count + 1)
            h == <<e>> \o GhostsOf(history)
<1>1. /\ up /\ task = "run" /\ task' = "run"
      /\ UNCHANGED <<up, event, cut, awaiting, recorderVars>>
      /\ Change(Task, h, "replace", h, FALSE)
  BY DEF CompactRemote, sessionVars
<1>2. Free(Loop) /\ event = "none"
  BY <1>1 DEF Known, ReplayInv, TurnInv
<1>3. <<e>> \in Seq(AllItems) /\ count + 1 \in Nat /\ GhostsOf(history) \in Seq(AllItems)
  <2>1. count + 1 \in Nat /\ history \in Seq(AllItems)
    BY KnownFacts
  <2>2. e \in AllItems
    BY <2>1, NewItem DEF Kinds
  <2>. QED
    BY <2>1, <2>2, GhostsType
<1>. HIDE DEF e
<1>4. h \in Seq(AllItems)
  BY <1>3, ConcatProperties
<1>. HIDE DEF h
<1>5. Rec("replace", count + 1, h) \in RecSet
  BY <1>3, <1>4, NewRec
<1>6. NoGhosts(h) = View(Append(Stream, Rec("replace", count + 1, h)))
  BY <1>3, <1>4, KnownFacts, ReplaceView
<1>. QED
  BY <1>1, <1>2, <1>4, <1>5, <1>6, TaskChange

\* A session step of the task that records nothing in the rollout.
LEMMA QuietKeeps ==
    ASSUME Known, up, history' \in Seq(AllItems),
           UNCHANGED <<up, recorderVars, todo>>, awaiting' = awaiting,
           event' = event \/ event' = "none", TurnInv', Synced'
    PROVE  ReplayInv'
<1>1. DataInv'
  BY DEF Known, ReplayInv, DataInv, recorderVars, NoOp, NoGhosts
<1>2. LoopInv' /\ EventInv'
  BY LoopSame DEF Known, ReplayInv, recorderVars
<1>. QED
  BY <1>1, <1>2 DEF ReplayInv

LEMMA CompactReplyKeeps ==
    ASSUME Known, CompactReply
    PROVE  ReplayInv'
<1>. DEFINE i == Item("reply", count + 1)
<1>1. /\ up /\ task # "compact" /\ Free(Task) /\ task' = "compact"
      /\ history' = Append(history, i) /\ count' = count + 1
      /\ UNCHANGED <<up, event, cut, todo, awaiting, recorderVars>>
  BY DEF CompactReply
<1>2. Free(Loop) /\ event = "none"
  BY DEF Known, ReplayInv, TurnInv, CompactReply, LoopIdle
<1>3. count + 1 \in Nat /\ count + 1 \in 0..(count + 1) /\ history \in Seq(AllItems)
  BY KnownFacts
<1>4. i \in AllItems /\ i.kind = "reply"
  BY <1>3, NewItem
<1>. HIDE DEF i
<1>5. history' \in Seq(AllItems)
  BY <1>1, <1>3, <1>4, AppendProperties
<1>6. TurnInv'
  BY <1>1, <1>2 DEF TurnInv, Free
<1>7. Synced'
  <2>1. SUFFICES ASSUME writer = "up", lost = {}, ~cut
                 PROVE  \E n \in 0..count' :
                            NoGhosts(history') = Append(View(Stream), Item("reply", n))
    BY <1>1 DEF Synced, Stream, View, NoGhosts, recorderVars
  <2>2. NoGhosts(history) = View(Stream)
    BY <1>1, <2>1, SyncedNow
  <2>3. NoGhosts(history') = Append(NoGhosts(history), i)
    BY <1>1, <1>3, <1>4, NoGhostsAppend
  <2>4. NoGhosts(history') = Append(View(Stream), Item("reply", count + 1))
    BY <2>2, <2>3 DEF i
  <2>. QED
    BY <1>1, <1>3, <2>4
<1>. QED
  BY <1>1, <1>5, <1>6, <1>7, QuietKeeps

LEMMA CompactFailsKeeps ==
    ASSUME Known, CompactFails
    PROVE  ReplayInv'
<1>1. /\ up /\ task = "compact" /\ task' = "run" /\ cut' = TRUE
      /\ UNCHANGED <<up, event, history, todo, awaiting, recorderVars>>
  BY DEF CompactFails
<1>2. TurnInv'
  BY <1>1 DEF Known, ReplayInv, TurnInv, Free
<1>3. Synced'
  BY <1>1 DEF Synced
<1>. QED
  BY <1>1, <1>2, <1>3, QuietKeeps, KnownFacts

\* Steps that change where the turn is, and not the stream.
LEMMA StreamSame ==
    ASSUME Known, UNCHANGED <<up, history, todo, recorderVars, cut>>,
           task # "compact", task' # "compact"
    PROVE  Synced'
BY DEF Known, ReplayInv, Synced, Stream, View, NoGhosts, recorderVars

LEMMA FinishKeeps ==
    ASSUME Known, FinishTurn
    PROVE  ReplayInv'
<1>1. /\ up /\ task = "ending" /\ task' = "none" /\ Free(Task)
      /\ UNCHANGED <<up, event, cut, history, todo, awaiting, recorderVars>>
  BY DEF FinishTurn
<1>2. TurnInv'
  BY <1>1 DEF TurnInv, Free
<1>3. Synced'
  BY <1>1, StreamSame
<1>. QED
  BY <1>1, <1>2, <1>3, QuietKeeps, KnownFacts

LEMMA SendEventKeeps ==
    ASSUME Known, SendEvent
    PROVE  ReplayInv'
<1>1. /\ up /\ event # "none" /\ event' = "none"
      /\ UNCHANGED <<up, task, cut, history, todo, awaiting, recorderVars>>
  BY DEF SendEvent
<1>2. task = "none"
  BY <1>1 DEF Known, ReplayInv, TurnInv
<1>3. TurnInv'
  BY <1>1, <1>2 DEF Known, ReplayInv, TurnInv, Free
<1>4. Synced'
  BY <1>1, <1>2, StreamSame
<1>. QED
  BY <1>1, <1>3, <1>4, QuietKeeps, KnownFacts

\* A snapshot is recorded beside the turn: replay and history do not count it.
LEMMA GhostKeeps ==
    ASSUME Known, GhostSnapshot
    PROVE  ReplayInv'
<1>. DEFINE i == Item("ghost", count + 1)
            r == Rec("item", count + 1, <<i>>)
            c == Add(r)
<1>0. /\ up /\ UNCHANGED <<up, task, event, cut, awaiting, recorderVars>>
      /\ Change(Ghost, Append(history, i), "item", <<i>>, FALSE)
  BY DEF GhostSnapshot, Record
<1>1. /\ history' = Append(history, i) /\ todo'[Ghost] = <<c>> /\ count' = count + 1
      /\ todo'[Loop] = todo[Loop] /\ todo'[Task] = todo[Task]
  <2>1. /\ history' = Append(history, i) /\ count' = count + 1
        /\ todo' = [todo EXCEPT ![Ghost] = <<c>> \o <<>>]
    BY <1>0 DEF Change
  <2>. HIDE DEF c, i
  <2>2. <<c>> \o <<>> = <<c>>
    BY ShortSeq
  <2>3. todo'[Ghost] = <<c>> /\ todo'[Loop] = todo[Loop] /\ todo'[Task] = todo[Task]
    BY <2>1, <2>2, KnownFacts
  <2>. QED
    BY <2>1, <2>3
<1>2. count \in Nat /\ count + 1 \in Nat /\ history \in Seq(AllItems)
  BY KnownFacts
<1>3. i \in AllItems /\ i.kind = "ghost"
  BY <1>2, NewItem DEF Kinds
<1>. HIDE DEF i
<1>4. <<i>> \in Seq(AllItems) /\ NoGhosts(<<i>>) = <<>>
  <2>1. <<>> \in Seq(AllItems) /\ Append(<<>>, i) = <<i>>
    BY ShortAppend, EmptySeq
  <2>2. NoGhosts(Append(<<>>, i)) = NoGhosts(<<>>)
    BY <1>3, <2>1, NoGhostsAppend
  <2>3. NoGhosts(<<i>>) = <<>>
    BY <2>1, <2>2, NoGhostsEmpty
  <2>4. <<i>> \in Seq(AllItems)
    BY <1>3
  <2>. QED
    BY <2>3, <2>4
<1>5. r \in RecSet
  BY <1>2, <1>4, NewRec
<1>6. NoOp(r)
  BY <1>4, RecFields DEF NoOp
<1>. HIDE DEF r
<1>7. c \in Cmds /\ c.rec = r
  BY <1>5, NewCmd
<1>. HIDE DEF c
<1>8. NoGhosts(history') = NoGhosts(history) /\ history' \in Seq(AllItems)
  BY <1>1, <1>2, <1>3, NoGhostsAppend, AppendProperties
<1>9. DataInv'
  <2>1. <<c>> \in Seq(Cmds) /\ DOMAIN <<c>> = {1} /\ <<c>>[1] = c
    BY <1>7
  <2>2. \A a \in Actors : todo'[a] \in Seq(Cmds)
    BY <1>1, <2>1, KnownFacts
  <2>3. \A k \in DOMAIN todo'[Ghost] : NoOp(todo'[Ghost][k].rec)
    BY <1>1, <1>6, <1>7, <2>1
  <2>. QED
    BY <1>0, <1>8, <2>2, <2>3, KnownFacts DEF DataInv, recorderVars, NoOp, NoGhosts
<1>10. TurnInv'
  BY <1>0, <1>1 DEF Known, ReplayInv, TurnInv, Free
<1>11. LoopInv' /\ EventInv'
  BY <1>0, <1>1, LoopSame DEF Known, ReplayInv, recorderVars
<1>12. Synced'
  <2>1. Stream' = Stream
    BY <1>0, <1>1 DEF Stream, recorderVars
  <2>2. View(Stream)' = View(Stream)
    BY <2>1 DEF View, NoGhosts
  <2>3. CASE task = "compact"
    <3>1. SUFFICES ASSUME writer = "up", lost = {}, ~cut
                   PROVE  \E n \in 0..count' :
                              NoGhosts(history') = Append(View(Stream), Item("reply", n))
      BY <1>0, <2>2, <2>3 DEF Synced, NoGhosts, recorderVars
    <3>2. PICK n \in 0..count : NoGhosts(history) = Append(View(Stream), Item("reply", n))
      BY <1>0, <2>3, <3>1 DEF Known, ReplayInv, Synced
    <3>3. n \in 0..count'
      BY <1>1, <1>2
    <3>. QED
      BY <1>8, <3>2, <3>3
  <2>4. CASE task # "compact"
    <3>1. SUFFICES ASSUME writer = "up", lost = {}, ~cut
                   PROVE  NoGhosts(history') = View(Stream)
      BY <1>0, <2>2, <2>4 DEF Synced, NoGhosts, recorderVars
    <3>2. NoGhosts(history) = View(Stream)
      BY <1>0, <2>4, <3>1, SyncedNow
    <3>. QED
      BY <1>8, <3>2
  <2>. QED
    BY <2>3, <2>4
<1>. QED
  BY <1>9, <1>10, <1>11, <1>12 DEF ReplayInv

LEMMA FlushKeeps ==
    ASSUME Known, FlushTurn
    PROVE  ReplayInv'
<1>. DEFINE d == Flush(Task)
<1>0. /\ up /\ task = "run" /\ task' = "ending" /\ Free(Task)
      /\ todo' = [todo EXCEPT ![Task] = <<d>>]
      /\ UNCHANGED <<up, event, cut, history, awaiting, recorderVars>>
  BY DEF FlushTurn
<1>1. d \in Cmds /\ d.type = "flush"
  BY KnownFacts, NewCmd
<1>. HIDE DEF d
<1>2. todo'[Task] = <<d>> /\ todo'[Loop] = todo[Loop] /\ todo'[Ghost] = todo[Ghost]
  BY <1>0, KnownFacts
<1>3. <<d>> \in Seq(Cmds) /\ DOMAIN <<d>> = {1} /\ <<d>>[1] = d
  BY <1>1
<1>4. Free(Loop) /\ event = "none"
  BY <1>0 DEF Known, ReplayInv, TurnInv
<1>5. DataInv'
  <2>1. \A a \in Actors : todo'[a] \in Seq(Cmds)
    BY <1>2, <1>3, KnownFacts
  <2>. QED
    BY <1>0, <1>2, <2>1, KnownFacts DEF DataInv, recorderVars, NoOp, NoGhosts
<1>6. TurnInv'
  <2>1. \A i \in DOMAIN todo'[Task] : todo'[Task][i].type = "flush"
    BY <1>1, <1>2, <1>3
  <2>. QED
    BY <1>0, <1>2, <1>4, <2>1 DEF TurnInv, Free
<1>7. LoopInv' /\ EventInv'
  BY <1>0, <1>2, LoopSame DEF Known, ReplayInv, recorderVars
<1>8. Synced'
  <2>0. todo[Task] = <<>> /\ todo[Loop] = <<>>
    BY <1>0, <1>4 DEF Free
  <2>1. Stream = Join(file, queue, <<>>, <<>>)
    BY <2>0, StreamIs
  <2>2. View(Join(file, queue, <<d>>, <<>>)) = View(Stream)
    BY <1>1, <2>1, JoinNew, KnownFacts
  <2>3. View(Join(file', queue', todo'[Task], todo'[Loop])) = View(Stream)
    BY <1>0, <1>2, <2>0, <2>2 DEF recorderVars
  <2>4. writer = "up" /\ lost = {} /\ ~cut => NoGhosts(history) = View(Stream)
    BY <1>0, SyncedNow
  <2>. QED
    BY <1>0, <2>3, <2>4, SyncedNext DEF recorderVars
<1>. QED
  BY <1>5, <1>6, <1>7, <1>8 DEF ReplayInv

\* The submission loop records and flushes, with no turn left.
LEMMA LoopChange ==
    ASSUME Known, up, NEW r \in RecSet, history' \in Seq(AllItems),
           Free(Loop), task' = "none", todo'[Task] = <<>>, ~awaiting'[Task],
           todo'[Loop] = <<Add(r), Flush(Loop)>>, awaiting'[Loop] = awaiting[Loop],
           todo'[Ghost] \in {todo[Ghost], <<>>}, UNCHANGED <<up, recorderVars>>,
           writer = "up" /\ lost = {} /\ ~cut' =>
               NoGhosts(history') = View(Append(Join(file, queue, <<>>, <<>>), r))
    PROVE  ReplayInv'
<1>. DEFINE c == Add(r)
            d == Flush(Loop)
<1>1. c \in Cmds /\ c.rec = r /\ c.type = "add" /\ d \in Cmds /\ IsLoopFlush(d)
  BY NewCmd, KnownFacts DEF IsLoopFlush
<1>2. todo'[Loop] = <<c, d>> /\ todo[Loop] = <<>> /\ ~awaiting[Loop]
  BY DEF Free
<1>. HIDE DEF c, d
<1>. DEFINE s == <<c, d>>
<1>3. s \in Seq(Cmds) /\ Len(s) = 2 /\ s[1] = c /\ s[2] = d
  BY <1>1
<1>. HIDE DEF s
<1>4. todo'[Loop] = s
  BY <1>2 DEF s
<1>5. DataInv'
  <2>1. \A a \in Actors : todo'[a] \in Seq(Cmds)
    BY <1>3, <1>4, KnownFacts
  <2>2. \A i \in DOMAIN todo'[Ghost] : NoOp(todo'[Ghost][i].rec)
    <3>1. DOMAIN <<>> = {}
      BY ShortSeq
    <3>. QED
      BY <3>1, KnownFacts
  <2>. QED
    BY <2>1, <2>2, KnownFacts DEF DataInv, recorderVars, NoOp, NoGhosts
<1>6. TurnInv'
  BY DEF TurnInv, Free
<1>7. \A i \in DOMAIN queue : ~IsLoopFlush(queue[i])
  BY <1>2 DEF Known, ReplayInv, LoopInv
<1>8. queue' = queue /\ file' = file /\ writer' = writer /\ lost' = lost
  BY DEF recorderVars
<1>9. LoopInv'
  <2>1. todo'[Loop] # <<>> /\ Len(todo'[Loop]) = 2
    BY <1>3, <1>4
  <2>2. IsLoopFlush(todo'[Loop][2]) /\ todo'[Loop][1].type = "add"
    BY <1>1, <1>3, <1>4
  <2>3. \A i \in 1..(Len(todo'[Loop]) - 1) : todo'[Loop][i].type = "add"
    BY <2>1, <2>2
  <2>. QED
    BY <1>2, <1>7, <1>8, <2>1, <2>2, <2>3 DEF LoopInv, IsLoopFlush
<1>10. EventInv'
  <2>1. ~Free(Loop)'
    BY <1>3, <1>4 DEF Free
  <2>. QED
    BY <1>7, <1>8, <2>1 DEF EventInv, IsLoopFlush
<1>11. Synced'
  <2>1. View(Join(file, queue, <<>>, <<c, d>>)) = View(Append(Join(file, queue, <<>>, <<>>), r))
    BY <1>1, JoinNew, KnownFacts DEF IsLoopFlush
  <2>2. View(Join(file', queue', todo'[Task], todo'[Loop]))
            = View(Append(Join(file, queue, <<>>, <<>>), r))
    BY <1>2, <1>8, <2>1
  <2>. QED
    BY <1>8, <2>2, SyncedNext
<1>. QED
  BY <1>5, <1>6, <1>9, <1>10, <1>11 DEF ReplayInv

LEMMA LoopRecords ==
    ASSUME Known, LoopIdle, task = "none", NEW h \in Seq(AllItems), NEW type, NEW body,
           Rec(type, count + 1, body) \in RecSet, Change(Loop, h, type, body, TRUE),
           UNCHANGED <<up, task, cut, awaiting, recorderVars>>,
           writer = "up" /\ lost = {} /\ ~cut =>
               NoGhosts(h) = View(Append(Stream, Rec(type, count + 1, body)))
    PROVE  ReplayInv'
<1>. DEFINE r == Rec(type, count + 1, body)
            c == Add(r)
            f == Flush(Loop)
<1>1. history' = h /\ todo' = [todo EXCEPT ![Loop] = <<c>> \o <<f>>]
  BY DEF Change
<1>2. /\ up /\ Free(Loop) /\ Free(Task) /\ todo[Loop] = <<>> /\ todo[Task] = <<>>
      /\ ~awaiting[Task]
  BY DEF LoopIdle, Known, ReplayInv, TurnInv, Free
<1>3. Stream = Join(file, queue, <<>>, <<>>)
  BY <1>2, StreamIs
<1>4. r \in RecSet
  OBVIOUS
<1>. HIDE DEF r
<1>5. todo'[Loop] = <<c, f>> /\ todo'[Task] = <<>> /\ todo'[Ghost] = todo[Ghost]
  <2>. HIDE DEF c, f
  <2>1. <<c>> \o <<f>> = <<c, f>>
    BY ShortSeq
  <2>. DEFINE s == <<c, f>>
  <2>. HIDE DEF s
  <2>2. todo' = [todo EXCEPT ![Loop] = s]
    BY <1>1, <2>1 DEF s
  <2>3. todo'[Loop] = s /\ todo'[Task] = <<>> /\ todo'[Ghost] = todo[Ghost]
    BY <1>2, <2>2, KnownFacts
  <2>. QED
    BY <2>3 DEF s
<1>6. writer = "up" /\ lost = {} /\ ~cut =>
          NoGhosts(h) = View(Append(Join(file, queue, <<>>, <<>>), r))
  BY <1>3 DEF r
<1>. QED
  BY <1>1, <1>2, <1>4, <1>5, <1>6, LoopChange

LEMMA SeedKeeps ==
    ASSUME Known, SeedInitialContext
    PROVE  ReplayInv'
<1>. DEFINE h == Append(history, Context)
<1>1. /\ LoopIdle /\ up /\ task = "none"
      /\ UNCHANGED <<up, task, cut, awaiting, recorderVars>>
      /\ Change(Loop, h, "item", <<Context>>, TRUE)
  BY DEF SeedInitialContext, Record, LoopIdle
<1>2. Context \in AllItems /\ count + 1 \in Nat /\ history \in Seq(AllItems)
  BY KnownFacts, KeptTypes
<1>3. h \in Seq(AllItems) /\ <<Context>> \in Seq(AllItems)
  BY <1>2, AppendProperties
<1>4. Rec("item", count + 1, <<Context>>) \in RecSet
  BY <1>2, <1>3, NewRec
<1>5. writer = "up" /\ lost = {} /\ ~cut =>
          NoGhosts(h) = View(Append(Stream, Rec("item", count + 1, <<Context>>)))
  BY <1>1, <1>2, KnownFacts, SyncedNow, RecordView
<1>. HIDE DEF h
<1>. QED
  BY <1>1, <1>3, <1>4, <1>5, LoopRecords

LEMMA RollbackKeeps ==
    ASSUME Known, NEW n \in 1..MaxTurns, Rollback(n)
    PROVE  ReplayInv'
<1>. DEFINE h == DropLastUserTurns(history, n)
<1>1. /\ LoopIdle /\ up /\ task = "none"
      /\ UNCHANGED <<up, task, cut, awaiting, recorderVars>>
      /\ Change(Loop, h, "rollback", <<n>>, TRUE)
  BY DEF Rollback, LoopIdle
<1>2. n \in Nat \ {0} /\ count + 1 \in Nat /\ history \in Seq(AllItems)
  BY KnownFacts, RolloutAssumption
<1>3. h \in Seq(AllItems)
  BY <1>2, DropType
<1>4. Rec("rollback", count + 1, <<n>>) \in RecSet
  BY <1>2, NewRec
<1>5. writer = "up" /\ lost = {} /\ ~cut =>
          NoGhosts(h) = View(Append(Stream, Rec("rollback", count + 1, <<n>>)))
  BY <1>1, <1>2, KnownFacts, SyncedNow, RollbackView
<1>. HIDE DEF h
<1>. QED
  BY <1>1, <1>3, <1>4, <1>5, LoopRecords

\* What is left of the stream when a turn is dropped that was not cut from its history.
LEMMA DroppedTask ==
    ASSUME Known, up, task \in {"run", "ending"}, task = "run" => todo[Task] = <<>>
    PROVE  View(Stream) = View(Join(file, queue, <<>>, <<>>))
<1>1. todo[Loop] = <<>> /\ task # "none"
  BY DEF Known, ReplayInv, TurnInv, Free
<1>2. Stream = Join(file, queue, todo[Task], <<>>) /\ todo[Task] \in Seq(Cmds)
  BY <1>1, StreamIs, KnownFacts
<1>3. CASE task = "run"
  BY <1>2, <1>3
<1>4. CASE task = "ending"
  <2>1. \A i \in DOMAIN todo[Task] : todo[Task][i].type = "flush"
    BY <1>4 DEF Known, ReplayInv, TurnInv
  <2>2. \A i \in 1..Len(todo[Task]) : todo[Task][i] \in Cmds /\ i \in DOMAIN todo[Task]
    BY <1>2, ElementOfSeq, LenProperties
  <2>3. \A i \in 1..Len(todo[Task]) : NoOp(todo[Task][i].rec)
    BY <2>1, <2>2, CmdFacts
  <2>. QED
    BY <1>2, <2>3, JoinDropTask, KnownFacts
<1>. QED
  BY <1>3, <1>4

LEMMA DropFacts ==
    ASSUME Known, NEW marker, DropTurn(marker)
    PROVE  /\ up /\ Free(Loop) /\ event = "none" /\ task # "none" /\ task' = "none"
           /\ UNCHANGED <<up, recorderVars>>
           /\ todo'[Task] = <<>> /\ todo'[Loop] = marker /\ todo'[Ghost] \in {todo[Ghost], <<>>}
           /\ ~awaiting'[Task] /\ awaiting'[Loop] = awaiting[Loop]
           /\ ~cut' => /\ ~cut /\ task \in {"run", "ending"}
                       /\ task = "run" => todo[Task] = <<>>
<1>1. /\ up /\ Free(Loop) /\ event = "none" /\ task # "none" /\ task' = "none"
      /\ UNCHANGED <<up, recorderVars>>
      /\ awaiting' = [awaiting EXCEPT ![Task] = FALSE]
      /\ cut' = (cut \/ task = "compact" \/ (task = "run" /\ todo[Task] # <<>>))
  BY DEF DropTurn, LoopIdle
<1>2. PICK g \in {todo[Ghost], <<>>} :
          todo' = [todo EXCEPT ![Task] = <<>>, ![Loop] = marker, ![Ghost] = g]
  BY DEF DropTurn
<1>3. todo'[Task] = <<>> /\ todo'[Loop] = marker /\ todo'[Ghost] = g
  BY <1>2, KnownFacts
<1>4. ~awaiting'[Task] /\ awaiting'[Loop] = awaiting[Loop]
  BY <1>1, KnownFacts
<1>5. task \in {"none", "run", "compact", "ending"}
  BY DEF Known, RolloutInv, TypeOK
<1>6. ~cut' => ~cut /\ task \in {"run", "ending"} /\ (task = "run" => todo[Task] = <<>>)
  BY <1>1, <1>5
<1>. QED
  BY <1>1, <1>2, <1>3, <1>4, <1>6

LEMMA AbortKeeps ==
    ASSUME Known, AbortTurn
    PROVE  ReplayInv'
<1>. DEFINE i == Item("aborted", count + 1)
            r == Rec("item", count + 1, <<i>>)
            marker == <<Add(r), Flush(Loop)>>
            h == Append(history, i)
            base == Join(file, queue, <<>>, <<>>)
<1>1. DropTurn(marker) /\ history' = h
  BY DEF AbortTurn
<1>2. count + 1 \in Nat /\ history \in Seq(AllItems)
  BY KnownFacts
<1>3. i \in AllItems
  BY <1>2, NewItem DEF Kinds
<1>. HIDE DEF i
<1>4. h \in Seq(AllItems) /\ <<i>> \in Seq(AllItems)
  BY <1>2, <1>3, AppendProperties
<1>5. r \in RecSet
  BY <1>2, <1>4, NewRec
<1>. HIDE DEF marker
<1>6. /\ up /\ Free(Loop) /\ event = "none" /\ task # "none" /\ task' = "none"
      /\ UNCHANGED <<up, recorderVars>>
      /\ todo'[Task] = <<>> /\ todo'[Loop] = marker /\ todo'[Ghost] \in {todo[Ghost], <<>>}
      /\ ~awaiting'[Task] /\ awaiting'[Loop] = awaiting[Loop]
      /\ ~cut' => ~cut /\ task \in {"run", "ending"} /\ (task = "run" => todo[Task] = <<>>)
  BY <1>1, DropFacts
<1>7. base \in Seq(RecSet)
  BY KnownFacts, JoinType
<1>8. writer = "up" /\ lost = {} /\ ~cut' => NoGhosts(h) = View(Append(base, r))
  <2>1. SUFFICES ASSUME writer = "up", lost = {}, ~cut' PROVE NoGhosts(h) = View(Append(base, r))
    OBVIOUS
  <2>2. ~cut /\ task \in {"run", "ending"} /\ (task = "run" => todo[Task] = <<>>)
    BY <1>6, <2>1
  <2>3. NoGhosts(history) = View(Stream)
    BY <1>6, <2>1, <2>2, SyncedNow
  <2>4. View(Stream) = View(base)
    BY <1>6, <2>2, DroppedTask
  <2>. HIDE DEF base
  <2>. QED
    BY <1>2, <1>3, <1>7, <2>3, <2>4, RecordView
<1>9. todo'[Loop] = <<Add(r), Flush(Loop)>>
  BY <1>6 DEF marker
<1>. HIDE DEF r, h
<1>. QED
  BY <1>1, <1>4, <1>5, <1>6, <1>8, <1>9, LoopChange

LEMMA ReplaceKeeps ==
    ASSUME Known, ReplaceTurn
    PROVE  ReplayInv'
<1>1. DropTurn(<<>>) /\ UNCHANGED <<history, count, event>>
  BY DEF ReplaceTurn
<1>2. /\ up /\ Free(Loop) /\ event = "none" /\ task # "none" /\ task' = "none"
      /\ UNCHANGED <<up, recorderVars>>
      /\ todo'[Task] = <<>> /\ todo'[Loop] = <<>> /\ todo'[Ghost] \in {todo[Ghost], <<>>}
      /\ ~awaiting'[Task] /\ awaiting'[Loop] = awaiting[Loop]
      /\ ~cut' => ~cut /\ task \in {"run", "ending"} /\ (task = "run" => todo[Task] = <<>>)
  BY <1>1, DropFacts
<1>3. DataInv'
  <2>1. \A a \in Actors : todo'[a] \in Seq(Cmds)
    BY <1>2, KnownFacts
  <2>2. \A i \in DOMAIN todo'[Ghost] : NoOp(todo'[Ghost][i].rec)
    <3>1. DOMAIN <<>> = {}
      BY ShortSeq
    <3>. QED
      BY <1>2, <3>1, KnownFacts
  <2>. QED
    BY <1>1, <1>2, <2>1, <2>2, KnownFacts DEF DataInv, recorderVars, NoOp, NoGhosts
<1>4. TurnInv'
  BY <1>1, <1>2 DEF TurnInv, Free
<1>5. LoopInv' /\ EventInv'
  <2>1. todo'[Loop] = todo[Loop]
    BY <1>2 DEF Free
  <2>. QED
    BY <1>1, <1>2, <2>1, LoopSame DEF Known, ReplayInv, recorderVars
<1>6. Synced'
  <2>1. SUFFICES ASSUME writer = "up", lost = {}, ~cut'
                 PROVE  NoGhosts(history) = View(Join(file, queue, <<>>, <<>>))
    BY <1>1, <1>2, SyncedNext DEF recorderVars
  <2>2. ~cut /\ task \in {"run", "ending"} /\ (task = "run" => todo[Task] = <<>>)
    BY <1>2, <2>1
  <2>3. NoGhosts(history) = View(Stream)
    BY <1>2, <2>1, <2>2, SyncedNow
  <2>4. View(Stream) = View(Join(file, queue, <<>>, <<>>))
    BY <1>2, <2>2, DroppedTask
  <2>. QED
    BY <2>3, <2>4
<1>. QED
  BY <1>3, <1>4, <1>5, <1>6 DEF ReplayInv

----------------------------------------------------------------------------
(* The recorder                                                             *)

\* The view of the stream stays what it is, and so does the history.
LEMMA SyncedKept ==
    ASSUME Known, UNCHANGED <<up, task, history, count, cut>>,
           writer' = "up" => writer = "up", lost' = {} => lost = {},
           writer' = "up" /\ lost' = {} =>
               View(Join(file', queue', todo'[Task], todo'[Loop])) = View(Stream)
    PROVE  Synced'
<1>1. Stream' = Join(file', queue', todo'[Task], todo'[Loop])
  BY DEF Stream, Join
<1>2. View(Stream)' = View(Join(file', queue', todo'[Task], todo'[Loop]))
  BY <1>1 DEF View, NoGhosts
<1>3. CASE task = "compact"
  <2>1. SUFFICES ASSUME up, writer' = "up", lost' = {}, ~cut
                 PROVE  \E n \in 0..count : NoGhosts(history) = Append(View(Stream)', Item("reply", n))
    BY <1>3 DEF Synced, NoGhosts
  <2>2. \E n \in 0..count : NoGhosts(history) = Append(View(Stream), Item("reply", n))
    BY <1>3, <2>1 DEF Known, ReplayInv, Synced
  <2>. QED
    BY <1>2, <2>1, <2>2
<1>4. CASE task # "compact"
  <2>1. SUFFICES ASSUME up, writer' = "up", lost' = {}, ~cut
                 PROVE  NoGhosts(history) = View(Stream)'
    BY <1>4 DEF Synced, NoGhosts
  <2>. QED
    BY <1>2, <1>4, <2>1, SyncedNow
<1>. QED
  BY <1>3, <1>4

\* The commands that are left when the first one is gone.
LEMMA TailCmds ==
    ASSUME NEW s \in Seq(Cmds), s # <<>>, NEW t, t = Tail(s)
    PROVE  /\ Head(s) = s[1] /\ Head(s) \in Cmds /\ 1 \in DOMAIN s
           /\ t \in Seq(Cmds) /\ Len(s) \in Nat \ {0} /\ DOMAIN s = 1..Len(s)
           /\ Len(t) = Len(s) - 1 /\ DOMAIN t = 1..(Len(s) - 1)
           /\ \A i \in 1..(Len(s) - 1) : t[i] = s[i + 1] /\ i + 1 \in DOMAIN s
<1>1. s \in Seq(Range(s))
  BY SeqRange
<1>2. /\ Len(s) \in Nat \ {0} /\ DOMAIN s = 1..Len(s)
      /\ Head(s) = s[1] /\ 1 \in DOMAIN s
      /\ Len(t) = Len(s) - 1 /\ DOMAIN t = 1..(Len(s) - 1)
      /\ \A i \in 1..(Len(s) - 1) : t[i] = s[i + 1] /\ i + 1 \in DOMAIN s
  BY <1>1, TailSeq
<1>3. Head(s) \in Cmds /\ t \in Seq(Cmds)
  BY RecsTail
<1>. QED
  BY <1>2, <1>3

\* A command is added to the channel.
LEMMA QueueAppend ==
    ASSUME NEW q \in Seq(Cmds), NEW c \in Cmds, NEW p, p = Append(q, c)
    PROVE  /\ p \in Seq(Cmds) /\ Len(q) \in Nat /\ DOMAIN q = 1..Len(q)
           /\ DOMAIN p = 1..(Len(q) + 1) /\ p[Len(q) + 1] = c
           /\ \A i \in DOMAIN q : p[i] = q[i]
           /\ \A i \in DOMAIN p : i \in DOMAIN q \/ i = Len(q) + 1
<1>1. /\ p \in Seq(Cmds) /\ Len(p) = Len(q) + 1 /\ p[Len(q) + 1] = c
      /\ \A i \in 1..Len(q) : p[i] = q[i]
  BY AppendProperties
<1>2. Len(q) \in Nat /\ DOMAIN q = 1..Len(q) /\ DOMAIN p = 1..Len(p)
  BY <1>1, LenProperties
<1>. QED
  BY <1>1, <1>2

LEMMA SendFacts ==
    ASSUME Known, NEW a \in Actors, Send(a)
    PROVE  /\ up /\ todo[a] # <<>> /\ ~awaiting[a]
           /\ todo'[a] = Tail(todo[a]) /\ \A b \in Actors \ {a} : todo'[b] = todo[b]
           /\ UNCHANGED <<up, task, event, cut, history, writer, file, lost, count>>
           /\ writer = "up" =>
                  /\ queue' = Append(queue, Head(todo[a]))
                  /\ awaiting'[a] = (Head(todo[a]).type = "flush")
                  /\ \A b \in Actors \ {a} : awaiting'[b] = awaiting[b]
           /\ writer # "up" => queue' = queue /\ awaiting' = awaiting /\ queue = <<>>
<1>1. /\ up /\ todo[a] # <<>> /\ ~awaiting[a] /\ todo' = [todo EXCEPT ![a] = Tail(todo[a])]
      /\ UNCHANGED <<up, task, event, cut, history, writer, file, lost, count>>
  BY DEF Send, sessionVars
<1>2. todo'[a] = Tail(todo[a]) /\ \A b \in Actors \ {a} : todo'[b] = todo[b]
  BY <1>1, KnownFacts
<1>3. ASSUME writer = "up"
      PROVE  /\ queue' = Append(queue, Head(todo[a]))
             /\ awaiting'[a] = (Head(todo[a]).type = "flush")
             /\ \A b \in Actors \ {a} : awaiting'[b] = awaiting[b]
  <2>1. /\ queue' = Append(queue, Head(todo[a]))
        /\ awaiting' = [awaiting EXCEPT ![a] = (Head(todo[a]).type = "flush")]
    BY <1>3 DEF Send
  <2>2. awaiting \in [Actors -> BOOLEAN]
    BY KnownFacts
  <2>. QED
    BY <2>1, <2>2
<1>4. ASSUME writer # "up" PROVE queue' = queue /\ awaiting' = awaiting /\ queue = <<>>
  <2>1. queue' = queue /\ awaiting' = awaiting
    BY <1>4 DEF Send
  <2>2. writer = "dead"
    BY <1>4 DEF Known, RolloutInv, TypeOK
  <2>. QED
    BY <2>1, <2>2 DEF Known, RolloutInv, QueueInv
<1>. QED
  BY <1>1, <1>2, <1>3, <1>4

LEMMA SendData ==
    ASSUME Known, NEW a \in Actors, Send(a)
    PROVE  DataInv'
<1>. DEFINE s == todo[a]
            t == Tail(s)
<1>1. s \in Seq(Cmds) /\ s # <<>> /\ todo'[a] = t
  BY SendFacts, KnownFacts
<1>2. /\ Head(s) \in Cmds /\ t \in Seq(Cmds) /\ DOMAIN t = 1..(Len(s) - 1)
      /\ \A i \in 1..(Len(s) - 1) : t[i] = s[i + 1] /\ i + 1 \in DOMAIN s
  BY <1>1, TailCmds
<1>3. \A b \in Actors : todo'[b] \in Seq(Cmds)
  BY <1>1, <1>2, SendFacts, KnownFacts
<1>4. queue' \in Seq(Cmds)
  <2>1. CASE writer = "up"
    BY <1>2, <2>1, SendFacts, KnownFacts, QueueAppend
  <2>2. CASE writer # "up"
    BY <2>2, SendFacts, KnownFacts
  <2>. QED
    BY <2>1, <2>2
<1>5. \A i \in DOMAIN todo'[Ghost] : NoOp(todo'[Ghost][i].rec)
  <2>1. CASE a = Ghost
    BY <1>1, <1>2, <2>1, KnownFacts
  <2>2. CASE a # Ghost
    BY <2>2, SendFacts, KnownFacts
  <2>. QED
    BY <2>1, <2>2
<1>6. history' = history /\ file' = file
  BY SendFacts
<1>. QED
  BY <1>3, <1>4, <1>5, <1>6, KnownFacts DEF DataInv, NoOp, NoGhosts

\* Who can send, and what stays free.
LEMMA SendTurns ==
    ASSUME Known, NEW a \in Actors, Send(a)
    PROVE  /\ TurnInv'
           /\ a = Loop => task = "none" /\ todo[Task] = <<>>
           /\ a = Task => task # "none" /\ task # "compact" /\ event = "none"
<1>1. ~Free(a)
  BY SendFacts DEF Free
<1>2. /\ a = Loop => task = "none" /\ todo[Task] = <<>>
      /\ a = Task => task # "none" /\ task # "compact" /\ event = "none"
  BY <1>1 DEF Known, ReplayInv, TurnInv, Free
<1>3. ASSUME NEW b \in Actors, b # a, Free(b) PROVE Free(b)'
  <2>1. todo'[b] = todo[b] /\ awaiting'[b] = awaiting[b]
    BY <1>3, SendFacts
  <2>. QED
    BY <1>3, <2>1 DEF Free
<1>4. ASSUME a = Task, task = "ending"
      PROVE  \A i \in DOMAIN todo'[Task] : todo'[Task][i].type = "flush"
  <2>. DEFINE s == todo[Task]
              t == Tail(s)
  <2>1. s \in Seq(Cmds) /\ s # <<>> /\ todo'[Task] = t
    BY <1>4, SendFacts, KnownFacts
  <2>2. \A i \in DOMAIN s : s[i].type = "flush"
    BY <1>4 DEF Known, ReplayInv, TurnInv
  <2>3. /\ DOMAIN t = 1..(Len(s) - 1)
        /\ \A i \in 1..(Len(s) - 1) : t[i] = s[i + 1] /\ i + 1 \in DOMAIN s
    BY <2>1, TailCmds
  <2>. HIDE DEF s, t
  <2>. QED
    BY <2>1, <2>2, <2>3
<1>5. a # Task => todo'[Task] = todo[Task]
  BY SendFacts, KnownFacts
<1>6. UNCHANGED <<up, task, event>> /\ up
  BY SendFacts
<1>7. /\ task = "none" => Free(Task)
      /\ task # "none" => Free(Loop) /\ event = "none"
      /\ task = "compact" => Free(Task)
      /\ task = "ending" => \A i \in DOMAIN todo[Task] : todo[Task][i].type = "flush"
  BY DEF Known, ReplayInv, TurnInv
<1>8. task = "none" => Free(Task)'
  BY <1>2, <1>3, <1>7, KnownFacts
<1>9. task # "none" => Free(Loop)'
  BY <1>2, <1>3, <1>7, KnownFacts
<1>10. task = "compact" => Free(Task)'
  BY <1>2, <1>3, <1>7, KnownFacts
<1>11. task = "ending" => \A i \in DOMAIN todo'[Task] : todo'[Task][i].type = "flush"
  BY <1>4, <1>5, <1>7
<1>12. TurnInv'
  BY <1>6, <1>7, <1>8, <1>9, <1>10, <1>11 DEF TurnInv
<1>. QED
  BY <1>2, <1>12

LEMMA SendLoop ==
    ASSUME Known, Send(Loop)
    PROVE  LoopInv' /\ EventInv'
<1>. DEFINE s == todo[Loop]
            t == Tail(s)
            c == Head(s)
<1>0. /\ s \in Seq(Cmds) /\ s # <<>> /\ todo'[Loop] = t /\ ~awaiting[Loop]
      /\ UNCHANGED <<writer, event>> /\ queue \in Seq(Cmds)
  BY SendFacts, KnownFacts
<1>1. /\ c = s[1] /\ c \in Cmds /\ Len(s) \in Nat \ {0} /\ t \in Seq(Cmds)
      /\ Len(t) = Len(s) - 1 /\ \A i \in 1..(Len(s) - 1) : t[i] = s[i + 1]
  BY <1>0, TailCmds
<1>2. /\ IsLoopFlush(s[Len(s)]) /\ \A i \in 1..(Len(s) - 1) : s[i].type = "add"
      /\ \A i \in DOMAIN queue : ~IsLoopFlush(queue[i])
  BY <1>0 DEF Known, ReplayInv, LoopInv
<1>3. t # <<>> => /\ ~(c.type = "flush") /\ Len(t) \in 1..Len(t) /\ IsLoopFlush(t[Len(t)])
                  /\ \A i \in 1..(Len(t) - 1) : t[i].type = "add"
  <2>1. SUFFICES ASSUME t # <<>>
                 PROVE  /\ ~(c.type = "flush") /\ Len(t) \in 1..Len(t) /\ IsLoopFlush(t[Len(t)])
                        /\ \A i \in 1..(Len(t) - 1) : t[i].type = "add"
    OBVIOUS
  <2>2. Len(t) # 0
    BY <1>1, <2>1, EmptySeq
  <2>. HIDE DEF s, t, c
  <2>3. Len(t) \in 1..Len(t) /\ Len(t) + 1 = Len(s) /\ 1 \in 1..(Len(s) - 1)
    BY <1>1, <2>2
  <2>4. t[Len(t)] = s[Len(s)]
    BY <1>1, <2>3
  <2>5. c.type = "add"
    BY <1>1, <1>2, <2>3
  <2>6. \A i \in 1..(Len(t) - 1) : i \in 1..(Len(s) - 1) /\ i + 1 \in 1..(Len(s) - 1)
    BY <1>1
  <2>7. \A i \in 1..(Len(t) - 1) : t[i].type = "add"
    BY <1>1, <1>2, <2>6
  <2>. QED
    BY <1>2, <2>3, <2>4, <2>5, <2>7
<1>4. t = <<>> => IsLoopFlush(c)
  <2>1. t = <<>> => Len(t) = 0
    BY EmptySeq
  <2>. HIDE DEF s, t, c
  <2>2. t = <<>> => Len(s) = 1
    BY <1>1, <2>1
  <2>. QED
    BY <1>1, <1>2, <2>2
<1>. HIDE DEF s, t
<1>5. CASE writer = "up"
  <2>1. queue' = Append(queue, c) /\ awaiting'[Loop] = (c.type = "flush")
    BY <1>5, SendFacts, KnownFacts DEF s
  <2>. HIDE DEF c
  <2>2. /\ Len(queue) \in Nat /\ DOMAIN queue = 1..Len(queue)
        /\ DOMAIN queue' = 1..(Len(queue) + 1) /\ queue'[Len(queue) + 1] = c
        /\ \A i \in DOMAIN queue : queue'[i] = queue[i]
        /\ \A i \in DOMAIN queue' : i \in DOMAIN queue \/ i = Len(queue) + 1
    BY <1>0, <1>1, <2>1, QueueAppend
  <2>3. \A i \in DOMAIN queue' : IsLoopFlush(queue'[i]) => i = Len(queue) + 1 /\ c.type = "flush"
    BY <1>2, <2>2 DEF IsLoopFlush
  <2>4. LoopInv'
    <3>1. todo'[Loop] # <<>> => /\ ~awaiting'[Loop] /\ IsLoopFlush(todo'[Loop][Len(todo'[Loop])])
                                /\ \A i \in 1..(Len(todo'[Loop]) - 1) : todo'[Loop][i].type = "add"
      BY <1>0, <1>3, <2>1
    <3>2. \A i \in DOMAIN queue' : IsLoopFlush(queue'[i]) => awaiting'[Loop]
      BY <2>1, <2>3
    <3>3. \A i, j \in DOMAIN queue' : IsLoopFlush(queue'[i]) /\ IsLoopFlush(queue'[j]) => i = j
      BY <2>3
    <3>. QED
      BY <3>1, <3>2, <3>3 DEF LoopInv, IsLoopFlush
  <2>5. EventInv'
    <3>1. ~Free(Loop)'
      <4>1. CASE t = <<>>
        BY <1>4, <2>1, <4>1 DEF Free, IsLoopFlush
      <4>2. CASE t # <<>>
        BY <1>0, <4>2 DEF Free
      <4>. QED
        BY <4>1, <4>2
    <3>2. \A i, j \in DOMAIN queue' : IsLoopFlush(queue'[i]) => ~(i < j)
      BY <2>2, <2>3
    <3>. QED
      BY <3>1, <3>2 DEF EventInv, IsLoopFlush
  <2>. QED
    BY <2>4, <2>5
<1>6. CASE writer # "up"
  <2>1. queue' = <<>> /\ awaiting' = awaiting /\ DOMAIN <<>> = {}
    BY <1>6, SendFacts, KnownFacts, ShortSeq
  <2>2. LoopInv'
    <3>1. todo'[Loop] # <<>> => /\ ~awaiting'[Loop] /\ IsLoopFlush(todo'[Loop][Len(todo'[Loop])])
                                /\ \A i \in 1..(Len(todo'[Loop]) - 1) : todo'[Loop][i].type = "add"
      BY <1>0, <1>3, <2>1
    <3>. QED
      BY <2>1, <3>1 DEF LoopInv, IsLoopFlush
  <2>3. EventInv'
    BY <1>0, <1>6 DEF EventInv
  <2>. QED
    BY <2>2, <2>3
<1>. QED
  BY <1>5, <1>6

LEMMA SendOther ==
    ASSUME Known, NEW a \in Actors, a # Loop, Send(a)
    PROVE  LoopInv' /\ EventInv'
<1>. DEFINE c == Head(todo[a])
<1>0. /\ todo[a] \in Seq(Cmds) /\ todo[a] # <<>> /\ todo'[Loop] = todo[Loop] /\ queue \in Seq(Cmds)
      /\ UNCHANGED <<writer, event>>
  BY SendFacts, KnownFacts
<1>1. c = todo[a][1] /\ c \in Cmds /\ 1 \in DOMAIN todo[a]
  BY <1>0, TailCmds
<1>2. ~IsLoopFlush(c)
  BY <1>1 DEF Known, OwnInv, IsLoopFlush
<1>3. CASE writer = "up"
  <2>1. queue' = Append(queue, c) /\ awaiting'[Loop] = awaiting[Loop]
    BY <1>3, SendFacts, KnownFacts
  <2>2. event # "none" => NoOp(c.rec)
    <3>1. SUFFICES ASSUME event # "none" PROVE NoOp(c.rec)
      OBVIOUS
    <3>2. a = Ghost
      BY <3>1, SendTurns, KnownFacts
    <3>. QED
      BY <1>1, <3>2, KnownFacts
  <2>. HIDE DEF c
  <2>3. /\ Len(queue) \in Nat /\ DOMAIN queue = 1..Len(queue)
        /\ DOMAIN queue' = 1..(Len(queue) + 1) /\ queue'[Len(queue) + 1] = c
        /\ \A i \in DOMAIN queue : queue'[i] = queue[i]
        /\ \A i \in DOMAIN queue' : i \in DOMAIN queue \/ i = Len(queue) + 1
    BY <1>0, <1>1, <2>1, QueueAppend
  <2>4. \A i \in DOMAIN queue' : IsLoopFlush(queue'[i]) => i \in DOMAIN queue /\ IsLoopFlush(queue[i])
    BY <1>2, <2>3
  <2>5. LoopInv'
    <3>1. /\ todo[Loop] # <<>> => /\ ~awaiting[Loop]
                                  /\ IsLoopFlush(todo[Loop][Len(todo[Loop])])
                                  /\ \A i \in 1..(Len(todo[Loop]) - 1) : todo[Loop][i].type = "add"
          /\ \A i \in DOMAIN queue : IsLoopFlush(queue[i]) => awaiting[Loop]
          /\ \A i, j \in DOMAIN queue : IsLoopFlush(queue[i]) /\ IsLoopFlush(queue[j]) => i = j
      BY DEF Known, ReplayInv, LoopInv
    <3>2. \A i \in DOMAIN queue' : IsLoopFlush(queue'[i]) => awaiting'[Loop]
      BY <2>1, <2>4, <3>1
    <3>3. \A i, j \in DOMAIN queue' : IsLoopFlush(queue'[i]) /\ IsLoopFlush(queue'[j]) => i = j
      BY <2>4, <3>1
    <3>. QED
      BY <1>0, <2>1, <3>1, <3>2, <3>3 DEF LoopInv, IsLoopFlush
  <2>6. EventInv'
    <3>1. SUFFICES ASSUME event # "none"
                   PROVE  /\ Free(Loop)' => \A i \in DOMAIN queue' : NoOp(queue'[i].rec)
                          /\ \A i, j \in DOMAIN queue' :
                                IsLoopFlush(queue'[i]) /\ i < j => NoOp(queue'[j].rec)
      BY <1>0 DEF EventInv, IsLoopFlush, NoOp, NoGhosts
    <3>2. /\ Free(Loop) => \A i \in DOMAIN queue : NoOp(queue[i].rec)
          /\ \A i, j \in DOMAIN queue : IsLoopFlush(queue[i]) /\ i < j => NoOp(queue[j].rec)
      BY <1>3, <3>1 DEF Known, ReplayInv, EventInv
    <3>3. Free(Loop)' = Free(Loop)
      BY <1>0, <2>1 DEF Free
    <3>4. Free(Loop)' => \A i \in DOMAIN queue' : NoOp(queue'[i].rec)
      BY <2>2, <2>3, <3>1, <3>2, <3>3
    <3>5. \A i, j \in DOMAIN queue' : IsLoopFlush(queue'[i]) /\ i < j => NoOp(queue'[j].rec)
      BY <2>2, <2>3, <2>4, <3>1, <3>2
    <3>. QED
      BY <3>4, <3>5
  <2>. QED
    BY <2>5, <2>6
<1>4. CASE writer # "up"
  BY <1>0, <1>4, SendFacts, KnownFacts, LoopSame DEF Known, ReplayInv
<1>. QED
  BY <1>3, <1>4

LEMMA SendSynced ==
    ASSUME Known, NEW a \in Actors, Send(a)
    PROVE  Synced'
<1>. DEFINE c == Head(todo[a])
<1>1. /\ UNCHANGED <<up, task, history, count, cut, writer, lost, file>>
      /\ todo[a] \in Seq(Cmds) /\ todo[a] # <<>> /\ todo'[a] = Tail(todo[a])
      /\ \A b \in Actors \ {a} : todo'[b] = todo[b]
      /\ writer = "up" => queue' = Append(queue, c)
  BY SendFacts, KnownFacts
<1>2. Stream = Join(file, queue, todo[Task], todo[Loop])
  BY StreamIs
<1>3. ASSUME writer = "up"
      PROVE  View(Join(file, Append(queue, c), todo'[Task], todo'[Loop])) = View(Stream)
  <2>1. CASE a = Task
    <3>1. todo'[Task] = Tail(todo[Task]) /\ todo'[Loop] = todo[Loop]
      BY <1>1, <2>1, KnownFacts
    <3>2. Join(file, Append(queue, c), Tail(todo[Task]), todo[Loop])
              = Join(file, queue, todo[Task], todo[Loop])
      BY <1>1, <2>1, KnownFacts, JoinSendTask
    <3>. QED
      BY <1>2, <3>1, <3>2
  <2>2. CASE a = Loop
    <3>1. todo'[Loop] = Tail(todo[Loop]) /\ todo'[Task] = <<>> /\ todo[Task] = <<>>
      BY <1>1, <2>2, KnownFacts, SendTurns
    <3>2. Join(file, Append(queue, c), <<>>, Tail(todo[Loop])) = Join(file, queue, <<>>, todo[Loop])
      BY <1>1, <2>2, KnownFacts, JoinSendLoop
    <3>. QED
      BY <1>2, <3>1, <3>2
  <2>3. CASE a = Ghost
    <3>1. todo'[Loop] = todo[Loop] /\ todo'[Task] = todo[Task]
      BY <1>1, <2>3, KnownFacts
    <3>2. c \in Cmds /\ NoOp(c.rec)
      BY <1>1, <2>3, KnownFacts, TailCmds
    <3>. HIDE DEF c
    <3>3. View(Join(file, Append(queue, c), todo[Task], todo[Loop]))
              = View(Join(file, queue, todo[Task], todo[Loop]))
      BY <3>2, KnownFacts, JoinSendNoOp
    <3>. QED
      BY <1>2, <3>1, <3>3
  <2>. QED
    BY <2>1, <2>2, <2>3, KnownFacts
<1>4. writer' = "up" /\ lost' = {} =>
          View(Join(file', queue', todo'[Task], todo'[Loop])) = View(Stream)
  BY <1>1, <1>3
<1>. QED
  BY <1>1, <1>4, SyncedKept

LEMMA SendReplays ==
    ASSUME Known, NEW a \in Actors, Send(a)
    PROVE  ReplayInv'
<1>1. LoopInv' /\ EventInv'
  BY SendLoop, SendOther
<1>. QED
  BY <1>1, SendData, SendTurns, SendSynced DEF ReplayInv

\* The file after a write, whole or torn.
LEMMA FileAfter ==
    ASSUME Known, NEW r \in RecSet
    PROVE  /\ Append(file, r) \in Seq(RecSet) /\ Append(file, Garbled) \in Seq(RecSet)
           /\ tail = "open" => [file EXCEPT ![Len(file)] = Garbled] \in Seq(RecSet)
<1>0. file \in Seq(RecSet) /\ Garbled \in RecSet
  BY KnownFacts DEF RecSet
<1>1. Append(file, r) \in Seq(RecSet) /\ Append(file, Garbled) \in Seq(RecSet)
  BY <1>0, AppendProperties
<1>2. ASSUME tail = "open" PROVE [file EXCEPT ![Len(file)] = Garbled] \in Seq(RecSet)
  <2>1. file # <<>>
    BY <1>2 DEF Known, RolloutInv, OpenInv
  <2>2. Len(file) \in 1..Len(file)
    BY <1>0, <2>1, EmptySeq, LenProperties
  <2>. QED
    BY <1>0, <2>2, ExceptSeq
<1>. QED
  BY <1>1, <1>2

\* The writer takes the first command: either a line, or a flush that it acknowledges.
LEMMA TakeKeeps ==
    ASSUME Known, up, queue # <<>>, queue' = Tail(queue), file' \in Seq(RecSet),
           UNCHANGED <<up, task, event, history, todo, writer>>,
           \A a \in Actors : awaiting'[a] => awaiting[a],
           awaiting'[Loop] = (awaiting[Loop] /\ ~IsLoopFlush(Head(queue)))
    PROVE  DataInv' /\ TurnInv' /\ LoopInv' /\ EventInv'
<1>1. queue \in Seq(Cmds) /\ \A a \in Actors : awaiting[a] \in BOOLEAN
  BY KnownFacts
<1>2. /\ Head(queue) = queue[1] /\ 1 \in DOMAIN queue
      /\ queue' \in Seq(Cmds) /\ Len(queue) \in Nat \ {0}
      /\ DOMAIN queue' = 1..(Len(queue) - 1)
      /\ \A i \in 1..(Len(queue) - 1) : queue'[i] = queue[i + 1] /\ i + 1 \in DOMAIN queue
  BY <1>1, TailCmds
<1>3. DataInv'
  BY <1>2, KnownFacts DEF DataInv, NoOp, NoGhosts
<1>4. \A a \in Actors : Free(a) => Free(a)'
  BY DEF Free
<1>5. TurnInv'
  <2>1. \A i \in DOMAIN todo[Task] : todo'[Task][i].type = todo[Task][i].type
    OBVIOUS
  <2>. QED
    BY <1>4, <2>1, KnownFacts DEF Known, ReplayInv, TurnInv
<1>6. /\ todo[Loop] # <<>> => /\ ~awaiting[Loop]
                              /\ IsLoopFlush(todo[Loop][Len(todo[Loop])])
                              /\ \A i \in 1..(Len(todo[Loop]) - 1) : todo[Loop][i].type = "add"
      /\ \A i \in DOMAIN queue : IsLoopFlush(queue[i]) => awaiting[Loop]
      /\ \A i, j \in DOMAIN queue : IsLoopFlush(queue[i]) /\ IsLoopFlush(queue[j]) => i = j
  BY DEF Known, ReplayInv, LoopInv
<1>7. ASSUME NEW i \in DOMAIN queue', IsLoopFlush(queue'[i])
      PROVE  i + 1 \in DOMAIN queue /\ IsLoopFlush(queue[i + 1]) /\ ~IsLoopFlush(Head(queue))
  <2>1. i + 1 \in DOMAIN queue /\ IsLoopFlush(queue[i + 1]) /\ i + 1 # 1
    BY <1>2, <1>7
  <2>. QED
    BY <1>2, <1>6, <2>1
<1>8. LoopInv'
  <2>1. \A i \in DOMAIN queue' : IsLoopFlush(queue'[i]) => awaiting'[Loop]
    BY <1>6, <1>7
  <2>2. ASSUME NEW i \in DOMAIN queue', NEW j \in DOMAIN queue',
               IsLoopFlush(queue'[i]), IsLoopFlush(queue'[j])
        PROVE  i = j
    <3>1. i + 1 = j + 1
      BY <1>6, <1>7, <2>2
    <3>2. i \in Nat /\ j \in Nat
      BY <1>2
    <3>. QED
      BY <3>1, <3>2
  <2>. QED
    BY <1>6, <2>1, <2>2 DEF LoopInv, IsLoopFlush
<1>9. EventInv'
  <2>1. SUFFICES ASSUME event # "none", writer = "up"
                 PROVE  /\ Free(Loop)' => \A i \in DOMAIN queue' : NoOp(queue'[i].rec)
                        /\ \A i, j \in DOMAIN queue' :
                              IsLoopFlush(queue'[i]) /\ i < j => NoOp(queue'[j].rec)
    BY DEF EventInv, IsLoopFlush, NoOp, NoGhosts
  <2>2. /\ Free(Loop) => \A i \in DOMAIN queue : NoOp(queue[i].rec)
        /\ \A i, j \in DOMAIN queue : IsLoopFlush(queue[i]) /\ i < j => NoOp(queue[j].rec)
    BY <2>1 DEF Known, ReplayInv, EventInv
  <2>3. ASSUME Free(Loop)', NEW i \in DOMAIN queue' PROVE NoOp(queue'[i].rec)
    <3>1. queue'[i] = queue[i + 1] /\ i + 1 \in DOMAIN queue /\ 1 < i + 1
      BY <1>2
    <3>2. CASE IsLoopFlush(Head(queue))
      BY <1>2, <2>2, <3>1, <3>2
    <3>3. CASE ~IsLoopFlush(Head(queue))
      <4>1. awaiting'[Loop] = awaiting[Loop]
        BY <1>1, <3>3, KnownFacts
      <4>2. Free(Loop)
        BY <2>3, <4>1 DEF Free
      <4>. QED
        BY <2>2, <3>1, <4>2
    <3>. QED
      BY <3>2, <3>3
  <2>4. ASSUME NEW i \in DOMAIN queue', NEW j \in DOMAIN queue', IsLoopFlush(queue'[i]), i < j
        PROVE  NoOp(queue'[j].rec)
    <3>1. /\ queue'[i] = queue[i + 1] /\ i + 1 \in DOMAIN queue
          /\ queue'[j] = queue[j + 1] /\ j + 1 \in DOMAIN queue /\ i + 1 < j + 1
      BY <1>2, <2>4
    <3>. QED
      BY <2>2, <2>4, <3>1
  <2>. QED
    BY <2>3, <2>4
<1>. QED
  BY <1>3, <1>5, <1>8, <1>9

LEMMA WriteReplays ==
    ASSUME Known, WriteLine
    PROVE  ReplayInv'
<1>. DEFINE r == Head(queue).rec
<1>1. /\ up /\ writer = "up" /\ queue # <<>> /\ Head(queue).type = "add" /\ queue' = Tail(queue)
      /\ UNCHANGED <<up, task, event, cut, history, todo, awaiting, writer, count>>
  BY DEF WriteLine, Writing, sessionVars
<1>2. tail \in {"line", "torn", "open"} /\ awaiting \in [Actors -> BOOLEAN]
  BY KnownFacts, Numbers DEF Known, RolloutInv
<1>3. /\ tail = "line" => file' = Append(file, r) /\ lost' = lost
      /\ tail = "torn" => file' = file /\ r.no \in lost'
      /\ tail = "open" => file' = [file EXCEPT ![Len(file)] = Garbled] /\ r.no \in lost'
  BY DEF WriteLine
<1>4. Head(queue) \in Cmds /\ r \in RecSet
  BY <1>1, KnownFacts, RecsTail, CmdFacts
<1>5. file' \in Seq(RecSet)
  BY <1>2, <1>3, <1>4, FileAfter, KnownFacts
<1>6. ~IsLoopFlush(Head(queue))
  BY <1>1 DEF IsLoopFlush
<1>7. DataInv' /\ TurnInv' /\ LoopInv' /\ EventInv'
  BY <1>1, <1>2, <1>5, <1>6, TakeKeeps, KnownFacts
<1>8. Synced'
  <2>1. ASSUME lost' = {} PROVE tail = "line" /\ lost = {}
    BY <1>2, <1>3, <2>1
  <2>2. ASSUME lost' = {}
        PROVE  View(Join(file', queue', todo'[Task], todo'[Loop])) = View(Stream)
    <3>1. file' = Append(file, r)
      BY <1>3, <2>1, <2>2
    <3>2. Join(Append(file, r), Tail(queue), todo[Task], todo[Loop])
              = Join(file, queue, todo[Task], todo[Loop])
      BY <1>1, KnownFacts, JoinWrite
    <3>. QED
      BY <1>1, <3>1, <3>2, StreamIs
  <2>. QED
    BY <1>1, <2>1, <2>2, SyncedKept
<1>. QED
  BY <1>7, <1>8 DEF ReplayInv

LEMMA AckReplays ==
    ASSUME Known, AckFlush
    PROVE  ReplayInv'
<1>. DEFINE c == Head(queue)
<1>1. /\ up /\ writer = "up" /\ queue # <<>> /\ c.type = "flush" /\ queue' = Tail(queue)
      /\ awaiting' = [awaiting EXCEPT ![c.by] = FALSE]
      /\ UNCHANGED <<up, task, event, cut, history, todo, writer, file, lost, count>>
  BY DEF AckFlush, sessionVars
<1>2. awaiting \in [Actors -> BOOLEAN] /\ file \in Seq(RecSet) /\ Loop \in Actors
  BY KnownFacts
<1>3. c \in Cmds
  BY <1>1, KnownFacts, RecsTail
<1>4. c.by \in Actors /\ NoOp(c.rec)
  BY <1>1, <1>3, CmdFacts
<1>5. /\ \A a \in Actors : awaiting'[a] => awaiting[a]
      /\ awaiting'[Loop] = (awaiting[Loop] /\ ~IsLoopFlush(c))
  <2>. HIDE DEF c
  <2>1. \A a \in Actors : awaiting'[a] = (IF a = c.by THEN FALSE ELSE awaiting[a])
    BY <1>1, <1>2, <1>4
  <2>2. IsLoopFlush(c) <=> c.by = Loop
    BY <1>1 DEF IsLoopFlush
  <2>3. \A a \in Actors : awaiting'[a] => awaiting[a]
    BY <2>1
  <2>4. CASE c.by = Loop
    BY <1>2, <2>1, <2>2, <2>4
  <2>5. CASE c.by # Loop
    BY <1>2, <2>1, <2>2, <2>5
  <2>. QED
    BY <2>3, <2>4, <2>5
<1>6. DataInv' /\ TurnInv' /\ LoopInv' /\ EventInv'
  BY <1>1, <1>2, <1>5, TakeKeeps
<1>7. Synced'
  <2>1. View(Join(file, Tail(queue), todo[Task], todo[Loop]))
            = View(Join(file, queue, todo[Task], todo[Loop]))
    BY <1>1, <1>4, KnownFacts, JoinAck
  <2>2. View(Join(file', queue', todo'[Task], todo'[Loop])) = View(Stream)
    BY <1>1, <2>1, StreamIs
  <2>. QED
    BY <1>1, <2>2, SyncedKept
<1>. QED
  BY <1>6, <1>7 DEF ReplayInv

LEMMA TornFile ==
    ASSUME Known, Writing, Torn
    PROVE  file' \in Seq(RecSet)
<1>1. Head(queue).rec \in RecSet
  BY KnownFacts, RecsTail, CmdFacts DEF Writing
<1>2. tail \in {"line", "torn", "open"}
  BY Numbers DEF Known, RolloutInv
<1>3. \/ file' = Append(file, Garbled) \/ file' = file
      \/ tail = "open" /\ file' = [file EXCEPT ![Len(file)] = Garbled]
      \/ file' = Append(file, Head(queue).rec)
  BY <1>2 DEF Torn
<1>. QED
  BY <1>1, <1>3, FileAfter, KnownFacts

\* Everything in memory is gone, or the channel only.
LEMMA Emptied ==
    ASSUME Known, history' \in Seq(AllItems), file' \in Seq(RecSet), queue' = <<>>,
           writer' = "dead", TurnInv', \A a \in Actors : ~awaiting'[a],
           \A a \in Actors : todo'[a] \in {todo[a], <<>>}
    PROVE  ReplayInv'
<1>1. DOMAIN <<>> = {} /\ <<>> \in Seq(Cmds)
  BY ShortSeq, EmptySeq
<1>2. DataInv'
  <2>1. \A a \in Actors : todo'[a] \in Seq(Cmds)
    BY <1>1, KnownFacts
  <2>2. \A i \in DOMAIN todo'[Ghost] : NoOp(todo'[Ghost][i].rec)
    BY <1>1, KnownFacts
  <2>. QED
    BY <1>1, <2>1, <2>2 DEF DataInv, NoOp, NoGhosts
<1>3. LoopInv'
  <2>1. ~awaiting'[Loop] /\ todo'[Loop] \in {todo[Loop], <<>>}
    BY KnownFacts
  <2>2. todo'[Loop] # <<>> =>
            /\ IsLoopFlush(todo'[Loop][Len(todo'[Loop])])
            /\ \A i \in 1..(Len(todo'[Loop]) - 1) : todo'[Loop][i].type = "add"
    BY <2>1 DEF Known, ReplayInv, LoopInv
  <2>. QED
    BY <1>1, <2>1, <2>2 DEF LoopInv, IsLoopFlush
<1>4. EventInv' /\ Synced'
  BY DEF EventInv, Synced
<1>. QED
  BY <1>2, <1>3, <1>4 DEF ReplayInv

LEMMA FailReplays ==
    ASSUME Known, WriteFails
    PROVE  ReplayInv'
<1>1. /\ Writing /\ Torn /\ writer' = "dead" /\ queue' = <<>>
      /\ awaiting' = [a \in Actors |-> FALSE]
      /\ UNCHANGED <<up, task, event, history, todo>>
  BY DEF WriteFails, sessionVars
<1>2. \A a \in Actors : ~awaiting'[a] /\ (Free(a) => Free(a)')
  BY <1>1 DEF Free
<1>3. TurnInv'
  <2>1. \A i \in DOMAIN todo[Task] : todo'[Task][i].type = todo[Task][i].type
    BY <1>1
  <2>. QED
    BY <1>1, <1>2, <2>1, KnownFacts DEF Known, ReplayInv, TurnInv
<1>4. file' \in Seq(RecSet)
  BY <1>1, TornFile
<1>5. history' \in Seq(AllItems) /\ \A a \in Actors : todo'[a] \in {todo[a], <<>>}
  BY <1>1, KnownFacts
<1>. QED
  BY <1>1, <1>2, <1>3, <1>4, <1>5, Emptied

LEMMA CrashReplays ==
    ASSUME Known, Crash
    PROVE  ReplayInv'
<1>1. /\ (Writing /\ Torn) \/ UNCHANGED file
      /\ up' = FALSE /\ task' = "none" /\ event' = "none" /\ history' = <<>>
      /\ todo' = [a \in Actors |-> <<>>] /\ awaiting' = [a \in Actors |-> FALSE]
      /\ queue' = <<>> /\ writer' = "dead"
  BY DEF Crash
<1>2. \A a \in Actors : ~awaiting'[a] /\ todo'[a] = <<>>
  BY <1>1
<1>3. TurnInv'
  BY <1>1, <1>2, KnownFacts DEF TurnInv, Free
<1>4. file' \in Seq(RecSet) /\ history' \in Seq(AllItems)
  BY <1>1, TornFile, KnownFacts, EmptySeq
<1>. QED
  BY <1>1, <1>2, <1>3, <1>4, Emptied

LEMMA ResumeReplays ==
    ASSUME Known, Resume
    PROVE  ReplayInv'
<1>1. /\ ~up /\ history' = Reconstruct(Parsed(file))
      /\ UNCHANGED <<task, event, cut, todo, awaiting, queue, file>>
  BY DEF Resume
<1>2. writer = "dead" /\ queue = <<>> /\ \A a \in Actors : todo[a] = <<>>
  BY <1>1 DEF Known, RolloutInv, QueueInv
<1>3. task = "none" /\ event = "none"
  BY <1>1 DEF Known, ReplayInv, TurnInv
<1>4. history' = Reconstruct(file) /\ history' \in Seq(AllItems)
  BY <1>1, KnownFacts, ParsedSame, ReconstructType
<1>5. DataInv'
  BY <1>1, <1>4, KnownFacts DEF DataInv, NoOp, NoGhosts
<1>6. TurnInv'
  BY <1>1, <1>3 DEF Known, ReplayInv, TurnInv, Free
<1>7. LoopInv' /\ EventInv'
  BY <1>1, <1>3 DEF Known, ReplayInv, LoopInv, EventInv, IsLoopFlush
<1>8. Synced'
  <2>0. Len(queue) = 0
    BY <1>2, EmptySeq
  <2>1. queue \in Seq(Cmds) /\ file \in Seq(RecSet) /\ \A i \in 1..Len(queue) : NoOp(queue[i].rec)
    BY <2>0, KnownFacts
  <2>2. View(Join(file, queue, <<>>, <<>>)) = View(file)
    BY <2>1, JoinFile
  <2>3. View(Join(file', queue', todo'[Task], todo'[Loop])) = View(file)
    BY <1>1, <1>2, <2>2, KnownFacts
  <2>4. NoGhosts(history') = View(file)
    BY <1>4 DEF View
  <2>. QED
    BY <1>1, <1>3, <2>3, <2>4, SyncedNext
<1>. QED
  BY <1>5, <1>6, <1>7, <1>8 DEF ReplayInv

----------------------------------------------------------------------------
(* The theorems                                                             *)

\* Nothing but an actor's own flushes comes to what it has to send.
LEMMA OwnKept ==
    ASSUME Known, \A a \in Actors : \/ todo'[a] = todo[a] \/ todo'[a] = <<>>
                                    \/ \E r : todo'[a] = <<Add(r)>>
                                    \/ \E r : todo'[a] = <<Add(r), Flush(a)>>
                                    \/ todo'[a] = <<Flush(a)>>
    PROVE  OwnInv'
<1>. SUFFICES ASSUME NEW a \in Actors, NEW i \in DOMAIN todo'[a], todo'[a][i].type = "flush"
              PROVE  todo'[a][i].by = a
  BY DEF OwnInv
<1>1. Flush(a).by = a /\ \A r : Add(r).type = "add"
  BY DEF Flush, Add
<1>2. CASE todo'[a] = todo[a]
  BY <1>2 DEF Known, OwnInv
<1>3. CASE todo'[a] = <<>>
  <2>1. DOMAIN todo'[a] = {}
    BY <1>3, ShortSeq
  <2>. QED
    BY <2>1
<1>4. CASE \E r : todo'[a] = <<Add(r)>>
  <2>1. PICK r : todo'[a] = <<Add(r)>>
    BY <1>4
  <2>2. DOMAIN todo'[a] = {1} /\ todo'[a][1] = Add(r)
    BY <2>1, ShortSeq
  <2>. QED
    BY <1>1, <2>2
<1>5. CASE \E r : todo'[a] = <<Add(r), Flush(a)>>
  <2>1. PICK r : todo'[a] = <<Add(r), Flush(a)>>
    BY <1>5
  <2>. DEFINE c == Add(r)
              f == Flush(a)
              s == <<c, f>>
  <2>. HIDE DEF c, f
  <2>2. DOMAIN s = {1, 2} /\ s[1] = c /\ s[2] = f
    BY ShortSeq
  <2>3. todo'[a] = s
    BY <2>1 DEF c, f
  <2>. HIDE DEF s
  <2>4. c.type = "add" /\ f.by = a
    BY <1>1 DEF c, f
  <2>. QED
    BY <2>2, <2>3, <2>4
<1>6. CASE todo'[a] = <<Flush(a)>>
  <2>1. DOMAIN todo'[a] = {1} /\ todo'[a][1] = Flush(a)
    BY <1>6, ShortSeq
  <2>. QED
    BY <1>1, <2>1
<1>. QED
  BY <1>2, <1>3, <1>4, <1>5, <1>6

LEMMA OwnChange ==
    ASSUME Known, NEW a \in Actors, NEW h, NEW type, NEW body, NEW flush \in BOOLEAN,
           Change(a, h, type, body, flush)
    PROVE  OwnInv'
<1>. DEFINE r == Rec(type, count + 1, body)
            s == <<Add(r)>> \o (IF flush THEN <<Flush(a)>> ELSE <<>>)
<1>1. todo' = [todo EXCEPT ![a] = s]
  BY DEF Change
<1>2. s = <<Add(r)>> \/ s = <<Add(r), Flush(a)>>
  <2>1. <<Add(r)>> \o <<Flush(a)>> = <<Add(r), Flush(a)>> /\ <<Add(r)>> \o <<>> = <<Add(r)>>
    BY ShortSeq
  <2>2. CASE flush
    BY <2>1, <2>2, Zenon
  <2>3. CASE ~flush
    BY <2>1, <2>3, Zenon
  <2>. QED
    BY <2>2, <2>3
<1>. HIDE DEF s, r
<1>3. todo'[a] = s /\ \A b \in Actors \ {a} : todo'[b] = todo[b]
  BY <1>1, KnownFacts
<1>4. \/ \E e : todo'[a] = <<Add(e)>>
      \/ \E e : todo'[a] = <<Add(e), Flush(a)>>
  <2>1. CASE s = <<Add(r)>>
    BY <1>3, <2>1
  <2>2. CASE s = <<Add(r), Flush(a)>>
    BY <1>3, <2>2
  <2>. QED
    BY <1>2, <2>1, <2>2
<1>. QED
  BY <1>3, <1>4, OwnKept

LEMMA OwnStep ==
    ASSUME Known, Next
    PROVE  OwnInv'
<1>0. Task \in Actors /\ Loop \in Actors /\ Ghost \in Actors
  BY KnownFacts
<1>1. CASE \/ SeedInitialContext \/ StartTurn \/ RecordReply \/ GhostSnapshot \/ CompactLocal
           \/ CompactRemote \/ \E n \in 1..MaxTurns : Rollback(n)
  <2>. USE DEF Record
  <2>1. CASE SeedInitialContext
    BY <1>0, <2>1, OwnChange DEF SeedInitialContext
  <2>2. CASE StartTurn
    BY <1>0, <2>2, OwnChange DEF StartTurn
  <2>3. CASE RecordReply
    BY <1>0, <2>3, OwnChange DEF RecordReply
  <2>4. CASE GhostSnapshot
    BY <1>0, <2>4, OwnChange DEF GhostSnapshot
  <2>5. CASE CompactLocal
    BY <1>0, <2>5, OwnChange DEF CompactLocal
  <2>6. CASE CompactRemote
    BY <1>0, <2>6, OwnChange DEF CompactRemote
  <2>7. ASSUME NEW n \in 1..MaxTurns, Rollback(n) PROVE OwnInv'
    BY <1>0, <2>7, OwnChange DEF Rollback
  <2>. QED
    BY <1>1, <2>1, <2>2, <2>3, <2>4, <2>5, <2>6, <2>7
<1>2. CASE \/ CompactReply \/ CompactFails \/ FinishTurn \/ SendEvent \/ WriteLine \/ AckFlush
           \/ WriteFails \/ Resume
  <2>1. todo' = todo
    BY <1>2 DEF CompactReply, CompactFails, FinishTurn, SendEvent, WriteLine, AckFlush,
                WriteFails, Resume
  <2>. QED
    BY <2>1 DEF Known, OwnInv
<1>3. CASE FlushTurn
  <2>1. todo' = [todo EXCEPT ![Task] = <<Flush(Task)>>]
    BY <1>3 DEF FlushTurn
  <2>2. todo'[Task] = <<Flush(Task)>> /\ todo'[Loop] = todo[Loop] /\ todo'[Ghost] = todo[Ghost]
    BY <2>1, KnownFacts
  <2>3. \A a \in Actors : todo'[a] = todo[a] \/ todo'[a] = <<Flush(a)>>
    BY <2>2, KnownFacts
  <2>. QED
    BY <2>3, OwnKept
<1>4. CASE AbortTurn
  <2>. DEFINE r == Rec("item", count + 1, <<Item("aborted", count + 1)>>)
              marker == <<Add(r), Flush(Loop)>>
  <2>1. DropTurn(marker)
    BY <1>4 DEF AbortTurn
  <2>. HIDE DEF marker
  <2>2. todo'[Task] = <<>> /\ todo'[Loop] = marker /\ todo'[Ghost] \in {todo[Ghost], <<>>}
    BY <2>1, DropFacts
  <2>3. \E e : todo'[Loop] = <<Add(e), Flush(Loop)>>
    BY <2>2 DEF marker
  <2>. QED
    BY <2>2, <2>3, OwnKept, KnownFacts
<1>5. CASE ReplaceTurn
  <2>1. DropTurn(<<>>)
    BY <1>5 DEF ReplaceTurn
  <2>2. todo'[Task] = <<>> /\ todo'[Loop] = <<>> /\ todo'[Ghost] \in {todo[Ghost], <<>>}
    BY <2>1, DropFacts
  <2>. QED
    BY <2>2, OwnKept, KnownFacts
<1>6. ASSUME NEW a \in Actors, Send(a) PROVE OwnInv'
  <2>. DEFINE s == todo[a]
              t == Tail(s)
  <2>1. s \in Seq(Cmds) /\ s # <<>> /\ todo'[a] = t /\ \A b \in Actors \ {a} : todo'[b] = todo[b]
    BY <1>6, SendFacts, KnownFacts
  <2>2. /\ DOMAIN t = 1..(Len(s) - 1)
        /\ \A i \in 1..(Len(s) - 1) : t[i] = s[i + 1] /\ i + 1 \in DOMAIN s
    BY <2>1, TailCmds
  <2>3. \A i \in DOMAIN s : s[i].type = "flush" => s[i].by = a
    BY DEF Known, OwnInv
  <2>. HIDE DEF s, t
  <2>4. \A i \in DOMAIN todo'[a] : todo'[a][i].type = "flush" => todo'[a][i].by = a
    BY <2>1, <2>2, <2>3
  <2>5. \A b \in Actors \ {a} : \A i \in DOMAIN todo'[b] :
            todo'[b][i].type = "flush" => todo'[b][i].by = b
    BY <2>1 DEF Known, OwnInv
  <2>. QED
    BY <2>4, <2>5 DEF OwnInv
<1>7. CASE Crash
  <2>1. \A a \in Actors : todo'[a] = <<>>
    BY <1>7 DEF Crash
  <2>. QED
    BY <2>1, OwnKept
<1>. QED
  BY <1>1, <1>2, <1>3, <1>4, <1>5, <1>6, <1>7 DEF Next, SessionStep, WriterStep

\* The inductive step.
LEMMA NextReplays ==
    ASSUME Known, Next
    PROVE  ReplayInv'
<1>1. CASE SessionStep
  BY <1>1, SeedKeeps, StartKeeps, ReplyKeeps, GhostKeeps, CompactReplyKeeps, CompactLocalKeeps,
     CompactFailsKeeps, CompactRemoteKeeps, FlushKeeps, FinishKeeps, AbortKeeps, ReplaceKeeps,
     SendEventKeeps, RollbackKeeps, SendReplays DEF SessionStep
<1>2. CASE WriterStep
  BY <1>2, WriteReplays, AckReplays DEF WriterStep
<1>. QED
  BY <1>1, <1>2, FailReplays, CrashReplays, ResumeReplays DEF Next

LEMMA StutterReplays ==
    ASSUME OwnInv, ReplayInv, UNCHANGED vars
    PROVE  OwnInv' /\ ReplayInv'
<1>. USE DEF vars, sessionVars, recorderVars, bounds
<1>1. OwnInv'
  BY DEF OwnInv
<1>2. DataInv'
  BY DEF ReplayInv, DataInv, NoOp, NoGhosts
<1>3. TurnInv'
  BY DEF ReplayInv, TurnInv, Free
<1>4. LoopInv'
  BY DEF ReplayInv, LoopInv, IsLoopFlush
<1>5. EventInv'
  BY DEF ReplayInv, EventInv, IsLoopFlush, NoOp, NoGhosts, Free
<1>6. Synced'
  BY DEF ReplayInv, Synced, Stream, View, NoGhosts
<1>. QED
  BY <1>1, <1>2, <1>3, <1>4, <1>5, <1>6 DEF ReplayInv

\* At the start the history is empty, and the stream is the session's first line.
LEMMA InitReplays == Init => OwnInv /\ ReplayInv
<1>. SUFFICES ASSUME Init PROVE OwnInv /\ ReplayInv
  OBVIOUS
<1>0. /\ up = TRUE /\ task = "none" /\ event = "none" /\ history = <<>> /\ file = <<>>
      /\ queue = <<Add(Meta)>> /\ awaiting = [a \in Actors |-> FALSE]
      /\ todo = [a \in Actors |-> <<>>]
  BY DEF Init
<1>1. /\ Task \in Actors /\ Loop \in Actors /\ Ghost \in Actors
      /\ \A a \in Actors : todo[a] = <<>> /\ ~awaiting[a]
  BY <1>0 DEF Actors
<1>2. DOMAIN <<>> = {} /\ <<>> \in Seq(Cmds) /\ <<>> \in Seq(AllItems) /\ <<>> \in Seq(RecSet)
  BY ShortSeq, EmptySeq
<1>3. Meta \in RecSet /\ NoOp(Meta)
  BY DEF RecSet, NoOp, Meta, Rec
<1>. DEFINE c == Add(Meta)
<1>4. c \in Cmds /\ c.rec = Meta /\ c.type = "add"
  BY <1>3, NewCmd
<1>. HIDE DEF c
<1>5. queue = <<c>> /\ queue \in Seq(Cmds) /\ DOMAIN queue = {1} /\ queue[1] = c /\ Len(queue) = 1
  <2>1. queue = <<c>>
    BY <1>0 DEF c
  <2>. QED
    BY <1>4, <2>1
<1>6. OwnInv
  BY <1>1, <1>2 DEF OwnInv
<1>7. DataInv
  BY <1>0, <1>1, <1>2, <1>5 DEF DataInv
<1>8. TurnInv
  BY <1>0, <1>1 DEF TurnInv, Free
<1>9. LoopInv /\ EventInv
  BY <1>0, <1>1, <1>4, <1>5 DEF LoopInv, EventInv, IsLoopFlush
<1>10. Synced
  <2>1. \A i \in 1..Len(queue) : NoOp(queue[i].rec)
    BY <1>3, <1>4, <1>5
  <2>2. View(Join(file, queue, <<>>, <<>>)) = View(file)
    BY <1>0, <1>2, <1>5, <2>1, JoinFile
  <2>3. View(Stream) = View(file)
    BY <1>1, <2>2, StreamIs
  <2>4. View(file) = <<>> /\ NoGhosts(history) = <<>>
    BY <1>0, ReconstructEmpty, NoGhostsEmpty DEF View
  <2>. QED
    BY <1>0, <2>3, <2>4 DEF Synced
<1>. QED
  BY <1>6, <1>7, <1>8, <1>9, <1>10 DEF ReplayInv

\* The replay of the stream of rollout items is the history at all times, for any
\* number of items, turns, torn writes and restarts and any capacity of the channel:
\* record_conversation_items, the compactions, the rollback and the abort each add to
\* the stream what replay needs, and the recorder moves it to the file in its order.
THEOREM ReplayInvariant == Spec => [](OwnInv /\ ReplayInv)
<1>1. RolloutInv /\ (OwnInv /\ ReplayInv) /\ [Next]_vars => (OwnInv /\ ReplayInv)'
  <2>. SUFFICES ASSUME RolloutInv, OwnInv, ReplayInv, [Next]_vars
                PROVE  OwnInv' /\ ReplayInv'
    OBVIOUS
  <2>1. CASE Next
    <3>1. Known
      BY DEF Known
    <3>. QED
      BY <2>1, <3>1, OwnStep, NextReplays
  <2>2. CASE UNCHANGED vars
    BY <2>2, StutterReplays
  <2>. QED
    BY <2>1, <2>2
<1>. QED
  BY <1>1, InitReplays, RolloutInvariant, PTL DEF Spec

\* When TurnAborted or SessionRolledBack reaches the client, and whenever everything is
\* written, reconstruct_history_from_rollout gives the history of the session, ghost
\* snapshots aside.
THEOREM FileGivesHistory == Spec => []ReplayMatches
<1>1. RolloutInv /\ OwnInv /\ ReplayInv => ReplayMatches
  <2>. SUFFICES ASSUME RolloutInv, OwnInv, ReplayInv,
                       up, writer = "up", lost = {}, ~cut, task # "compact",
                       \/ event # "none" /\ Free(Loop)
                       \/ queue = <<>> /\ \A a \in Actors : Free(a)
                PROVE  NoGhosts(Reconstruct(Parsed(file))) = NoGhosts(history)
    BY DEF ReplayMatches
  <2>1. Known
    BY DEF Known
  <2>2. NoGhosts(history) = View(Stream)
    BY <2>1, SyncedNow
  <2>3. file \in Seq(RecSet) /\ queue \in Seq(Cmds)
    BY <2>1, KnownFacts
  <2>4. /\ todo[Task] = <<>> /\ todo[Loop] = <<>>
        /\ \A i \in DOMAIN queue : NoOp(queue[i].rec)
    <3>1. CASE event # "none" /\ Free(Loop)
      <4>1. task = "none"
        BY <3>1 DEF ReplayInv, TurnInv
      <4>2. Free(Task)
        BY <4>1 DEF ReplayInv, TurnInv
      <4>3. \A i \in DOMAIN queue : NoOp(queue[i].rec)
        BY <3>1 DEF ReplayInv, EventInv
      <4>. QED
        BY <3>1, <4>2, <4>3 DEF Free
    <3>2. CASE queue = <<>> /\ \A a \in Actors : Free(a)
      <4>1. DOMAIN queue = {}
        BY <3>2, ShortSeq
      <4>. QED
        BY <2>1, <3>2, <4>1, KnownFacts DEF Free
    <3>. QED
      BY <3>1, <3>2
  <2>5. \A i \in 1..Len(queue) : NoOp(queue[i].rec)
    BY <2>3, <2>4, LenProperties
  <2>6. View(Join(file, queue, <<>>, <<>>)) = View(file)
    BY <2>3, <2>5, JoinFile
  <2>7. View(Stream) = View(file)
    BY <2>4, <2>6, StreamIs
  <2>8. Reconstruct(Parsed(file)) = Reconstruct(file)
    BY <2>3, ParsedSame
  <2>. QED
    BY <2>2, <2>7, <2>8 DEF View
<1>. QED
  BY <1>1, RolloutInvariant, ReplayInvariant, PTL
=============================================================================
