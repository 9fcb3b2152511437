--------------------------- MODULE CoordinatorProofs ---------------------------
(***************************************************************************)
(* Proofs about Coordinator, for every number of tasks and sessions, every *)
(* assignment of tasks to sessions and all sizes of the budgets.           *)
(***************************************************************************)
EXTENDS Coordinator, FiniteSetTheorems, SequenceTheorems, TLAPS

(***************************************************************************)
(* The inductive invariant                                                 *)
(***************************************************************************)

\* An actor that has been spawned and has not retired.
Live(a) == apc[a] \in {"loop", "recv", "acquire"}

\* A live actor is the one its session has registered; another has no work.
ActorInv ==
    /\ \A k \in Keys : inboxes[k] # None => key[inboxes[k]] = k
    /\ \A a \in Tasks :
          /\ Live(a) <=> inboxes[key[a]] = a
          /\ ~Live(a) => queue[a] = <<>> /\ running[a] = {}
          /\ apc[a] = "acquire" <=> held[a] # None
          /\ apc[a] = "recv" => running[a] = {}
          /\ pc[a] \in {"idle", "admitted"} => apc[a] = "none"

\* A task is in one place, with the actor of its own session.
TaskInv ==
    /\ \A a \in Tasks :
          /\ \A i \in 1..Len(queue[a]) : key[queue[a][i]] = key[a] /\ pc[queue[a][i]] = "queued"
          /\ \A i, j \in 1..Len(queue[a]) : queue[a][i] = queue[a][j] => i = j
          /\ held[a] # None => key[held[a]] = key[a] /\ pc[held[a]] = "held"
          /\ \A t \in running[a] : key[t] = key[a] /\ pc[t] \in {"running", "finished"}
    /\ \A t \in Tasks : pc[t] = "running" => /\ inboxes[key[t]] # None
                                             /\ t \in running[inboxes[key[t]]]

\* The waiters are actors that ask for a permit, each of them once.
WaitInv ==
    /\ \A i \in 1..Len(waiters) : apc[waiters[i]] = "acquire"
    /\ \A i, j \in 1..Len(waiters) : waiters[i] = waiters[j] => i = j

\* Permits that are out are with the tasks that count against the budget.
Admitted  == {t \in Tasks : pc[t] \in {"admitted", "queued", "held", "running"}}
Executing == {t \in Tasks : pc[t] = "running"}

BudgetInv ==
    /\ admission \in Nat /\ admission + Cardinality(Admitted) = Accepted
    /\ execution \in Nat /\ execution + Cardinality(Executing) = Executions

\* The bound of the select! in run(), with room for the task the actor holds.
SessionInv ==
    \A a \in Tasks :
        /\ Cardinality(running[a]) <= SessionExecutions
        /\ apc[a] = "acquire" => Cardinality(running[a]) < SessionExecutions

\* What was accepted was started or is in the backlog.
OrderInv == \A k \in Keys : accepted[k] = started[k] \o Backlog(k)

\* The types, without the ranges of the permits, which follow from BudgetInv.
Shape ==
    /\ key \in [Tasks -> Keys]
    /\ pc \in [Tasks -> TaskPcs]
    /\ inboxes \in [Keys -> Tasks \cup {None}]
    /\ apc \in [Tasks -> ActorPcs]
    /\ queue \in [Tasks -> Seq(Tasks)]
    /\ held \in [Tasks -> Tasks \cup {None}]
    /\ running \in [Tasks -> SUBSET Tasks]
    /\ waiters \in Seq(Tasks)
    /\ accepted \in [Keys -> Seq(Tasks)]
    /\ started \in [Keys -> Seq(Tasks)]

CoordInv ==
    /\ Shape
    /\ ActorInv
    /\ TaskInv
    /\ WaitInv
    /\ BudgetInv
    /\ SessionInv
    /\ OrderInv

(***************************************************************************)
(* Sequences                                                               *)
(***************************************************************************)

\* A task appended to a backlog is appended to all that was accepted.
LEMMA AppendToBacklog ==
    ASSUME NEW s \in Seq(Tasks), NEW h \in Seq(Tasks), NEW q \in Seq(Tasks), NEW t \in Tasks
    PROVE  Append(s \o (h \o q), t) = s \o (h \o Append(q, t))
<1>1. Append(q, t) = q \o <<t>> /\ <<t>> \in Seq(Tasks)
  BY AppendIsConcat
<1>2. h \o q \in Seq(Tasks) /\ s \o (h \o q) \in Seq(Tasks)
  BY ConcatProperties
<1>3. Append(s \o (h \o q), t) = (s \o (h \o q)) \o <<t>>
  BY <1>2, AppendIsConcat
<1>4. (s \o (h \o q)) \o <<t>> = s \o ((h \o q) \o <<t>>)
  BY <1>1, <1>2, ConcatAssociative
<1>5. (h \o q) \o <<t>> = h \o (q \o <<t>>)
  BY <1>1, ConcatAssociative
<1> QED
  BY <1>1, <1>3, <1>4, <1>5

\* The head of the backlog goes over to what is started.
LEMMA StartHead ==
    ASSUME NEW s \in Seq(Tasks), NEW q \in Seq(Tasks), NEW t \in Tasks
    PROVE  s \o (<<t>> \o q) = Append(s, t) \o (<<>> \o q)
<1>1. Append(s, t) = s \o <<t>> /\ <<t>> \in Seq(Tasks) /\ <<>> \o q = q
  BY AppendIsConcat, ConcatEmptySeq
<1> QED
  BY <1>1, ConcatAssociative

\* A sequence is its head and its tail.
LEMMA HeadAndTail ==
    ASSUME NEW q \in Seq(Tasks), q # <<>>
    PROVE  <<>> \o q = <<Head(q)>> \o Tail(q)
<1>1. Head(q) \in Tasks /\ Tail(q) \in Seq(Tasks) /\ Len(Tail(q)) = Len(q) - 1
  BY HeadTailProperties
<1>2. <<Head(q)>> \in Seq(Tasks) /\ Len(<<Head(q)>>) = 1
  BY <1>1
<1>3. <<Head(q)>> \o Tail(q) = q
  BY <1>1, <1>2, ConcatProperties, SeqEqual
<1> QED
  BY <1>3, ConcatEmptySeq

\* What comes first in a concatenation is a prefix of it.
LEMMA PrefixOfConcat ==
    ASSUME NEW s \in Seq(Tasks), NEW r \in Seq(Tasks)
    PROVE  Len(s) <= Len(s \o r) /\ s = SubSeq(s \o r, 1, Len(s))
<1>1. Len(s) \in Nat /\ Len(r) \in Nat /\ Len(s \o r) = Len(s) + Len(r)
  BY ConcatProperties
<1>2. CASE s = <<>>
  BY <1>2, SubSeqEmpty
<1>3. CASE s # <<>>
  BY <1>1, <1>3, SubSeqOfConcat1, SubSeqFull
<1> QED
  BY <1>1, <1>2, <1>3

(***************************************************************************)
(* What the steps need of the invariant                                    *)
(***************************************************************************)

\* A session has one live actor.
LEMMA OneActor ==
    ASSUME Shape, ActorInv, NEW a \in Tasks, NEW b \in Tasks, Live(a), Live(b), key[a] = key[b]
    PROVE  a = b
BY DEF ActorInv

\* Where there is work there is a live actor.
LEMMA WorkIsLive ==
    ASSUME Shape, ActorInv, NEW a \in Tasks,
           queue[a] # <<>> \/ running[a] # {} \/ held[a] # None
    PROVE  Live(a)
BY DEF ActorInv, Live

\* The backlog is a sequence of tasks.
LEMMA BacklogType ==
    ASSUME Shape, NEW a \in Tasks
    PROVE  Holding(a) \in Seq(Tasks) /\ queue[a] \in Seq(Tasks)
<1>1. held[a] # None => held[a] \in Tasks
  BY DEF Shape
<1> QED
  BY <1>1 DEF Shape, Holding

\* Counting a task in.
LEMMA CountIn ==
    ASSUME NEW S \in SUBSET Tasks, NEW t \in Tasks, t \notin S
    PROVE  Cardinality(S \cup {t}) = Cardinality(S) + 1 /\ Cardinality(S) \in Nat
BY CoordinatorAssumption, FS_Subset, FS_AddElement, FS_CardinalityType DEF CoordinatorAssumption

\* Counting a task out.
LEMMA CountOut ==
    ASSUME NEW S \in SUBSET Tasks, NEW t \in S
    PROVE  Cardinality(S \ {t}) = Cardinality(S) - 1 /\ Cardinality(S) \in Nat \ {0}
<1>1. IsFiniteSet(S)
  BY CoordinatorAssumption, FS_Subset DEF CoordinatorAssumption
<1>2. Cardinality(S) \in Nat /\ Cardinality(S) # 0
  BY <1>1, FS_CardinalityType, FS_EmptySet
<1> QED
  BY <1>1, <1>2, FS_RemoveElement

(***************************************************************************)
(* The steps                                                               *)
(***************************************************************************)

\* A step that moves a task and touches no actor.
LEMMA MoveOnly ==
    ASSUME CoordInv, NEW t \in Tasks, NEW l \in TaskPcs \ {"running"}, Move(t, l),
           pc[t] \in {"idle", "admitted", "running"}, pc[t] = "running" => l = "finished",
           l \in {"idle", "admitted"} => pc[t] \in {"idle", "admitted"},
           UNCHANGED <<key, inboxes, actorVars, history>>
    PROVE  Shape' /\ ActorInv' /\ TaskInv' /\ WaitInv' /\ SessionInv' /\ OrderInv'
<1> USE DEF CoordInv, actorVars, history
<1>1. Shape /\ pc' = [pc EXCEPT ![t] = l]
  BY DEF Move
<1>2. Shape'
  BY <1>1 DEF Shape
<1>3. pc'[t] = l /\ \A u \in Tasks \ {t} : pc'[u] = pc[u]
  BY <1>1 DEF Shape
<1>4. ActorInv'
  BY <1>3 DEF ActorInv, Live
<1>5. TaskInv'
  <2>1. \A a \in Tasks : \A i \in 1..Len(queue[a]) : queue[a][i] \in Tasks
    BY <1>1 DEF Shape
  <2>2. \A a \in Tasks : held[a] # None => held[a] \in Tasks
    BY <1>1 DEF Shape
  <2>3. \A a \in Tasks : running[a] \subseteq Tasks
    BY <1>1 DEF Shape
  <2> QED
    BY <1>3, <2>1, <2>2, <2>3 DEF TaskInv
<1>6. WaitInv' /\ SessionInv'
  BY DEF WaitInv, SessionInv
<1>7. OrderInv'
  BY DEF OrderInv, Backlog, Holding
<1> QED
  BY <1>2, <1>4, <1>5, <1>6, <1>7

\* What the budgets count after a task has moved.
LEMMA Counted ==
    ASSUME Shape, NEW t \in Tasks, NEW l \in TaskPcs, Move(t, l)
    PROVE  /\ Admitted' = IF l \in {"admitted", "queued", "held", "running"}
                            THEN Admitted \cup {t} ELSE Admitted \ {t}
           /\ Executing' = IF l = "running" THEN Executing \cup {t} ELSE Executing \ {t}
           /\ Admitted \in SUBSET Tasks /\ Executing \in SUBSET Tasks
           /\ t \in Admitted <=> pc[t] \in {"admitted", "queued", "held", "running"}
           /\ t \in Executing <=> pc[t] = "running"
<1>1. pc'[t] = l /\ \A u \in Tasks \ {t} : pc'[u] = pc[u]
  BY DEF Shape, Move
<1> QED
  BY <1>1 DEF Admitted, Executing

\* A task that stays within the budgets keeps the counts.
LEMMA BudgetKept ==
    ASSUME CoordInv, NEW t \in Tasks, NEW l \in {"admitted", "queued", "held"}, Move(t, l),
           pc[t] \in {"admitted", "queued", "held"}, UNCHANGED permits
    PROVE  BudgetInv'
<1>1. l \in TaskPcs /\ Shape
  BY DEF TaskPcs, CoordInv
<1>2. Admitted' = Admitted /\ Executing' = Executing
  BY <1>1, Counted
<1> QED
  BY <1>2 DEF CoordInv, BudgetInv, permits

\* A task takes an admission permit.
LEMMA AdmitStep == ASSUME CoordInv, NEW t \in Tasks, Admit(t) PROVE CoordInv'
<1>1. /\ Move(t, "admitted") /\ pc[t] = "idle" /\ "admitted" \in TaskPcs \ {"running"}
      /\ Shape /\ UNCHANGED <<key, inboxes, actorVars, history>>
  BY DEF Admit, TaskPcs, CoordInv
<1>2. Shape' /\ ActorInv' /\ TaskInv' /\ WaitInv' /\ SessionInv' /\ OrderInv'
  BY <1>1, MoveOnly
<1>3. /\ Admitted' = Admitted \cup {t} /\ t \notin Admitted /\ Admitted \in SUBSET Tasks
      /\ Executing' = Executing
  BY <1>1, Counted
<1>4. BudgetInv'
  BY <1>3, CountIn DEF CoordInv, BudgetInv, Admit
<1> QED
  BY <1>2, <1>4 DEF CoordInv

\* A refused task gives its permit back.
LEMMA RefuseStep == ASSUME CoordInv, NEW t \in Tasks, Refuse(t) PROVE CoordInv'
<1>1. /\ Move(t, "idle") /\ pc[t] = "admitted" /\ "idle" \in TaskPcs \ {"running"}
      /\ Shape /\ UNCHANGED <<key, inboxes, actorVars, history>>
      /\ admission' = admission + 1 /\ UNCHANGED execution
  BY DEF Refuse, TaskPcs, CoordInv
<1>2. Shape' /\ ActorInv' /\ TaskInv' /\ WaitInv' /\ SessionInv' /\ OrderInv'
  BY <1>1, MoveOnly
<1>3. /\ Admitted' = Admitted \ {t} /\ t \in Admitted /\ Admitted \in SUBSET Tasks
      /\ Executing' = Executing
  BY <1>1, Counted
<1>4. BudgetInv'
  BY <1>1, <1>3, CountOut DEF CoordInv, BudgetInv
<1> QED
  BY <1>2, <1>4 DEF CoordInv

\* An execution ends, and both its permits are free.
LEMMA FinishStep == ASSUME CoordInv, NEW t \in Tasks, Finish(t) PROVE CoordInv'
<1>1. /\ Move(t, "finished") /\ pc[t] = "running" /\ "finished" \in TaskPcs \ {"running"}
      /\ Shape /\ UNCHANGED <<key, inboxes, actorVars, history>>
      /\ admission' = admission + 1 /\ execution' = execution + 1
  BY DEF Finish, TaskPcs, CoordInv
<1>2. Shape' /\ ActorInv' /\ TaskInv' /\ WaitInv' /\ SessionInv' /\ OrderInv'
  BY <1>1, MoveOnly
<1>3. /\ Admitted' = Admitted \ {t} /\ t \in Admitted /\ Admitted \in SUBSET Tasks
      /\ Executing' = Executing \ {t} /\ t \in Executing /\ Executing \in SUBSET Tasks
  BY <1>1, Counted
<1>4. BudgetInv'
  <2>1. Cardinality(Admitted') = Cardinality(Admitted) - 1 /\ Cardinality(Admitted) \in Nat \ {0}
    BY <1>3, CountOut
  <2>2. Cardinality(Executing') = Cardinality(Executing) - 1 /\ Cardinality(Executing) \in Nat \ {0}
    BY <1>3, CountOut
  <2> QED
    BY <1>1, <2>1, <2>2 DEF CoordInv, BudgetInv
<1> QED
  BY <1>2, <1>4 DEF CoordInv

\* What a task that is moved is not: another place of another task.
LEMMA Places ==
    ASSUME Shape
    PROVE  /\ \A a \in Tasks : queue[a] \in Seq(Tasks) /\ Len(queue[a]) \in Nat
           /\ \A a \in Tasks : \A i \in 1..Len(queue[a]) : queue[a][i] \in Tasks
           /\ \A a \in Tasks : held[a] # None => held[a] \in Tasks
           /\ \A a \in Tasks : running[a] \in SUBSET Tasks
           /\ \A t \in Tasks : key[t] \in Keys
           /\ \A k \in Keys : inboxes[k] # None => inboxes[k] \in Tasks
           /\ \A i \in 1..Len(waiters) : waiters[i] \in Tasks
           /\ waiters \in Seq(Tasks) /\ None \notin Tasks
BY CoordinatorAssumption DEF Shape, CoordinatorAssumption

\* A task goes to the end of the channel of the registered actor.
LEMMA EnqueueStep == ASSUME CoordInv, NEW t \in Tasks, Enqueue(t) PROVE CoordInv'
<1> DEFINE a == inboxes[key[t]]
<1>1. /\ Shape /\ ActorInv /\ TaskInv
      /\ pc[t] = "admitted" /\ pc' = [pc EXCEPT ![t] = "queued"] /\ Move(t, "queued")
      /\ queue' = [queue EXCEPT ![a] = Append(queue[a], t)]
      /\ accepted' = [accepted EXCEPT ![key[t]] = Append(accepted[key[t]], t)]
      /\ UNCHANGED <<key, inboxes, apc, held, running, waiters, permits, started>>
      /\ a # None
  BY DEF Enqueue, Move, CoordInv
<1>2. a \in Tasks /\ key[a] = key[t] /\ Live(a) /\ key[t] \in Keys
  BY <1>1, Places DEF ActorInv
<1>3. /\ Append(queue[a], t) \in Seq(Tasks) /\ Len(Append(queue[a], t)) = Len(queue[a]) + 1
      /\ \A i \in 1..Len(queue[a]) : Append(queue[a], t)[i] = queue[a][i]
      /\ Append(queue[a], t)[Len(queue[a]) + 1] = t
  BY <1>1, <1>2, Places, AppendProperties
<1>4. Shape'
  <2>1. queue' \in [Tasks -> Seq(Tasks)]
    BY <1>1, <1>3 DEF Shape
  <2>2. accepted' \in [Keys -> Seq(Tasks)]
    BY <1>1 DEF Shape
  <2>3. pc' \in [Tasks -> TaskPcs]
    BY <1>1 DEF Shape, TaskPcs
  <2> QED
    BY <1>1, <2>1, <2>2, <2>3 DEF Shape
<1>5. /\ queue'[a] = Append(queue[a], t) /\ \A b \in Tasks \ {a} : queue'[b] = queue[b]
      /\ pc'[t] = "queued" /\ \A u \in Tasks \ {t} : pc'[u] = pc[u]
  BY <1>1, <1>2 DEF Shape
<1>6. ActorInv'
  BY <1>1, <1>2, <1>5 DEF ActorInv, Live
<1>7. TaskInv'
  <2>1. \A b \in Tasks : \A i \in 1..Len(queue[b]) : queue[b][i] # t
    BY <1>1 DEF TaskInv
  <2>2. \A b \in Tasks \ {a} :
          /\ \A i \in 1..Len(queue'[b]) : key[queue'[b][i]] = key[b] /\ pc'[queue'[b][i]] = "queued"
          /\ \A i, j \in 1..Len(queue'[b]) : queue'[b][i] = queue'[b][j] => i = j
    BY <1>1, <1>5, <2>1, Places DEF TaskInv
  <2>3. \A i \in 1..Len(queue'[a]) : key[queue'[a][i]] = key[a] /\ pc'[queue'[a][i]] = "queued"
    <3> TAKE i \in 1..Len(queue'[a])
    <3>1. i \in 1..Len(queue[a]) \/ i = Len(queue[a]) + 1
      BY <1>2, <1>3, <1>5, <1>1, Places
    <3> QED
      BY <1>1, <1>2, <1>3, <1>5, <2>1, <3>1, Places DEF TaskInv
  <2>4. \A i, j \in 1..Len(queue'[a]) : queue'[a][i] = queue'[a][j] => i = j
    <3> TAKE i, j \in 1..Len(queue'[a])
    <3>1. /\ i \in 1..Len(queue[a]) \/ i = Len(queue[a]) + 1
          /\ j \in 1..Len(queue[a]) \/ j = Len(queue[a]) + 1
      BY <1>2, <1>3, <1>5, <1>1, Places
    <3> QED
      BY <1>1, <1>2, <1>3, <1>5, <2>1, <3>1, Places DEF TaskInv
  <2>5. \A b \in Tasks : /\ held[b] # None => key[held[b]] = key[b] /\ pc'[held[b]] = "held"
                         /\ \A u \in running[b] : key[u] = key[b] /\ pc'[u] \in {"running", "finished"}
    BY <1>1, <1>5, Places DEF TaskInv
  <2>6. \A u \in Tasks : pc'[u] = "running" => inboxes[key[u]] # None /\ u \in running[inboxes[key[u]]]
    BY <1>1, <1>5 DEF TaskInv
  <2> QED
    BY <1>1, <2>2, <2>3, <2>4, <2>5, <2>6 DEF TaskInv
<1>8. WaitInv' /\ SessionInv'
  BY <1>1 DEF CoordInv, WaitInv, SessionInv
<1>9. BudgetInv'
  BY <1>1, BudgetKept
<1>10. OrderInv'
  <2> SUFFICES ASSUME NEW k \in Keys PROVE accepted'[k] = started[k] \o Backlog(k)'
    BY <1>1 DEF OrderInv
  <2>1. accepted[k] = started[k] \o Backlog(k)
    BY DEF CoordInv, OrderInv
  <2>2. CASE k = key[t]
    <3>1. Backlog(k) = Holding(a) \o queue[a] /\ Backlog(k)' = Holding(a) \o Append(queue[a], t)
      BY <1>1, <1>5, <2>2 DEF Backlog, Holding
    <3>2. accepted'[k] = Append(started[k] \o (Holding(a) \o queue[a]), t)
      BY <1>1, <2>1, <2>2, <3>1 DEF Shape
    <3>3. started[k] \in Seq(Tasks) /\ Holding(a) \in Seq(Tasks) /\ queue[a] \in Seq(Tasks)
      BY <1>1, <1>2, BacklogType DEF Shape
    <3>4. Append(started[k] \o (Holding(a) \o queue[a]), t)
             = started[k] \o (Holding(a) \o Append(queue[a], t))
      BY <3>3, AppendToBacklog, Zenon
    <3> QED
      BY <3>1, <3>2, <3>4, Zenon
  <2>3. CASE k # key[t]
    <3>1. Backlog(k)' = Backlog(k)
      <4>1. inboxes[k] # None => inboxes[k] \in Tasks /\ inboxes[k] # a
        BY <1>1, <1>2, <2>3, Places DEF ActorInv
      <4> QED
        BY <1>1, <1>5, <4>1 DEF Backlog, Holding
    <3> QED
      BY <1>1, <2>1, <2>3, <3>1 DEF Shape
  <2> QED
    BY <2>2, <2>3
<1> QED
  BY <1>4, <1>6, <1>7, <1>8, <1>9, <1>10 DEF CoordInv

\* A session without an actor gets one, whose channel has the task.
LEMMA SpawnStep == ASSUME CoordInv, NEW t \in Tasks, Spawn(t) PROVE CoordInv'
<1>1. /\ Shape /\ ActorInv /\ TaskInv
      /\ pc[t] = "admitted" /\ pc' = [pc EXCEPT ![t] = "queued"] /\ Move(t, "queued")
      /\ inboxes[key[t]] = None
      /\ inboxes' = [inboxes EXCEPT ![key[t]] = t]
      /\ apc' = [apc EXCEPT ![t] = "loop"]
      /\ queue' = [queue EXCEPT ![t] = <<t>>]
      /\ accepted' = [accepted EXCEPT ![key[t]] = Append(accepted[key[t]], t)]
      /\ UNCHANGED <<key, held, running, waiters, permits, started>>
  BY DEF Spawn, Move, CoordInv
<1>2. key[t] \in Keys /\ None \notin Tasks
  BY <1>1, Places
<1>3. apc[t] = "none" /\ held[t] = None /\ queue[t] = <<>> /\ running[t] = {}
  BY <1>1 DEF ActorInv, Live
<1>4. <<t>> \in Seq(Tasks) /\ Len(<<t>>) = 1 /\ <<t>>[1] = t
  OBVIOUS
<1>5. Shape'
  <2>1. queue' \in [Tasks -> Seq(Tasks)]
    BY <1>1, <1>4 DEF Shape
  <2>2. accepted' \in [Keys -> Seq(Tasks)]
    BY <1>1 DEF Shape
  <2>3. pc' \in [Tasks -> TaskPcs] /\ apc' \in [Tasks -> ActorPcs]
    BY <1>1 DEF Shape, TaskPcs, ActorPcs
  <2>4. inboxes' \in [Keys -> Tasks \cup {None}]
    BY <1>1 DEF Shape
  <2> QED
    BY <1>1, <2>1, <2>2, <2>3, <2>4 DEF Shape
<1>6. /\ queue'[t] = <<t>> /\ \A b \in Tasks \ {t} : queue'[b] = queue[b]
      /\ apc'[t] = "loop" /\ \A b \in Tasks \ {t} : apc'[b] = apc[b]
      /\ pc'[t] = "queued" /\ \A u \in Tasks \ {t} : pc'[u] = pc[u]
  BY <1>1 DEF Shape
<1>7. inboxes'[key[t]] = t /\ \A k \in Keys \ {key[t]} : inboxes'[k] = inboxes[k]
  BY <1>1, <1>2 DEF Shape
<1>8. ActorInv'
  <2>1. \A k \in Keys : inboxes'[k] # None => key[inboxes'[k]] = k
    BY <1>1, <1>7 DEF ActorInv
  <2>2. \A a \in Tasks : Live(a)' <=> inboxes'[key[a]] = a
    <3> TAKE a \in Tasks
    <3>1. CASE a = t
      BY <1>6, <1>7, <3>1 DEF Live
    <3>2. CASE a # t
      <4>1. Live(a)' <=> Live(a)
        BY <1>6, <3>2 DEF Live
      <4>2. Live(a) <=> inboxes[key[a]] = a
        BY <1>1 DEF ActorInv
      <4>3. key[a] \in Keys
        BY <1>1, Places
      <4>4. CASE key[a] = key[t]
        BY <1>1, <1>2, <1>7, <3>2, <4>1, <4>2, <4>4
      <4>5. CASE key[a] # key[t]
        BY <1>7, <4>1, <4>2, <4>3, <4>5
      <4> QED
        BY <4>4, <4>5
    <3> QED
      BY <3>1, <3>2
  <2>3. \A a \in Tasks :
          /\ ~(Live(a)') => queue'[a] = <<>> /\ running'[a] = {}
          /\ apc'[a] = "acquire" <=> held'[a] # None
          /\ apc'[a] = "recv" => running'[a] = {}
          /\ pc'[a] \in {"idle", "admitted"} => apc'[a] = "none"
    <3> TAKE a \in Tasks
    <3>1. CASE a = t
      BY <1>1, <1>3, <1>6, <3>1 DEF Live
    <3>2. CASE a # t
      BY <1>1, <1>6, <3>2 DEF Live, ActorInv
    <3> QED
      BY <3>1, <3>2
  <2> QED
    BY <1>1, <2>1, <2>2, <2>3 DEF ActorInv
<1>9. TaskInv'
  <2>1. \A b \in Tasks \ {t} :
          /\ \A i \in 1..Len(queue'[b]) : key[queue'[b][i]] = key[b] /\ pc'[queue'[b][i]] = "queued"
          /\ \A i, j \in 1..Len(queue'[b]) : queue'[b][i] = queue'[b][j] => i = j
    BY <1>1, <1>6, Places DEF TaskInv
  <2>2. /\ \A i \in 1..Len(queue'[t]) : key[queue'[t][i]] = key[t] /\ pc'[queue'[t][i]] = "queued"
        /\ \A i, j \in 1..Len(queue'[t]) : queue'[t][i] = queue'[t][j] => i = j
    BY <1>4, <1>6
  <2>3. \A b \in Tasks : /\ held[b] # None => key[held[b]] = key[b] /\ pc'[held[b]] = "held"
                         /\ \A u \in running[b] : key[u] = key[b] /\ pc'[u] \in {"running", "finished"}
    BY <1>1, <1>6, Places DEF TaskInv
  <2>4. \A u \in Tasks : pc'[u] = "running" => inboxes'[key[u]] # None /\ u \in running[inboxes'[key[u]]]
    <3> SUFFICES ASSUME NEW u \in Tasks, pc'[u] = "running"
                 PROVE  inboxes'[key[u]] # None /\ u \in running[inboxes'[key[u]]]
      OBVIOUS
    <3>1. inboxes[key[u]] # None /\ u \in running[inboxes[key[u]]] /\ key[u] \in Keys
      BY <1>1, <1>6, Places DEF TaskInv
    <3> QED
      BY <1>1, <1>7, <3>1
  <2> QED
    BY <1>1, <2>1, <2>2, <2>3, <2>4 DEF TaskInv
<1>10. WaitInv' /\ SessionInv'
  <2>1. WaitInv'
    BY <1>1, <1>3, <1>6, Places DEF CoordInv, WaitInv
  <2>2. SessionInv'
    BY <1>1, <1>6 DEF CoordInv, SessionInv
  <2> QED
    BY <2>1, <2>2
<1>11. BudgetInv'
  BY <1>1, BudgetKept
<1>12. OrderInv'
  <2> SUFFICES ASSUME NEW k \in Keys PROVE accepted'[k] = started[k] \o Backlog(k)'
    BY <1>1 DEF OrderInv
  <2>1. accepted[k] = started[k] \o Backlog(k) /\ started[k] \in Seq(Tasks)
    BY <1>1 DEF CoordInv, OrderInv, Shape
  <2>2. CASE k = key[t]
    <3>1. Backlog(k) = <<>> /\ Backlog(k)' = <<>> \o <<t>>
      <4>1. inboxes[k] = None /\ inboxes'[k] = t /\ t # None
        BY <1>1, <1>2, <1>7, <2>2
      <4>2. held'[t] = None /\ queue'[t] = <<t>>
        BY <1>1, <1>3, <1>6
      <4> QED
        BY <4>1, <4>2, Zenon DEF Backlog, Holding
    <3>2. Backlog(k)' = <<t>> /\ accepted[k] = started[k]
      BY <1>4, <2>1, <3>1, ConcatEmptySeq
    <3>3. accepted'[k] = Append(started[k], t)
      BY <1>1, <2>2, <3>2 DEF Shape
    <3> QED
      BY <2>1, <3>2, <3>3, AppendIsConcat
  <2>3. CASE k # key[t]
    <3>1. Backlog(k)' = Backlog(k)
      <4>1. inboxes[k] # None => inboxes[k] \in Tasks /\ inboxes[k] # t
        BY <1>1, <2>3, Places DEF ActorInv
      <4> QED
        BY <1>1, <1>6, <1>7, <2>3, <4>1 DEF Backlog, Holding
    <3> QED
      BY <1>1, <2>1, <2>3, <3>1 DEF Shape
  <2> QED
    BY <2>2, <2>3
<1> QED
  BY <1>5, <1>8, <1>9, <1>10, <1>11, <1>12 DEF CoordInv

\* An idle actor unregisters only with an empty channel: there is no work it could leave.
LEMMA RetireStep == ASSUME CoordInv, NEW a \in Tasks, RetireIfIdle(a) PROVE CoordInv'
<1>1. /\ Shape /\ ActorInv /\ TaskInv /\ WaitInv /\ SessionInv /\ OrderInv
      /\ apc[a] = "loop" /\ running[a] = {}
      /\ UNCHANGED <<key, pc, queue, held, running, waiters, permits, accepted, started>>
  BY DEF CoordInv, RetireIfIdle, taskVars, history
<1>2. inboxes[key[a]] = a /\ held[a] = None /\ key[a] \in Keys /\ None \notin Tasks
  BY <1>1, Places DEF ActorInv, Live
<1>3. BudgetInv'
  BY <1>1 DEF CoordInv, BudgetInv, permits, Admitted, Executing
<1>4. CASE queue[a] # <<>>
  <2>1. apc' = [apc EXCEPT ![a] = "recv"] /\ UNCHANGED inboxes
    BY <1>4 DEF RetireIfIdle
  <2>2. Shape' /\ apc'[a] = "recv" /\ \A b \in Tasks \ {a} : apc'[b] = apc[b]
    BY <1>1, <2>1 DEF Shape, ActorPcs
  <2>3. pc[a] \notin {"idle", "admitted"}
    BY <1>1 DEF ActorInv
  <2>4. ActorInv'
    BY <1>1, <1>2, <2>1, <2>2, <2>3 DEF ActorInv, Live
  <2>5. TaskInv' /\ OrderInv'
    <3>1. TaskInv'
      BY <1>1, <2>1 DEF TaskInv
    <3>2. OrderInv'
      BY <1>1, <2>1 DEF OrderInv, Backlog, Holding
    <3> QED
      BY <3>1, <3>2
  <2>6. WaitInv'
    BY <1>1, <2>2, Places DEF WaitInv
  <2>7. SessionInv'
    BY <1>1, <2>2 DEF SessionInv
  <2> QED
    BY <1>3, <2>2, <2>4, <2>5, <2>6, <2>7 DEF CoordInv
<1>5. CASE queue[a] = <<>>
  <2>1. apc' = [apc EXCEPT ![a] = "over"] /\ inboxes' = [inboxes EXCEPT ![key[a]] = None]
    BY <1>2, <1>5 DEF RetireIfIdle
  <2>2. Shape' /\ apc'[a] = "over" /\ \A b \in Tasks \ {a} : apc'[b] = apc[b]
    BY <1>1, <2>1 DEF Shape, ActorPcs
  <2>3. inboxes'[key[a]] = None /\ \A k \in Keys \ {key[a]} : inboxes'[k] = inboxes[k]
    BY <1>1, <1>2, <2>1 DEF Shape
  <2>4. ActorInv'
    <3>1. \A k \in Keys : inboxes'[k] # None => key[inboxes'[k]] = k
      BY <1>1, <2>3 DEF ActorInv
    <3>2. \A b \in Tasks : Live(b)' <=> inboxes'[key[b]] = b
      <4> TAKE b \in Tasks
      <4>1. CASE b = a
        BY <1>2, <2>2, <2>3, <4>1 DEF Live
      <4>2. CASE b # a
        <5>1. Live(b)' <=> Live(b)
          BY <2>2, <4>2 DEF Live
        <5>2. Live(b) <=> inboxes[key[b]] = b
          BY <1>1 DEF ActorInv
        <5>3. key[b] \in Keys
          BY <1>1, Places
        <5>4. CASE key[b] = key[a]
          BY <1>2, <2>3, <4>2, <5>1, <5>2, <5>4
        <5>5. CASE key[b] # key[a]
          BY <2>3, <5>1, <5>2, <5>3, <5>5
        <5> QED
          BY <5>4, <5>5
      <4> QED
        BY <4>1, <4>2
    <3>3. \A b \in Tasks :
            /\ ~(Live(b)') => queue'[b] = <<>> /\ running'[b] = {}
            /\ apc'[b] = "acquire" <=> held'[b] # None
            /\ apc'[b] = "recv" => running'[b] = {}
            /\ pc'[b] \in {"idle", "admitted"} => apc'[b] = "none"
      <4> TAKE b \in Tasks
      <4>1. CASE b = a
        BY <1>1, <1>2, <1>5, <2>2, <4>1 DEF Live, ActorInv
      <4>2. CASE b # a
        BY <1>1, <2>2, <4>2 DEF Live, ActorInv
      <4> QED
        BY <4>1, <4>2
    <3> QED
      BY <1>1, <3>1, <3>2, <3>3 DEF ActorInv
  <2>5. TaskInv'
    <3>1. \A u \in Tasks : pc[u] = "running" => inboxes'[key[u]] # None /\ u \in running[inboxes'[key[u]]]
      <4> SUFFICES ASSUME NEW u \in Tasks, pc[u] = "running"
                   PROVE  inboxes'[key[u]] # None /\ u \in running[inboxes'[key[u]]]
        OBVIOUS
      <4>1. inboxes[key[u]] # None /\ u \in running[inboxes[key[u]]] /\ key[u] \in Keys
        BY <1>1, Places DEF TaskInv
      <4>2. key[u] # key[a]
        BY <1>1, <1>2, <4>1
      <4> QED
        BY <2>3, <4>1, <4>2
    <3> QED
      BY <1>1, <3>1 DEF TaskInv
  <2>6. WaitInv'
    BY <1>1, <2>2, Places DEF WaitInv
  <2>7. SessionInv'
    BY <1>1, <2>2 DEF SessionInv
  <2>8. OrderInv'
    <3> SUFFICES ASSUME NEW k \in Keys PROVE Backlog(k)' = Backlog(k)
      BY <1>1 DEF OrderInv
    <3>1. CASE k = key[a]
      <4>1. Backlog(k)' = <<>>
        BY <2>3, <3>1 DEF Backlog
      <4>2. inboxes[k] = a /\ a # None
        BY <1>2, <3>1
      <4>3. Backlog(k) = <<>> \o <<>>
        BY <1>2, <1>5, <4>2, Zenon DEF Backlog, Holding
      <4> QED
        BY <4>1, <4>3
    <3>2. CASE k # key[a]
      BY <1>1, <2>3, <3>2 DEF Backlog, Holding
    <3> QED
      BY <3>1, <3>2
  <2> QED
    BY <1>3, <2>2, <2>4, <2>5, <2>6, <2>7, <2>8 DEF CoordInv
<1> QED
  BY <1>4, <1>5

\* A finished execution is joined by the one actor whose it is.
LEMMA JoinStep == ASSUME CoordInv, NEW a \in Tasks, NEW t \in Tasks, JoinNext(a, t) PROVE CoordInv'
<1>1. /\ Shape /\ ActorInv /\ TaskInv /\ WaitInv /\ SessionInv /\ OrderInv
      /\ apc[a] = "loop" /\ t \in running[a] /\ pc[t] = "finished"
      /\ running' = [running EXCEPT ![a] = running[a] \ {t}]
      /\ pc' = [pc EXCEPT ![t] = "joined"] /\ Move(t, "joined") /\ "joined" \in TaskPcs
      /\ UNCHANGED <<key, inboxes, apc, queue, held, waiters, permits, accepted, started>>
  BY DEF CoordInv, JoinNext, Move, history, TaskPcs
<1>2. /\ Shape' /\ pc'[t] = "joined" /\ \A u \in Tasks \ {t} : pc'[u] = pc[u]
      /\ running'[a] = running[a] \ {t} /\ \A b \in Tasks \ {a} : running'[b] = running[b]
  BY <1>1 DEF Shape, TaskPcs
<1>3. ActorInv'
  BY <1>1, <1>2 DEF ActorInv, Live
<1>4. \A b \in Tasks \ {a} : t \notin running[b]
  <2> SUFFICES ASSUME NEW b \in Tasks \ {a}, t \in running[b] PROVE FALSE
    OBVIOUS
  <2>1. key[b] = key[a]
    BY <1>1 DEF TaskInv
  <2>2. Live(a) /\ Live(b)
    BY <1>1, WorkIsLive
  <2> QED
    BY <1>1, <2>1, <2>2, OneActor
<1>5. TaskInv'
  BY <1>1, <1>2, <1>4, Places DEF TaskInv
<1>6. WaitInv' /\ OrderInv'
  BY <1>1 DEF WaitInv, OrderInv, Backlog, Holding
<1>7. BudgetInv'
  BY <1>1, Counted DEF CoordInv, BudgetInv, permits
<1>8. SessionInv'
  <2>1. \A b \in Tasks : running'[b] \in SUBSET running[b]
    BY <1>1, <1>2
  <2>2. \A b \in Tasks : IsFiniteSet(running[b])
    BY <1>1, CoordinatorAssumption, FS_Subset, Places DEF CoordinatorAssumption
  <2>3. \A b \in Tasks : /\ Cardinality(running'[b]) <= Cardinality(running[b])
                         /\ Cardinality(running'[b]) \in Nat /\ Cardinality(running[b]) \in Nat
    BY <2>1, <2>2, FS_Subset, FS_CardinalityType
  <2>4. SessionExecutions \in Nat
    BY CoordinatorAssumption DEF CoordinatorAssumption
  <2> QED
    BY <1>1, <2>3, <2>4 DEF SessionInv
<1> QED
  BY <1>2, <1>3, <1>5, <1>6, <1>7, <1>8 DEF CoordInv

\* The oldest task of the channel is held while the actor waits for a permit.
LEMMA RecvStep == ASSUME CoordInv, NEW a \in Tasks, Recv(a) PROVE CoordInv'
<1> DEFINE t == Head(queue[a])
<1>1. /\ Shape /\ ActorInv /\ TaskInv /\ WaitInv /\ SessionInv /\ OrderInv
      /\ MayRecv(a) /\ queue[a] # <<>>
      /\ queue' = [queue EXCEPT ![a] = Tail(queue[a])]
      /\ held' = [held EXCEPT ![a] = t]
      /\ apc' = [apc EXCEPT ![a] = "acquire"]
      /\ waiters' = Append(waiters, a)
      /\ pc' = [pc EXCEPT ![t] = "held"] /\ Move(t, "held")
      /\ UNCHANGED <<key, inboxes, running, permits, accepted, started>>
  BY DEF CoordInv, Recv, Move, history
<1>2. queue[a] \in Seq(Tasks) /\ waiters \in Seq(Tasks) /\ None \notin Tasks
  BY <1>1, Places
<1>3. /\ t \in Tasks /\ Tail(queue[a]) \in Seq(Tasks) /\ t = queue[a][1]
      /\ Len(Tail(queue[a])) = Len(queue[a]) - 1 /\ Len(queue[a]) \in Nat \ {0}
      /\ \A i \in 1..Len(Tail(queue[a])) : Tail(queue[a])[i] = queue[a][i + 1]
  BY <1>1, <1>2, HeadTailProperties
<1>4. pc[t] = "queued" /\ key[t] = key[a]
  BY <1>1, <1>3 DEF TaskInv
<1>5. apc[a] \in {"recv", "loop"} /\ Live(a) /\ held[a] = None /\ inboxes[key[a]] = a /\ key[a] \in Keys
  BY <1>1, Places DEF MayRecv, ActorInv, Live
<1> HIDE DEF t
<1>6. Shape'
  <2>1. queue' \in [Tasks -> Seq(Tasks)]
    BY <1>1, <1>3 DEF Shape
  <2>2. held' \in [Tasks -> Tasks \cup {None}]
    BY <1>1, <1>3 DEF Shape
  <2>3. apc' \in [Tasks -> ActorPcs] /\ pc' \in [Tasks -> TaskPcs]
    BY <1>1, <1>3 DEF Shape, ActorPcs, TaskPcs
  <2>4. waiters' \in Seq(Tasks)
    BY <1>1, <1>2
  <2> QED
    BY <1>1, <2>1, <2>2, <2>3, <2>4 DEF Shape
<1>7. /\ queue'[a] = Tail(queue[a]) /\ \A b \in Tasks \ {a} : queue'[b] = queue[b]
      /\ held'[a] = t /\ \A b \in Tasks \ {a} : held'[b] = held[b]
      /\ apc'[a] = "acquire" /\ \A b \in Tasks \ {a} : apc'[b] = apc[b]
      /\ pc'[t] = "held" /\ \A u \in Tasks \ {t} : pc'[u] = pc[u]
  BY <1>1, <1>3 DEF Shape
<1>8. ActorInv'
  <2>1. \A b \in Tasks : Live(b)' <=> Live(b)
    BY <1>5, <1>7 DEF Live
  <2>2. \A b \in Tasks :
          /\ ~Live(b) => queue'[b] = <<>> /\ running'[b] = {}
          /\ apc'[b] = "acquire" <=> held'[b] # None
          /\ apc'[b] = "recv" => running'[b] = {}
          /\ pc'[b] \in {"idle", "admitted"} => apc'[b] = "none"
    <3> TAKE b \in Tasks
    <3>1. CASE b = a
      <4>1. pc'[a] \notin {"idle", "admitted"}
        BY <1>1, <1>5, <1>7 DEF ActorInv
      <4> QED
        BY <1>2, <1>3, <1>5, <1>7, <3>1, <4>1
    <3>2. CASE b # a
      BY <1>1, <1>4, <1>7, <3>2 DEF ActorInv
    <3> QED
      BY <3>1, <3>2
  <2> QED
    BY <1>1, <2>1, <2>2 DEF ActorInv
<1>9. \A b \in Tasks \ {a} : \A i \in 1..Len(queue[b]) : queue[b][i] # t
  <2> SUFFICES ASSUME NEW b \in Tasks \ {a}, NEW i \in 1..Len(queue[b]), queue[b][i] = t PROVE FALSE
    OBVIOUS
  <2>1. key[b] = key[a] /\ queue[b] # <<>>
    BY <1>1, <1>4 DEF TaskInv
  <2> QED
    BY <1>1, <1>5, <2>1, WorkIsLive, OneActor
<1>10. TaskInv'
  <2>1. \A b \in Tasks \ {a} :
          /\ \A i \in 1..Len(queue'[b]) : key[queue'[b][i]] = key[b] /\ pc'[queue'[b][i]] = "queued"
          /\ \A i, j \in 1..Len(queue'[b]) : queue'[b][i] = queue'[b][j] => i = j
    BY <1>1, <1>7, <1>9, Places DEF TaskInv
  <2>2. \A i \in 1..Len(queue'[a]) : /\ i + 1 \in 1..Len(queue[a]) /\ 1 \in 1..Len(queue[a])
                                     /\ queue'[a][i] = queue[a][i + 1] /\ i + 1 # 1
    BY <1>3, <1>7
  <2>3. \A i \in 1..Len(queue'[a]) : key[queue'[a][i]] = key[a] /\ pc'[queue'[a][i]] = "queued"
    <3> TAKE i \in 1..Len(queue'[a])
    <3>1. queue'[a][i] = queue[a][i + 1] /\ i + 1 \in 1..Len(queue[a]) /\ 1 \in 1..Len(queue[a])
      BY <2>2
    <3>3. queue[a][i + 1] # t
      <4>1. queue[a][i + 1] = queue[a][1] => i + 1 = 1
        BY <1>1, <3>1 DEF TaskInv
      <4> QED
        BY <1>3, <2>2, <4>1
    <3>2. queue[a][i + 1] \in Tasks /\ key[queue[a][i + 1]] = key[a] /\ pc[queue[a][i + 1]] = "queued"
      BY <1>1, <3>1, Places DEF TaskInv
    <3> QED
      BY <1>7, <3>1, <3>2, <3>3
  <2>4. \A i, j \in 1..Len(queue'[a]) : queue'[a][i] = queue'[a][j] => i = j
    <3> SUFFICES ASSUME NEW i \in 1..Len(queue'[a]), NEW j \in 1..Len(queue'[a]),
                        queue'[a][i] = queue'[a][j]
                 PROVE  i = j
      OBVIOUS
    <3>1. i + 1 = j + 1
      BY <1>1, <2>2 DEF TaskInv
    <3> QED
      BY <3>1
  <2>5. \A b \in Tasks : held'[b] # None => key[held'[b]] = key[b] /\ pc'[held'[b]] = "held"
    BY <1>1, <1>4, <1>7, Places DEF TaskInv
  <2>6. \A b \in Tasks : \A u \in running[b] : key[u] = key[b] /\ pc'[u] \in {"running", "finished"}
    BY <1>1, <1>4, <1>7, Places DEF TaskInv
  <2>7. \A u \in Tasks : pc'[u] = "running" => inboxes[key[u]] # None /\ u \in running[inboxes[key[u]]]
    BY <1>1, <1>7 DEF TaskInv
  <2>8. \A b \in Tasks :
          /\ \A i \in 1..Len(queue'[b]) : key[queue'[b][i]] = key[b] /\ pc'[queue'[b][i]] = "queued"
          /\ \A i, j \in 1..Len(queue'[b]) : queue'[b][i] = queue'[b][j] => i = j
    BY <2>1, <2>3, <2>4
  <2>9. UNCHANGED <<key, inboxes, running>>
    BY <1>1
  <2> QED
    BY <2>5, <2>6, <2>7, <2>8, <2>9 DEF TaskInv
<1>11. WaitInv'
  <2>1. \A i \in 1..Len(waiters) : waiters[i] \in Tasks /\ apc[waiters[i]] = "acquire" /\ waiters[i] # a
    BY <1>1, <1>5, Places DEF WaitInv
  <2>2. /\ Len(waiters') = Len(waiters) + 1 /\ Len(waiters) \in Nat /\ waiters'[Len(waiters) + 1] = a
        /\ \A i \in 1..Len(waiters) : waiters'[i] = waiters[i]
    BY <1>1, <1>2, AppendProperties
  <2>3. \A i \in 1..Len(waiters') : i \in 1..Len(waiters) \/ i = Len(waiters) + 1
    BY <2>2
  <2> QED
    BY <1>1, <1>7, <2>1, <2>2, <2>3 DEF WaitInv
<1>12. BudgetInv'
  BY <1>1, <1>3, <1>4, BudgetKept
<1>13. SessionInv'
  <2>1. Cardinality(running[a]) < SessionExecutions
    <3>1. SessionExecutions \in Nat /\ SessionExecutions # 0
      BY CoordinatorAssumption DEF CoordinatorAssumption
    <3>2. apc[a] = "recv" => Cardinality(running[a]) = 0
      BY <1>1, FS_EmptySet DEF ActorInv
    <3> QED
      BY <1>1, <3>1, <3>2 DEF MayRecv
  <2> QED
    BY <1>1, <1>7, <2>1 DEF SessionInv
<1>14. OrderInv'
  <2> SUFFICES ASSUME NEW k \in Keys PROVE Backlog(k)' = Backlog(k)
    BY <1>1 DEF OrderInv
  <2>1. CASE k = key[a]
    <3>1. inboxes[k] = a /\ inboxes'[k] = a /\ a # None /\ t # None
      BY <1>1, <1>2, <1>3, <1>5, <2>1
    <3>2. Backlog(k) = <<>> \o queue[a]
      BY <1>5, <3>1, Zenon DEF Backlog, Holding
    <3>3. Backlog(k)' = <<t>> \o Tail(queue[a])
      BY <1>7, <3>1, Zenon DEF Backlog, Holding
    <3>4. <<>> \o queue[a] = <<t>> \o Tail(queue[a])
      BY <1>1, <1>2, HeadAndTail, Zenon DEF t
    <3> QED
      BY <3>2, <3>3, <3>4, Zenon
  <2>2. CASE k # key[a]
    <3>1. inboxes[k] # None => inboxes[k] \in Tasks /\ inboxes[k] # a
      BY <1>1, <2>2, Places DEF ActorInv
    <3> QED
      BY <1>1, <1>7, <3>1 DEF Backlog, Holding
  <2> QED
    BY <2>1, <2>2
<1> QED
  BY <1>6, <1>8, <1>10, <1>11, <1>12, <1>13, <1>14 DEF CoordInv

\* The oldest waiter starts the task it holds, the first of the backlog of its session.
LEMMA ExecuteStep == ASSUME CoordInv, Execute PROVE CoordInv'
<1> DEFINE a == Head(waiters) t == held[a]
<1>1. /\ Shape /\ ActorInv /\ TaskInv /\ WaitInv /\ SessionInv /\ OrderInv
      /\ waiters # <<>> /\ execution > 0
      /\ waiters' = Tail(waiters)
      /\ running' = [running EXCEPT ![a] = running[a] \cup {t}]
      /\ held' = [held EXCEPT ![a] = None]
      /\ apc' = [apc EXCEPT ![a] = "loop"]
      /\ started' = [started EXCEPT ![key[a]] = Append(started[key[a]], t)]
      /\ pc' = [pc EXCEPT ![t] = "running"] /\ Move(t, "running")
      /\ execution' = execution - 1
      /\ UNCHANGED <<key, inboxes, queue, admission, accepted>>
  BY DEF CoordInv, Execute, Move
<1>2. waiters \in Seq(Tasks) /\ None \notin Tasks
  BY <1>1, Places
<1>3. /\ a \in Tasks /\ Tail(waiters) \in Seq(Tasks) /\ a = waiters[1]
      /\ Len(Tail(waiters)) = Len(waiters) - 1 /\ Len(waiters) \in Nat \ {0}
      /\ \A i \in 1..Len(Tail(waiters)) : Tail(waiters)[i] = waiters[i + 1]
  BY <1>1, <1>2, HeadTailProperties
<1>4. apc[a] = "acquire" /\ t # None
  BY <1>1, <1>3 DEF WaitInv, ActorInv
<1>5. /\ t \in Tasks /\ pc[t] = "held" /\ key[t] = key[a] /\ Live(a) /\ inboxes[key[a]] = a
      /\ key[a] \in Keys
  BY <1>1, <1>3, <1>4, Places DEF TaskInv, ActorInv, Live
<1> HIDE DEF a, t
<1>6. Shape'
  <2>1. started' \in [Keys -> Seq(Tasks)]
    <3>1. started \in [Keys -> Seq(Tasks)] /\ Append(started[key[a]], t) \in Seq(Tasks)
      BY <1>1, <1>5, AppendProperties DEF Shape
    <3> QED
      BY <1>1, <3>1
  <2>2. held' \in [Tasks -> Tasks \cup {None}] /\ running' \in [Tasks -> SUBSET Tasks]
    BY <1>1, <1>5 DEF Shape
  <2>3. apc' \in [Tasks -> ActorPcs] /\ pc' \in [Tasks -> TaskPcs]
    BY <1>1, <1>5 DEF Shape, ActorPcs, TaskPcs
  <2>4. waiters' \in Seq(Tasks)
    BY <1>1, <1>3
  <2> QED
    BY <1>1, <2>1, <2>2, <2>3, <2>4 DEF Shape
<1>7. /\ running'[a] = running[a] \cup {t} /\ \A b \in Tasks \ {a} : running'[b] = running[b]
      /\ held'[a] = None /\ \A b \in Tasks \ {a} : held'[b] = held[b]
      /\ apc'[a] = "loop" /\ \A b \in Tasks \ {a} : apc'[b] = apc[b]
      /\ pc'[t] = "running" /\ \A u \in Tasks \ {t} : pc'[u] = pc[u]
      /\ started'[key[a]] = Append(started[key[a]], t)
      /\ \A k \in Keys \ {key[a]} : started'[k] = started[k]
  BY <1>1, <1>3, <1>5 DEF Shape
<1>8. ActorInv'
  <2>1. \A b \in Tasks : Live(b)' <=> Live(b)
    BY <1>5, <1>7 DEF Live
  <2>2. \A b \in Tasks :
          /\ ~Live(b) => queue[b] = <<>> /\ running'[b] = {}
          /\ apc'[b] = "acquire" <=> held'[b] # None
          /\ apc'[b] = "recv" => running'[b] = {}
          /\ pc'[b] \in {"idle", "admitted"} => apc'[b] = "none"
    <3> TAKE b \in Tasks
    <3>1. CASE b = a
      <4>1. pc'[a] \notin {"idle", "admitted"}
        BY <1>1, <1>3, <1>4, <1>7 DEF ActorInv
      <4> QED
        BY <1>5, <1>7, <3>1, <4>1
    <3>2. CASE b # a
      BY <1>1, <1>7, <3>2 DEF ActorInv
    <3> QED
      BY <3>1, <3>2
  <2> QED
    BY <1>1, <2>1, <2>2 DEF ActorInv
<1>9. \A b \in Tasks \ {a} : held[b] # None => held[b] # t
  <2> SUFFICES ASSUME NEW b \in Tasks \ {a}, held[b] # None, held[b] = t PROVE FALSE
    OBVIOUS
  <2>1. key[b] = key[a] /\ Live(b)
    BY <1>1, <1>5, WorkIsLive DEF TaskInv
  <2> QED
    BY <1>1, <1>3, <1>5, <2>1, OneActor
<1>10. TaskInv'
  <2>1. \A b \in Tasks :
          /\ \A i \in 1..Len(queue[b]) : key[queue[b][i]] = key[b] /\ pc'[queue[b][i]] = "queued"
          /\ \A i, j \in 1..Len(queue[b]) : queue[b][i] = queue[b][j] => i = j
    BY <1>1, <1>5, <1>7, Places DEF TaskInv
  <2>2. \A b \in Tasks : held'[b] # None => key[held'[b]] = key[b] /\ pc'[held'[b]] = "held"
    BY <1>1, <1>7, <1>9, Places DEF TaskInv
  <2>3. \A b \in Tasks : \A u \in running'[b] : key[u] = key[b] /\ pc'[u] \in {"running", "finished"}
    <3> TAKE b \in Tasks
    <3> TAKE u \in running'[b]
    <3>1. CASE u = t
      <4>1. t \notin running[b]
        BY <1>1, <1>5 DEF TaskInv
      <4>2. b = a
        BY <1>7, <3>1, <4>1
      <4> QED
        BY <1>5, <1>7, <3>1, <4>2
    <3>2. CASE u # t
      <4>1. u \in running[b] /\ u \in Tasks
        BY <1>1, <1>7, <3>2, Places
      <4> QED
        BY <1>1, <1>7, <3>2, <4>1 DEF TaskInv
    <3> QED
      BY <3>1, <3>2
  <2>4. \A u \in Tasks : pc'[u] = "running" => inboxes[key[u]] # None /\ u \in running'[inboxes[key[u]]]
    <3> SUFFICES ASSUME NEW u \in Tasks, pc'[u] = "running"
                 PROVE  inboxes[key[u]] # None /\ u \in running'[inboxes[key[u]]]
      OBVIOUS
    <3>1. CASE u = t
      BY <1>2, <1>3, <1>5, <1>7, <3>1
    <3>2. CASE u # t
      <4>1. inboxes[key[u]] # None /\ u \in running[inboxes[key[u]]] /\ inboxes[key[u]] \in Tasks
        BY <1>1, <1>7, <3>2, Places DEF TaskInv
      <4> QED
        BY <1>7, <4>1
    <3> QED
      BY <3>1, <3>2
  <2>5. UNCHANGED <<key, inboxes, queue>>
    BY <1>1
  <2> QED
    BY <2>1, <2>2, <2>3, <2>4, <2>5 DEF TaskInv
<1>11. WaitInv'
  <2>1. \A i \in 1..Len(waiters') : /\ waiters'[i] = waiters[i + 1] /\ i + 1 # 1
                                    /\ i + 1 \in 1..Len(waiters) /\ 1 \in 1..Len(waiters)
    BY <1>1, <1>3
  <2>2. \A i \in 1..Len(waiters') : apc'[waiters'[i]] = "acquire"
    <3> TAKE i \in 1..Len(waiters')
    <3>1. waiters[i + 1] # waiters[1]
      BY <1>1, <2>1 DEF WaitInv
    <3>2. waiters'[i] # a /\ waiters'[i] \in Tasks /\ apc[waiters'[i]] = "acquire"
      BY <1>1, <1>3, <2>1, <3>1, Places DEF WaitInv
    <3> QED
      BY <1>7, <3>2
  <2>3. \A i, j \in 1..Len(waiters') : waiters'[i] = waiters'[j] => i = j
    <3> SUFFICES ASSUME NEW i \in 1..Len(waiters'), NEW j \in 1..Len(waiters'), waiters'[i] = waiters'[j]
                 PROVE  i = j
      OBVIOUS
    <3>1. i + 1 = j + 1
      BY <1>1, <2>1 DEF WaitInv
    <3> QED
      BY <3>1
  <2> QED
    BY <2>2, <2>3 DEF WaitInv
<1>12. BudgetInv'
  <2>1. "running" \in TaskPcs
    BY DEF TaskPcs
  <2>2. /\ Admitted' = Admitted \cup {t} /\ t \in Admitted
        /\ Executing' = Executing \cup {t} /\ t \notin Executing /\ Executing \in SUBSET Tasks
    BY <1>1, <1>5, <2>1, Counted
  <2>3. Cardinality(Executing') = Cardinality(Executing) + 1 /\ Cardinality(Executing) \in Nat
    BY <1>5, <2>2, CountIn
  <2>4. Admitted' = Admitted
    BY <2>2
  <2> QED
    BY <1>1, <2>3, <2>4 DEF CoordInv, BudgetInv
<1>13. SessionInv'
  <2>1. t \notin running[a] /\ running[a] \in SUBSET Tasks
    BY <1>1, <1>3, <1>5, Places DEF TaskInv
  <2>2. Cardinality(running'[a]) = Cardinality(running[a]) + 1 /\ Cardinality(running[a]) \in Nat
    BY <1>5, <1>7, <2>1, CountIn
  <2>3. Cardinality(running[a]) < SessionExecutions /\ SessionExecutions \in Nat
    BY <1>1, <1>3, <1>4, CoordinatorAssumption DEF SessionInv, CoordinatorAssumption
  <2> SUFFICES ASSUME NEW b \in Tasks
               PROVE  /\ Cardinality(running'[b]) <= SessionExecutions
                      /\ apc'[b] = "acquire" => Cardinality(running'[b]) < SessionExecutions
    BY DEF SessionInv
  <2>4. CASE b = a
    <3>1. running'[b] = running'[a] /\ apc'[b] = "loop"
      BY <1>7, <2>4
    <3>2. Cardinality(running'[b]) <= SessionExecutions
      BY <2>2, <2>3, <3>1
    <3> QED
      BY <3>1, <3>2
  <2>5. CASE b # a
    BY <1>1, <1>7, <2>5 DEF SessionInv
  <2> QED
    BY <2>4, <2>5
<1>14. OrderInv'
  <2> SUFFICES ASSUME NEW k \in Keys PROVE accepted[k] = started'[k] \o Backlog(k)'
    BY <1>1 DEF OrderInv
  <2>1. accepted[k] = started[k] \o Backlog(k)
    BY <1>1 DEF OrderInv
  <2>2. CASE k = key[a]
    <3>1. inboxes[k] = a /\ inboxes'[k] = a /\ a # None /\ held[a] = t
      BY <1>1, <1>2, <1>3, <1>5, <2>2 DEF t
    <3>2. Backlog(k) = <<t>> \o queue[a]
      BY <1>4, <3>1, Zenon DEF Backlog, Holding
    <3>3. Backlog(k)' = <<>> \o queue[a]
      <4>1. held'[a] = None /\ queue'[a] = queue[a]
        BY <1>1, <1>7
      <4> QED
        BY <3>1, <4>1, Zenon DEF Backlog, Holding
    <3>4. started[k] \in Seq(Tasks) /\ queue[a] \in Seq(Tasks)
      BY <1>1, <1>3 DEF Shape
    <3>5. started[k] \o (<<t>> \o queue[a]) = Append(started[k], t) \o (<<>> \o queue[a])
      BY <1>5, <3>4, StartHead, Zenon
    <3>6. started'[k] = Append(started[k], t)
      BY <1>7, <2>2
    <3> QED
      BY <2>1, <3>2, <3>3, <3>5, <3>6, Zenon
  <2>3. CASE k # key[a]
    <3>1. inboxes[k] # None => inboxes[k] \in Tasks /\ inboxes[k] # a
      BY <1>1, <2>3, Places DEF ActorInv
    <3>2. Backlog(k)' = Backlog(k)
      BY <1>1, <1>7, <3>1 DEF Backlog, Holding
    <3> QED
      BY <1>7, <2>1, <2>3, <3>2
  <2> QED
    BY <2>2, <2>3
<1> QED
  BY <1>6, <1>8, <1>10, <1>11, <1>12, <1>13, <1>14 DEF CoordInv

(***************************************************************************)
(* The theorems                                                            *)
(***************************************************************************)

\* Nothing is admitted, and no session has an actor.
LEMMA InitInv == ASSUME Init PROVE CoordInv
<1>1. /\ None \notin Tasks
      /\ Accepted \in Nat /\ Executions \in Nat /\ SessionExecutions \in Nat
  BY CoordinatorAssumption DEF CoordinatorAssumption
<1>2. Shape
  BY DEF Init, Shape, TaskPcs, ActorPcs
<1>3. ActorInv /\ TaskInv /\ WaitInv
  <2>1. ActorInv
    BY <1>1 DEF Init, ActorInv, Live
  <2>2. TaskInv
    BY DEF Init, TaskInv
  <2>3. WaitInv
    BY DEF Init, WaitInv
  <2> QED
    BY <2>1, <2>2, <2>3
<1>4. BudgetInv
  <2>1. Admitted = {} /\ Executing = {}
    BY DEF Init, Admitted, Executing
  <2> QED
    BY <1>1, <2>1, FS_EmptySet DEF Init, BudgetInv
<1>5. SessionInv
  <2>1. \A a \in Tasks : running[a] = {} /\ apc[a] = "none"
    BY DEF Init
  <2>2. Cardinality({}) = 0
    BY FS_EmptySet
  <2> QED
    BY <1>1, <2>1, <2>2 DEF SessionInv
<1>6. OrderInv
  BY DEF Init, OrderInv, Backlog
<1> QED
  BY <1>2, <1>3, <1>4, <1>5, <1>6 DEF CoordInv

\* A step that changes nothing.
LEMMA StutterStep == ASSUME CoordInv, UNCHANGED vars PROVE CoordInv'
<1>1. /\ UNCHANGED <<key, pc, inboxes, apc, queue, held, running, waiters, admission, execution,
                     accepted, started>>
  BY DEF vars, taskVars, actorVars, permits, history
<1>2. Shape' /\ ActorInv' /\ WaitInv' /\ SessionInv'
  BY <1>1 DEF CoordInv, Shape, ActorInv, Live, WaitInv, SessionInv
<1>3. TaskInv'
  BY <1>1 DEF CoordInv, TaskInv
<1>4. BudgetInv'
  BY <1>1 DEF CoordInv, BudgetInv, Admitted, Executing
<1>5. OrderInv'
  BY <1>1 DEF CoordInv, OrderInv, Backlog, Holding
<1> QED
  BY <1>2, <1>3, <1>4, <1>5 DEF CoordInv

\* The invariant holds in every reachable state.
THEOREM CoordinatorInvariant == Spec => []CoordInv
<1>1. Init => CoordInv
  BY InitInv
<1>2. CoordInv /\ [Next]_vars => CoordInv'
  BY AdmitStep, EnqueueStep, SpawnStep, RefuseStep, FinishStep, RetireStep, RecvStep, JoinStep,
     ExecuteStep, StutterStep DEF Next, Dispatch, Actor
<1> QED
  BY <1>1, <1>2, PTL DEF Spec

\* The registry, the actors and the budgets keep to their types: no permit is given back twice,
\* and none is taken that is not there.
THEOREM TypeCorrect == Spec => []TypeOK
<1>1. CoordInv => TypeOK
  <2> SUFFICES ASSUME CoordInv PROVE TypeOK
    OBVIOUS
  <2>1. IsFiniteSet(Tasks) /\ Accepted \in Nat /\ Executions \in Nat
    BY CoordinatorAssumption DEF CoordinatorAssumption
  <2>2. Admitted \in SUBSET Tasks /\ Executing \in SUBSET Tasks
    BY DEF Admitted, Executing
  <2>3. Cardinality(Admitted) \in Nat /\ Cardinality(Executing) \in Nat
    BY <2>1, <2>2, FS_Subset, FS_CardinalityType
  <2>4. admission \in 0..Accepted /\ execution \in 0..Executions
    BY <2>1, <2>3 DEF CoordInv, BudgetInv
  <2> QED
    BY <2>4 DEF CoordInv, Shape, TypeOK
<1> QED
  BY <1>1, CoordinatorInvariant, PTL

\* The tasks that dispatch() has admitted and that have not ended are never more than
\* MAX_ACCEPTED_TASKS: the permit is held through execution.
THEOREM AcceptedBounded == Spec => []AcceptedBound
<1>1. CoordInv => AcceptedBound
  <2> SUFFICES ASSUME CoordInv PROVE Cardinality(Admitted) <= Accepted
    BY DEF AcceptedBound, Admitted
  <2>1. IsFiniteSet(Tasks) /\ Accepted \in Nat /\ Admitted \in SUBSET Tasks
    BY CoordinatorAssumption DEF CoordinatorAssumption, Admitted
  <2>2. Cardinality(Admitted) \in Nat
    BY <2>1, FS_Subset, FS_CardinalityType
  <2> QED
    BY <2>1, <2>2 DEF CoordInv, BudgetInv
<1> QED
  BY <1>1, CoordinatorInvariant, PTL

\* A session never has more than MAX_SESSION_EXECUTIONS executions, also when its actor has
\* retired and another was spawned for it.
THEOREM SessionsBounded == Spec => []SessionBound
<1>1. CoordInv => SessionBound
  <2> SUFFICES ASSUME CoordInv, NEW k \in Keys
               PROVE  Cardinality({t \in Tasks : key[t] = k /\ pc[t] = "running"}) <= SessionExecutions
    BY DEF SessionBound
  <2> DEFINE R == {t \in Tasks : key[t] = k /\ pc[t] = "running"}
  <2>1. IsFiniteSet(Tasks) /\ SessionExecutions \in Nat /\ Shape
    BY CoordinatorAssumption DEF CoordinatorAssumption, CoordInv
  <2>2. CASE R = {}
    <3>1. Cardinality(R) = 0
      BY <2>2, FS_EmptySet
    <3> QED
      BY <2>1, <3>1
  <2>3. CASE R # {}
    <3>1. PICK t \in R : TRUE
      BY <2>3
    <3>2. inboxes[k] \in Tasks /\ \A u \in R : u \in running[inboxes[k]]
      BY <2>1, <3>1, Places DEF CoordInv, TaskInv
    <3>3. IsFiniteSet(running[inboxes[k]]) /\ R \in SUBSET running[inboxes[k]]
      BY <2>1, <3>2, Places, FS_Subset
    <3>4. /\ Cardinality(R) <= Cardinality(running[inboxes[k]]) /\ Cardinality(R) \in Nat
          /\ Cardinality(running[inboxes[k]]) \in Nat
      BY <3>3, FS_Subset, FS_CardinalityType
    <3>5. Cardinality(running[inboxes[k]]) <= SessionExecutions
      BY <3>2 DEF CoordInv, SessionInv
    <3> QED
      BY <2>1, <3>4, <3>5
  <2> QED
    BY <2>2, <2>3
<1> QED
  BY <1>1, CoordinatorInvariant, PTL

\* The tasks of a session are started in the order in which dispatch() accepted them, whatever
\* number of actors the session has had.
THEOREM StartedInOrder == Spec => []StartsInOrder
<1>1. CoordInv => StartsInOrder
  <2> SUFFICES ASSUME CoordInv, NEW k \in Keys
               PROVE  /\ Len(started[k]) <= Len(accepted[k])
                      /\ started[k] = SubSeq(accepted[k], 1, Len(started[k]))
    BY DEF StartsInOrder
  <2>1. Shape /\ started[k] \in Seq(Tasks) /\ accepted[k] = started[k] \o Backlog(k)
    BY DEF CoordInv, OrderInv, Shape
  <2>2. Backlog(k) \in Seq(Tasks)
    <3>1. CASE inboxes[k] = None
      BY <3>1 DEF Backlog
    <3>2. CASE inboxes[k] # None
      BY <2>1, <3>2, Places, BacklogType, ConcatProperties DEF Backlog
    <3> QED
      BY <3>1, <3>2
  <2> QED
    BY <2>1, <2>2, PrefixOfConcat
<1> QED
  BY <1>1, CoordinatorInvariant, PTL
(***************************************************************************)
(* The coordinator implements DispatchContract                             *)
(***************************************************************************)

\* The stages of a task.
LEMMA StageOf ==
    ASSUME Shape, NEW t \in Tasks
    PROVE  /\ Stage(t) = "upstream" <=> pc[t] \in {"idle", "admitted"}
           /\ Stage(t) = "waiting" <=> pc[t] \in {"queued", "held"}
           /\ Stage(t) = "running" <=> pc[t] = "running"
           /\ Stage(t) = "done" <=> pc[t] \in {"finished", "joined"}
<1>1. pc[t] \in TaskPcs
  BY DEF Shape
<1> QED
  BY <1>1 DEF Stage, TaskPcs

\* A task that moves changes its own stage only.
LEMMA StageMoves ==
    ASSUME Shape, NEW t \in Tasks, NEW l \in TaskPcs, Move(t, l)
    PROVE  /\ pc'[t] = l
           /\ \A u \in Tasks \ {t} : Stage(u)' = Stage(u)
<1>1. pc'[t] = l /\ \A u \in Tasks \ {t} : pc'[u] = pc[u]
  BY DEF Shape, Move
<1> QED
  BY <1>1 DEF Stage

\* The contract counts as FiniteSets does.
LEMMA ContractCounts == ASSUME NEW S PROVE Contract!Cardinality(S) = Cardinality(S)
BY DEF Cardinality, Contract!Cardinality

\* Steps the contract does not see.
LEMMA ContractStutters ==
    ASSUME UNCHANGED key, \A t \in Tasks : Stage(t)' = Stage(t),
           \A k \in Keys : Backlog(k)' = Backlog(k)
    PROVE  UNCHANGED Contract!vars
BY DEF Contract!vars

\* The backlog of another session stays when an actor changes its own.
LEMMA OtherBacklogs ==
    ASSUME Shape, ActorInv, NEW a \in Tasks, UNCHANGED inboxes,
           \A b \in Tasks \ {a} : held'[b] = held[b] /\ queue'[b] = queue[b],
           NEW k \in Keys, k # key[a]
    PROVE  Backlog(k)' = Backlog(k)
<1>1. inboxes[k] # None => inboxes[k] \in Tasks /\ inboxes[k] # a
  BY Places DEF ActorInv
<1> QED
  BY <1>1 DEF Backlog, Holding

\* Admission and refusal.
LEMMA UpstreamSimulates ==
    ASSUME CoordInv, NEW t \in Tasks, Admit(t) \/ Refuse(t)
    PROVE  UNCHANGED Contract!vars
<1>1. Shape /\ UNCHANGED <<key, inboxes, held, queue>> /\ pc[t] \in {"idle", "admitted"}
  BY DEF CoordInv, Admit, Refuse, actorVars
<1>2. PICK l \in {"idle", "admitted"} : Move(t, l)
  BY DEF Admit, Refuse
<1>3. l \in TaskPcs
  BY DEF TaskPcs
<1>4. \A u \in Tasks : Stage(u)' = Stage(u)
  <2>1. pc'[t] = l /\ \A u \in Tasks \ {t} : Stage(u)' = Stage(u)
    BY <1>1, <1>2, <1>3, StageMoves
  <2>2. Stage(t)' = "upstream" /\ Stage(t) = "upstream"
    BY <1>1, <2>1 DEF Stage
  <2> QED
    BY <2>1, <2>2
<1>5. \A k \in Keys : Backlog(k)' = Backlog(k)
  BY <1>1 DEF Backlog, Holding
<1> QED
  BY <1>1, <1>4, <1>5, ContractStutters

\* An execution that ended is joined.
LEMMA JoinSimulates ==
    ASSUME CoordInv, NEW a \in Tasks, NEW t \in Tasks, JoinNext(a, t)
    PROVE  UNCHANGED Contract!vars
<1>1. /\ Shape /\ UNCHANGED <<key, inboxes, held, queue>> /\ pc[t] = "finished"
      /\ Move(t, "joined") /\ "joined" \in TaskPcs
  BY DEF CoordInv, JoinNext, TaskPcs
<1>2. pc'[t] = "joined" /\ \A u \in Tasks \ {t} : Stage(u)' = Stage(u)
  BY <1>1, StageMoves
<1>3. Stage(t)' = "done" /\ Stage(t) = "done"
  BY <1>1, <1>2 DEF Stage
<1>4. \A k \in Keys : Backlog(k)' = Backlog(k)
  BY <1>1 DEF Backlog, Holding
<1> QED
  BY <1>1, <1>2, <1>3, <1>4, ContractStutters

\* An actor that retires has no backlog, and neither has its session afterwards.
LEMMA RetireSimulates ==
    ASSUME CoordInv, NEW a \in Tasks, RetireIfIdle(a)
    PROVE  UNCHANGED Contract!vars
<1>1. Shape /\ ActorInv /\ UNCHANGED <<key, pc, held, queue>> /\ apc[a] = "loop"
  BY DEF CoordInv, RetireIfIdle, taskVars
<1>2. \A t \in Tasks : Stage(t)' = Stage(t)
  BY <1>1 DEF Stage
<1>3. ASSUME NEW k \in Keys PROVE Backlog(k)' = Backlog(k)
  <2>1. CASE UNCHANGED inboxes
    BY <1>1, <2>1 DEF Backlog, Holding
  <2>2. CASE inboxes' # inboxes
    <3>1. queue[a] = <<>> /\ inboxes' = [inboxes EXCEPT ![key[a]] = IF inboxes[key[a]] = a THEN None ELSE inboxes[key[a]]]
      BY <2>2 DEF RetireIfIdle
    <3>2. inboxes[key[a]] = a /\ key[a] \in Keys
      BY <1>1, Places DEF ActorInv, Live
    <3>3. CASE k = key[a]
      <4>1. inboxes'[k] = None
        BY <1>1, <3>1, <3>2, <3>3 DEF Shape
      <4>2. inboxes[k] = a /\ a # None /\ held[a] = None
        BY <1>1, <3>2, <3>3, Places DEF ActorInv
      <4>3. Backlog(k) = <<>> \o <<>>
        BY <3>1, <4>2, Zenon DEF Backlog, Holding
      <4>4. Backlog(k)' = <<>>
        BY <4>1 DEF Backlog
      <4> QED
        BY <4>3, <4>4
    <3>4. CASE k # key[a]
      <4>1. inboxes'[k] = inboxes[k]
        BY <1>1, <3>1, <3>4 DEF Shape
      <4> QED
        BY <1>1, <4>1 DEF Backlog, Holding
    <3> QED
      BY <3>3, <3>4
  <2> QED
    BY <2>1, <2>2
<1> QED
  BY <1>1, <1>2, <1>3, ContractStutters

\* A task that leaves the channel is the head of the backlog as before.
LEMMA RecvSimulates ==
    ASSUME CoordInv, NEW a \in Tasks, Recv(a)
    PROVE  UNCHANGED Contract!vars
<1>0. PICK t : t = Head(queue[a])
  OBVIOUS
<1>1. /\ Shape /\ ActorInv /\ TaskInv /\ UNCHANGED <<key, inboxes>>
      /\ queue[a] # <<>> /\ queue' = [queue EXCEPT ![a] = Tail(queue[a])]
      /\ held' = [held EXCEPT ![a] = t] /\ Move(t, "held") /\ "held" \in TaskPcs
      /\ apc[a] \in {"recv", "loop"}
  BY <1>0 DEF CoordInv, Recv, MayRecv, TaskPcs
<1>2. t \in Tasks /\ pc[t] = "queued" /\ t # None
  <2>1. 1 \in 1..Len(queue[a]) /\ t = queue[a][1]
    BY <1>0, <1>1, Places
  <2> QED
    BY <1>1, <2>1, Places DEF TaskInv
<1>3. inboxes[key[a]] = a /\ held[a] = None /\ a # None /\ key[a] \in Keys
  BY <1>1, Places DEF ActorInv, Live
<1>4. /\ queue'[a] = Tail(queue[a]) /\ held'[a] = t
      /\ \A b \in Tasks \ {a} : held'[b] = held[b] /\ queue'[b] = queue[b]
  BY <1>1 DEF Shape
<1>5. \A u \in Tasks : Stage(u)' = Stage(u)
  <2>1. pc'[t] = "held" /\ \A u \in Tasks \ {t} : Stage(u)' = Stage(u)
    BY <1>1, <1>2, StageMoves
  <2>2. Stage(t)' = "waiting" /\ Stage(t) = "waiting"
    BY <1>2, <2>1 DEF Stage
  <2> QED
    BY <2>1, <2>2
<1>6. ASSUME NEW k \in Keys PROVE Backlog(k)' = Backlog(k)
  <2>1. CASE k = key[a]
    <3>1. Backlog(k) = <<>> \o queue[a]
      BY <1>3, <2>1, Zenon DEF Backlog, Holding
    <3>2. inboxes'[k] = a
      BY <1>1, <1>3, <2>1
    <3>3. Backlog(k)' = <<t>> \o Tail(queue[a])
      BY <1>2, <1>3, <1>4, <3>2, Zenon DEF Backlog, Holding
    <3>4. queue[a] \in Seq(Tasks)
      BY <1>1, Places
    <3>5. <<>> \o queue[a] = <<t>> \o Tail(queue[a])
      BY <1>0, <1>1, <3>4, HeadAndTail
    <3> QED
      BY <3>1, <3>3, <3>5
  <2>2. CASE k # key[a]
    BY <1>1, <1>4, <2>2, OtherBacklogs
  <2> QED
    BY <2>1, <2>2
<1> QED
  BY <1>1, <1>5, <1>6, ContractStutters

\* The permit of the task that is accepted leaves room for it in the contract.
LEMMA RoomToAccept ==
    ASSUME CoordInv, NEW t \in Tasks, pc[t] = "admitted"
    PROVE  Cardinality({u \in Tasks : Stage(u) \in {"waiting", "running"}}) < Accepted
<1> DEFINE S == {u \in Tasks : Stage(u) \in {"waiting", "running"}}
<1>1. S \subseteq Admitted \ {t} /\ t \in Admitted /\ Admitted \in SUBSET Tasks
  BY StageOf DEF CoordInv, Admitted
<1>2. /\ Cardinality(Admitted \ {t}) = Cardinality(Admitted) - 1
      /\ Cardinality(Admitted) \in Nat \ {0}
  BY <1>1, CountOut
<1>3. IsFiniteSet(Admitted \ {t})
  BY <1>1, CoordinatorAssumption, FS_Subset DEF CoordinatorAssumption
<1>4. Cardinality(S) <= Cardinality(Admitted \ {t}) /\ Cardinality(S) \in Nat
  BY <1>1, <1>3, FS_Subset, FS_CardinalityType
<1>5. Cardinality(Admitted) <= Accepted /\ Accepted \in Nat
  BY <1>2, CoordinatorAssumption DEF CoordInv, BudgetInv, CoordinatorAssumption
<1> QED
  BY <1>2, <1>4, <1>5

\* A task appended to the channel is appended to the backlog.
LEMMA AppendBehind ==
    ASSUME NEW h \in Seq(Tasks), NEW q \in Seq(Tasks), NEW t \in Tasks
    PROVE  Append(h \o q, t) = h \o Append(q, t)
<1>1. Append(q, t) = q \o <<t>> /\ <<t>> \in Seq(Tasks) /\ h \o q \in Seq(Tasks)
  BY AppendIsConcat, ConcatProperties
<1>2. Append(h \o q, t) = (h \o q) \o <<t>>
  BY <1>1, AppendIsConcat
<1>3. (h \o q) \o <<t>> = h \o (q \o <<t>>)
  BY <1>1, ConcatAssociative
<1> QED
  BY <1>1, <1>2, <1>3

\* dispatch() accepts a task, with the actor of its session or with a new one.
LEMMA AcceptSimulates ==
    ASSUME CoordInv, NEW t \in Tasks, Enqueue(t) \/ Spawn(t)
    PROVE  Contract!Accept(t)
<1>1. /\ Shape /\ ActorInv /\ UNCHANGED <<key, held>> /\ pc[t] = "admitted"
      /\ Move(t, "queued") /\ "queued" \in TaskPcs /\ key[t] \in Keys
  BY Places DEF CoordInv, Enqueue, Spawn, TaskPcs
<1>2. Stage(t) = "upstream" /\ Stage(t)' = "waiting" /\ \A u \in Tasks \ {t} : Stage(u)' = Stage(u)
  <2>1. pc'[t] = "queued" /\ \A u \in Tasks \ {t} : Stage(u)' = Stage(u)
    BY <1>1, StageMoves
  <2> QED
    BY <1>1, <2>1 DEF Stage
<1>3. /\ Backlog(key[t])' = Append(Backlog(key[t]), t)
      /\ \A k \in Keys \ {key[t]} : Backlog(k)' = Backlog(k)
  <2>1. CASE Enqueue(t)
    <3>0. PICK a : a = inboxes[key[t]]
      OBVIOUS
    <3>1. a # None /\ queue' = [queue EXCEPT ![a] = Append(queue[a], t)] /\ UNCHANGED inboxes
      BY <2>1, <3>0 DEF Enqueue
    <3>2. a \in Tasks /\ key[a] = key[t]
      BY <1>1, <3>0, <3>1, Places DEF ActorInv
    <3>3. queue'[a] = Append(queue[a], t) /\ \A b \in Tasks \ {a} : queue'[b] = queue[b]
      BY <1>1, <3>1, <3>2 DEF Shape
    <3>4. Holding(a) \in Seq(Tasks) /\ queue[a] \in Seq(Tasks) /\ Holding(a)' = Holding(a)
      BY <1>1, <3>2, BacklogType DEF Holding
    <3>5. Backlog(key[t]) = Holding(a) \o queue[a]
      BY <3>0, <3>1, Zenon DEF Backlog
    <3>6. Backlog(key[t])' = Holding(a) \o Append(queue[a], t)
      <4>1. inboxes'[key'[t]] = a
        BY <1>1, <3>0, <3>1
      <4> QED
        BY <1>1, <3>1, <3>3, <4>1 DEF Backlog, Holding
    <3>7. Append(Holding(a) \o queue[a], t) = Holding(a) \o Append(queue[a], t)
      BY <3>4, AppendBehind
    <3>8. \A k \in Keys \ {key[t]} : Backlog(k)' = Backlog(k)
      BY <1>1, <3>1, <3>2, <3>3, OtherBacklogs
    <3> QED
      BY <3>5, <3>6, <3>7, <3>8
  <2>2. CASE Spawn(t)
    <3>1. /\ inboxes[key[t]] = None /\ inboxes' = [inboxes EXCEPT ![key[t]] = t]
          /\ queue' = [queue EXCEPT ![t] = <<t>>] /\ None \notin Tasks
      BY <1>1, <2>2, Places DEF Spawn
    <3>2. apc[t] = "none" /\ held[t] = None
      BY <1>1 DEF ActorInv
    <3>3. /\ inboxes'[key[t]] = t /\ \A k \in Keys \ {key[t]} : inboxes'[k] = inboxes[k]
          /\ queue'[t] = <<t>> /\ \A b \in Tasks \ {t} : queue'[b] = queue[b]
      BY <1>1, <3>1 DEF Shape
    <3>4. Backlog(key[t]) = <<>>
      BY <3>1 DEF Backlog
    <3>5. Backlog(key[t])' = <<>> \o <<t>>
      <4>1. inboxes'[key'[t]] = t /\ held'[t] = None /\ t # None
        BY <1>1, <3>1, <3>2, <3>3
      <4> QED
        BY <3>3, <4>1, Zenon DEF Backlog, Holding
    <3>6. \A k \in Keys \ {key[t]} : Backlog(k)' = Backlog(k)
      <4> TAKE k \in Keys \ {key[t]}
      <4>1. inboxes[k] # None => inboxes[k] \in Tasks /\ inboxes[k] # t
        BY <1>1, Places DEF ActorInv
      <4> QED
        BY <1>1, <3>3, <4>1 DEF Backlog, Holding
    <3>7. Append(<<>>, t) = <<>> \o <<t>>
      OBVIOUS
    <3> QED
      BY <3>4, <3>5, <3>6, <3>7
  <2> QED
    BY <2>1, <2>2
<1> DEFINE stage == [u \in Tasks |-> Stage(u)]
           backlog == [k \in Keys |-> Backlog(k)]
<1>4. stage' = [stage EXCEPT ![t] = "waiting"]
  BY <1>2
<1>5. backlog' = [backlog EXCEPT ![key[t]] = Append(backlog[key[t]], t)]
  BY <1>1, <1>3
<1>6. stage[t] = "upstream"
  BY <1>2
<1>7. Cardinality({u \in Tasks : stage[u] \in {"waiting", "running"}}) < Accepted
  <2>1. {u \in Tasks : stage[u] \in {"waiting", "running"}}
            = {u \in Tasks : Stage(u) \in {"waiting", "running"}}
    OBVIOUS
  <2> QED
    BY <1>1, <2>1, RoomToAccept
<1> QED
  BY <1>1, <1>4, <1>5, <1>6, <1>7, ContractCounts DEF Contract!Accept, Contract!At

\* The permit that is granted leaves room in the budget of the gateway, and the branch of the
\* select! that took the task leaves room in that of the session.
LEMMA RoomToStart ==
    ASSUME CoordInv, NEW a \in Tasks, apc[a] = "acquire", execution > 0
    PROVE  /\ Cardinality(Executing) < Executions
           /\ Cardinality({u \in Executing : key[u] = key[a]}) < SessionExecutions
<1>1. Shape /\ ActorInv /\ TaskInv /\ key[a] \in Keys /\ Executing \in SUBSET Tasks
  BY Places DEF CoordInv, Executing
<1>2. inboxes[key[a]] = a
  BY <1>1 DEF ActorInv, Live
<1>3. {u \in Executing : key[u] = key[a]} \subseteq running[a]
  BY <1>1, <1>2 DEF TaskInv, Executing
<1>4. /\ IsFiniteSet(Tasks) /\ Executions \in Nat /\ SessionExecutions \in Nat
      /\ running[a] \in SUBSET Tasks
  BY <1>1, Places, CoordinatorAssumption DEF CoordinatorAssumption
<1>5. IsFiniteSet(running[a]) /\ IsFiniteSet(Executing)
  BY <1>1, <1>4, FS_Subset
<1>6. /\ Cardinality({u \in Executing : key[u] = key[a]}) <= Cardinality(running[a])
      /\ Cardinality({u \in Executing : key[u] = key[a]}) \in Nat
      /\ Cardinality(running[a]) \in Nat /\ Cardinality(Executing) \in Nat
  BY <1>3, <1>5, FS_Subset, FS_CardinalityType
<1>7. Cardinality(running[a]) < SessionExecutions
  BY DEF CoordInv, SessionInv
<1>8. execution \in Nat /\ execution + Cardinality(Executing) = Executions
  BY DEF CoordInv, BudgetInv
<1> QED
  BY <1>4, <1>6, <1>7, <1>8

\* Head and tail of a sequence with an element in front.
LEMMA HeadOfCons ==
    ASSUME NEW q \in Seq(Tasks), NEW t \in Tasks
    PROVE  <<t>> \o q # <<>> /\ Head(<<t>> \o q) = t /\ Tail(<<t>> \o q) = q
<1>1. <<t>> \in Seq(Tasks) /\ Len(<<t>>) = 1
  OBVIOUS
<1>2. /\ <<t>> \o q \in Seq(Tasks) /\ Len(<<t>> \o q) = 1 + Len(q) /\ Len(q) \in Nat
      /\ (<<t>> \o q)[1] = t /\ \A i \in 1..Len(q) : (<<t>> \o q)[i + 1] = q[i]
  BY <1>1, ConcatProperties
<1> DEFINE s == <<t>> \o q
<1> HIDE DEF s
<1>3. s \in Seq(Tasks) /\ Len(s) = 1 + Len(q) /\ s[1] = t /\ \A i \in 1..Len(q) : s[i + 1] = q[i]
  BY <1>2 DEF s
<1>4. s # <<>> /\ Head(s) = t
  BY <1>2, <1>3
<1>5. Tail(s) \in Seq(Tasks) /\ Len(Tail(s)) = Len(q) /\ \A i \in 1..Len(q) : Tail(s)[i] = q[i]
  BY <1>2, <1>3, <1>4, HeadTailProperties
<1>6. Tail(s) = q
  BY <1>5, SeqEqual
<1> QED
  BY <1>4, <1>6 DEF s

\* The oldest waiter starts the task it holds, which is the oldest of its session.
LEMMA StartSimulates ==
    ASSUME CoordInv, Execute
    PROVE  \E k \in Keys : Contract!Start(k)
<1>0. PICK a, t : a = Head(waiters) /\ t = held[a]
  OBVIOUS
<1>1. /\ Shape /\ ActorInv /\ TaskInv /\ WaitInv /\ waiters # <<>> /\ execution > 0
      /\ held' = [held EXCEPT ![a] = None] /\ Move(t, "running")
      /\ "running" \in TaskPcs /\ UNCHANGED <<key, inboxes, queue>>
  BY <1>0 DEF CoordInv, Execute, TaskPcs
<1>2. a \in Tasks /\ apc[a] = "acquire" /\ a # None /\ key[a] \in Keys
  <2>1. 1 \in 1..Len(waiters) /\ a = waiters[1]
    BY <1>0, <1>1, Places
  <2> QED
    BY <1>1, <2>1, Places DEF WaitInv
<1>3. t \in Tasks /\ t # None /\ pc[t] = "held" /\ inboxes[key[a]] = a
  BY <1>0, <1>1, <1>2, Places DEF ActorInv, Live, TaskInv
<1>4. held'[a] = None /\ \A b \in Tasks \ {a} : held'[b] = held[b]
  BY <1>1, <1>2 DEF Shape
<1>5. Stage(t) = "waiting" /\ Stage(t)' = "running" /\ \A u \in Tasks \ {t} : Stage(u)' = Stage(u)
  <2>1. pc'[t] = "running" /\ \A u \in Tasks \ {t} : Stage(u)' = Stage(u)
    BY <1>1, <1>3, StageMoves
  <2> QED
    BY <1>3, <2>1 DEF Stage
<1>6. PICK k \in Keys : k = key[a]
  BY <1>2
<1>7. Backlog(k) # <<>> /\ Head(Backlog(k)) = t /\ Tail(Backlog(k)) = queue[a]
  <2>1. Backlog(k) = <<t>> \o queue[a]
    BY <1>0, <1>2, <1>3, <1>6, Zenon DEF Backlog, Holding
  <2>2. queue[a] \in Seq(Tasks) /\ <<t>> \in Seq(Tasks)
    BY <1>1, <1>2, <1>3, Places
  <2> QED
    BY <2>1, <2>2, HeadOfCons
<1>8. Backlog(k)' = queue[a] /\ \A l \in Keys \ {k} : Backlog(l)' = Backlog(l)
  <2>1. inboxes'[k] = a /\ queue'[a] = queue[a] /\ queue[a] \in Seq(Tasks)
    BY <1>1, <1>2, <1>3, <1>6, Places
  <2>2. Backlog(k)' = <<>> \o queue[a]
    BY <1>2, <1>4, <2>1, Zenon DEF Backlog, Holding
  <2>3. <<>> \o queue[a] = queue[a]
    BY <2>1, ConcatEmptySeq
  <2> QED
    BY <1>1, <1>2, <1>4, <1>6, <2>2, <2>3, OtherBacklogs
<1> DEFINE stage == [u \in Tasks |-> Stage(u)]
           backlog == [l \in Keys |-> Backlog(l)]
<1>9. backlog[k] = Backlog(k)
  OBVIOUS
<1>10. stage' = [stage EXCEPT ![Head(backlog[k])] = "running"] /\ stage[Head(backlog[k])] = "waiting"
  BY <1>3, <1>5, <1>7, <1>9
<1>11. backlog' = [backlog EXCEPT ![k] = Tail(backlog[k])] /\ backlog[k] # <<>>
  BY <1>7, <1>8, <1>9
<1>12. /\ Cardinality({u \in Tasks : stage[u] \in {"running"}}) < Executions
       /\ Cardinality({u \in {v \in Tasks : stage[v] \in {"running"}} : key[u] = k})
              < SessionExecutions
  <2>1. {u \in Tasks : stage[u] \in {"running"}} = Executing
    BY <1>1, StageOf DEF Executing
  <2>2. {u \in {v \in Tasks : stage[v] \in {"running"}} : key[u] = k}
            = {u \in Executing : key[u] = key[a]}
    BY <1>6, <2>1
  <2> QED
    BY <1>1, <1>2, <2>1, <2>2, RoomToStart
<1>13. Contract!Start(k)
  BY <1>1, <1>10, <1>11, <1>12, ContractCounts DEF Contract!Start, Contract!At
<1> QED
  BY <1>13

\* An execution ends.
LEMMA EndSimulates ==
    ASSUME CoordInv, NEW t \in Tasks, Finish(t)
    PROVE  Contract!End(t)
<1>1. /\ Shape /\ UNCHANGED <<key, inboxes, held, queue>> /\ pc[t] = "running"
      /\ Move(t, "finished") /\ "finished" \in TaskPcs
  BY DEF CoordInv, Finish, actorVars, TaskPcs
<1>2. Stage(t) = "running" /\ Stage(t)' = "done" /\ \A u \in Tasks \ {t} : Stage(u)' = Stage(u)
  <2>1. pc'[t] = "finished" /\ \A u \in Tasks \ {t} : Stage(u)' = Stage(u)
    BY <1>1, StageMoves
  <2> QED
    BY <1>1, <2>1 DEF Stage
<1>3. \A k \in Keys : Backlog(k)' = Backlog(k)
  BY <1>1 DEF Backlog, Holding
<1> DEFINE stage == [u \in Tasks |-> Stage(u)]
           backlog == [k \in Keys |-> Backlog(k)]
<1>4. stage' = [stage EXCEPT ![t] = "done"] /\ stage[t] = "running" /\ backlog' = backlog
  BY <1>2, <1>3
<1> QED
  BY <1>1, <1>4 DEF Contract!End

\* The coordinator, with its registry, its actors that retire and are spawned again, and its
\* permits, implements one queue for each session: DispatchContract.
THEOREM CoordinatorImplementsContract == Spec => ImplementsDispatch
<1>1. Init => Contract!Init
  <2> SUFFICES ASSUME Init PROVE Contract!Init
    OBVIOUS
  <2>1. \A t \in Tasks : Stage(t) = "upstream"
    BY DEF Init, Stage
  <2>2. \A k \in Keys : Backlog(k) = <<>>
    BY DEF Init, Backlog
  <2> QED
    BY <2>1, <2>2 DEF Init, Contract!Init
<1>2. ASSUME CoordInv, [Next]_vars
      PROVE  [Contract!Next]_(Contract!vars)
  <2>1. ASSUME NEW t \in Tasks, Admit(t) \/ Refuse(t) PROVE [Contract!Next]_(Contract!vars)
    BY <1>2, <2>1, UpstreamSimulates
  <2>2. ASSUME NEW t \in Tasks, Enqueue(t) \/ Spawn(t) PROVE [Contract!Next]_(Contract!vars)
    BY <1>2, <2>2, AcceptSimulates DEF Contract!Next
  <2>3. ASSUME NEW t \in Tasks, Finish(t) PROVE [Contract!Next]_(Contract!vars)
    BY <1>2, <2>3, EndSimulates DEF Contract!Next
  <2>4. ASSUME NEW a \in Tasks, Actor(a) PROVE [Contract!Next]_(Contract!vars)
    BY <1>2, <2>4, RetireSimulates, RecvSimulates, JoinSimulates DEF Actor
  <2>5. CASE Execute
    BY <1>2, <2>5, StartSimulates DEF Contract!Next
  <2>6. CASE UNCHANGED vars
    <3>1. UNCHANGED <<key, pc, inboxes, held, queue>>
      BY <2>6 DEF vars, taskVars, actorVars
    <3>2. \A t \in Tasks : Stage(t)' = Stage(t)
      BY <3>1 DEF Stage
    <3>3. \A k \in Keys : Backlog(k)' = Backlog(k)
      BY <3>1 DEF Backlog, Holding
    <3> QED
      BY <3>1, <3>2, <3>3, ContractStutters
  <2> QED
    BY <1>2, <2>1, <2>2, <2>3, <2>4, <2>5, <2>6 DEF Next, Dispatch
<1> QED
  BY <1>1, <1>2, CoordinatorInvariant, PTL DEF Spec, ImplementsDispatch, Contract!Spec
=============================================================================
