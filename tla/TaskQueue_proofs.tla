--------------------------- MODULE TaskQueue_proofs ---------------------------
(***************************************************************************)
(* Proofs about brain/queue/tasks.py for any number of messages, workers,  *)
(* retries and dead letters.                                               *)
(***************************************************************************)
EXTENDS TaskQueue, FiniteSetTheorems, TLAPS

\* What put() and get() do to the messages that wait in the FIFO.
LEMMA AppendWaiting ==
  ASSUME NEW S, NEW s \in Seq(S), NEW m \in S
  PROVE  /\ Append(s, m) \in Seq(S)
         /\ Len(Append(s, m)) = Len(s) + 1
         /\ Range(Append(s, m)) = Range(s) \cup {m}
         /\ IsInjective(s) /\ m \notin Range(s) => IsInjective(Append(s, m))
<1>1. /\ Append(s, m) \in Seq(S)
      /\ Len(s) \in Nat
      /\ DOMAIN s = 1..Len(s)
      /\ DOMAIN Append(s, m) = 1..(Len(s) + 1)
      /\ Len(Append(s, m)) = Len(s) + 1
      /\ \A i \in 1..Len(s) : Append(s, m)[i] = s[i]
      /\ Append(s, m)[Len(s) + 1] = m
  OBVIOUS
<1>2. \A i \in 1..(Len(s) + 1) : i \in 1..Len(s) \/ i = Len(s) + 1
  BY <1>1
<1>3. Range(Append(s, m)) = Range(s) \cup {m}
  BY <1>1, <1>2 DEF Range
<1>4. ASSUME IsInjective(s), m \notin Range(s)
      PROVE  IsInjective(Append(s, m))
  BY <1>1, <1>2, <1>4 DEF IsInjective, Range
<1>5. QED
  BY <1>1, <1>3, <1>4

\* get() on a FIFO without repetitions removes exactly the message it returns.
LEMMA TailWaiting ==
  ASSUME NEW S, NEW s \in Seq(S), s # <<>>
  PROVE  /\ Tail(s) \in Seq(S)
         /\ Head(s) \in S
         /\ Head(s) \in Range(s)
         /\ Len(s) = Len(Tail(s)) + 1
         /\ IsInjective(s) => /\ IsInjective(Tail(s))
                              /\ Range(Tail(s)) = Range(s) \ {Head(s)}
<1>1. /\ Tail(s) \in Seq(S)
      /\ Head(s) \in S
      /\ Len(s) \in Nat
      /\ Len(s) >= 1
      /\ Head(s) = s[1]
      /\ DOMAIN s = 1..Len(s)
      /\ DOMAIN Tail(s) = 1..(Len(s) - 1)
      /\ Len(Tail(s)) = Len(s) - 1
      /\ \A i \in 1..(Len(s) - 1) : Tail(s)[i] = s[i + 1]
  OBVIOUS
<1>2. /\ \A i \in 1..(Len(s) - 1) : i + 1 \in 1..Len(s) /\ i + 1 # 1
      /\ \A i \in 1..Len(s) : i = 1 \/ \E j \in 1..(Len(s) - 1) : i = j + 1
      /\ 1 \in 1..Len(s)
  <2>1. \A i \in 1..Len(s) : i # 1 => i - 1 \in 1..(Len(s) - 1) /\ i = (i - 1) + 1
    BY <1>1
  <2>2. QED
    BY <1>1, <2>1
<1>3. Head(s) \in Range(s)
  BY <1>1, <1>2 DEF Range
<1>4. ASSUME IsInjective(s)
      PROVE  IsInjective(Tail(s))
  BY <1>1, <1>2, <1>4 DEF IsInjective
<1>5. ASSUME IsInjective(s)
      PROVE  Range(Tail(s)) = Range(s) \ {Head(s)}
  <2>1. ASSUME NEW x \in Range(Tail(s))
        PROVE  x \in Range(s) \ {Head(s)}
    BY <1>1, <1>2, <1>5, <2>1 DEF Range, IsInjective
  <2>2. ASSUME NEW x \in Range(s), x # Head(s)
        PROVE  x \in Range(Tail(s))
    <3>1. PICK i \in 1..Len(s) : x = s[i]
      BY <1>1 DEF Range
    <3>2. PICK j \in 1..(Len(s) - 1) : i = j + 1
      BY <1>1, <1>2, <2>2, <3>1
    <3>3. QED
      BY <1>1, <3>1, <3>2 DEF Range
  <2>3. QED
    BY <2>1, <2>2
<1>6. QED
  BY <1>1, <1>3, <1>4, <1>5
------------------------------------------------------------------------------
\* Type correctness of the queue's state (TaskQueue.__init__ and every method).
THEOREM QueueTypeCorrect == QueueSpec => []QueueTypeOK
<1>1. QueueInit => QueueTypeOK
  BY QueueAssumption DEF QueueInit, QueueTypeOK
<1>2. QueueTypeOK /\ [QueueNext]_queueVars => QueueTypeOK'
  <2> SUFFICES ASSUME QueueTypeOK, [QueueNext]_queueVars
               PROVE  QueueTypeOK'
    OBVIOUS
  <2> USE QueueAssumption DEF QueueTypeOK
  <2>1. CASE \E m \in Messages : Enqueue(m)
    BY <2>1, AppendWaiting DEF Enqueue, Put
  <2>2. ASSUME NEW w \in Workers, Dequeue(w)
        PROVE  QueueTypeOK'
    BY <2>2, TailWaiting DEF Dequeue
  <2>3. ASSUME NEW w \in Workers, MarkDone(w)
        PROVE  QueueTypeOK'
    BY <2>3 DEF MarkDone, Release
  <2>4. ASSUME NEW w \in Workers, Retry(w)
        PROVE  QueueTypeOK'
    BY <2>4, AppendWaiting DEF Retry, Release, Put
  <2>5. ASSUME NEW w \in Workers, DeadLetter(w)
        PROVE  QueueTypeOK'
    <3>0. held[w] \in Messages
      BY <2>5 DEF DeadLetter, Bury
    <3>1. CASE Len(deadLetter) < DeadLetterMax
      <4>1. deadLetter' = Append(deadLetter, held[w]) /\ UNCHANGED dropped
        BY <2>5, <3>1 DEF DeadLetter, Bury
      <4>2. deadLetter' \in Seq(Messages)
        BY <3>0, <4>1, AppendWaiting
      <4> QED
        BY <2>5, <4>1, <4>2 DEF DeadLetter, Bury, Release
    <3>2. CASE Len(deadLetter) >= DeadLetterMax
      <4>1. deadLetter # <<>>
        BY <3>2
      <4>2. Tail(deadLetter) \in Seq(Messages)
        BY <4>1, TailWaiting
      <4>3. deadLetter' = Append(Tail(deadLetter), held[w]) /\ dropped' = dropped + 1
        BY <2>5, <3>2 DEF DeadLetter, Bury
      <4>4. deadLetter' \in Seq(Messages)
        BY <3>0, <4>2, <4>3, AppendWaiting
      <4> QED
        BY <2>5, <4>3, <4>4 DEF DeadLetter, Bury, Release
    <3> QED
      BY <2>5, <3>1, <3>2 DEF DeadLetter, Bury
  <2>6. CASE QueueRestart
    BY <2>6 DEF QueueRestart
  <2>7. CASE UNCHANGED queueVars
    BY <2>7 DEF queueVars
  <2>8. QED
    BY <2>1, <2>2, <2>3, <2>4, <2>5, <2>6, <2>7 DEF QueueNext, Requeue
<1>3. QED
  BY <1>1, <1>2, PTL DEF QueueSpec
------------------------------------------------------------------------------
\* A worker that takes a message, and one that lets it go.
LEMMA TakeInHand ==
  ASSUME QueueTypeOK, NEW w \in Workers, NEW m \in Messages,
         held[w] = NoMessage, held' = [held EXCEPT ![w] = m]
  PROVE  /\ w \notin Busy
         /\ Busy' = Busy \cup {w}
         /\ InHand' = InHand \cup {m}
         /\ \A v \in Busy : held'[v] = held[v]
         /\ held'[w] = m
BY QueueAssumption DEF QueueTypeOK, Busy, InHand

\* mark_done() and requeue(): only the worker's own message leaves the hands.
LEMMA LetGo ==
  ASSUME QueueTypeOK, OnePlace, NEW w \in Workers, held[w] # NoMessage, Release(w)
  PROVE  /\ w \in Busy
         /\ Busy' = Busy \ {w}
         /\ held[w] \in Messages
         /\ held[w] \in InHand
         /\ InHand' = InHand \ {held[w]}
         /\ \A v \in Busy' : held'[v] = held[v]
BY QueueAssumption DEF QueueTypeOK, OnePlace, Busy, InHand, Release

\* Every operation of the queue moves one message from one place to another,
\* so none is ever in two (enqueue, dequeue, mark_done, requeue, restart).
LEMMA OnePlaceStep ==
  ASSUME QueueTypeOK, OnePlace, [QueueNext]_queueVars
  PROVE  OnePlace'
<1> USE DEF Waiting
<1>1. ASSUME NEW m \in Messages, Enqueue(m)
      PROVE  OnePlace'
  <2>1. /\ queue' = Append(queue, m)
        /\ UNCHANGED <<held, done, dead>>
        /\ accepted' = accepted \cup {m}
        /\ m \notin accepted
    BY <1>1 DEF Enqueue, Put
  <2>2. /\ Busy' = Busy
        /\ InHand' = InHand
    BY <2>1 DEF Busy, InHand
  <2>3. m \notin Range(queue) /\ m \notin InHand /\ m \notin done \cup dead
    BY <2>1 DEF OnePlace
  <2>4. /\ Range(queue') = Range(queue) \cup {m}
        /\ IsInjective(queue')
    BY <2>1, <2>3, AppendWaiting DEF QueueTypeOK, OnePlace
  <2>5. \A v, u \in Busy' : held'[v] = held'[u] => v = u
    BY <2>1, <2>2 DEF OnePlace
  <2> QED
    BY <2>1, <2>2, <2>3, <2>4, <2>5 DEF OnePlace
<1>2. ASSUME NEW w \in Workers, Dequeue(w)
      PROVE  OnePlace'
  <2> DEFINE m == Head(queue)
  <2>1. /\ queue # <<>>
        /\ held[w] = NoMessage
        /\ held' = [held EXCEPT ![w] = m]
        /\ queue' = Tail(queue)
        /\ UNCHANGED <<accepted, done, dead>>
    BY <1>2 DEF Dequeue
  <2>2. /\ m \in Messages
        /\ m \in Range(queue)
        /\ Range(queue') = Range(queue) \ {m}
        /\ IsInjective(queue')
    BY <2>1, TailWaiting DEF QueueTypeOK, OnePlace
  <2> HIDE DEF m
  <2>3. m \notin InHand /\ m \notin done \cup dead
    BY <2>2 DEF OnePlace
  <2>4. /\ w \notin Busy
        /\ Busy' = Busy \cup {w}
        /\ InHand' = InHand \cup {m}
        /\ \A v \in Busy : held'[v] = held[v]
        /\ held'[w] = m
    BY <2>1, <2>2, TakeInHand
  <2>5. \A v \in Busy : held[v] # m
    BY <2>3 DEF InHand
  <2>6. \A v, u \in Busy' : held'[v] = held'[u] => v = u
    BY <2>4, <2>5 DEF OnePlace
  <2> QED
    BY <2>1, <2>2, <2>3, <2>4, <2>6 DEF OnePlace
<1>3. ASSUME NEW w \in Workers, MarkDone(w)
      PROVE  OnePlace'
  <2>1. /\ held[w] # NoMessage
        /\ Release(w)
        /\ UNCHANGED <<queue, accepted, dead>>
        /\ done' = done \cup {held[w]}
    BY <1>3 DEF MarkDone
  <2>2. /\ Busy' = Busy \ {w}
        /\ held[w] \in InHand
        /\ InHand' = InHand \ {held[w]}
        /\ \A v \in Busy' : held'[v] = held[v]
    BY <2>1, LetGo
  <2>3. \A v, u \in Busy' : held'[v] = held'[u] => v = u
    BY <2>2 DEF OnePlace
  <2> QED
    BY <2>1, <2>2, <2>3 DEF OnePlace
<1>4. ASSUME NEW w \in Workers, Retry(w)
      PROVE  OnePlace'
  <2>1. /\ held[w] # NoMessage
        /\ Release(w)
        /\ queue' = Append(queue, held[w])
        /\ UNCHANGED <<accepted, done, dead>>
    BY <1>4 DEF Retry, Put
  <2>2. /\ Busy' = Busy \ {w}
        /\ held[w] \in Messages
        /\ held[w] \in InHand
        /\ InHand' = InHand \ {held[w]}
        /\ \A v \in Busy' : held'[v] = held[v]
    BY <2>1, LetGo
  <2>3. held[w] \notin Range(queue)
    BY <2>2 DEF OnePlace
  <2>4. /\ Range(queue') = Range(queue) \cup {held[w]}
        /\ IsInjective(queue')
    BY <2>1, <2>2, <2>3, AppendWaiting DEF QueueTypeOK, OnePlace
  <2>5. \A v, u \in Busy' : held'[v] = held'[u] => v = u
    BY <2>2 DEF OnePlace
  <2> QED
    BY <2>1, <2>2, <2>4, <2>5 DEF OnePlace
<1>5. ASSUME NEW w \in Workers, DeadLetter(w)
      PROVE  OnePlace'
  <2>1. /\ held[w] # NoMessage
        /\ Release(w)
        /\ UNCHANGED <<queue, accepted, done>>
        /\ dead' = dead \cup {held[w]}
    BY <1>5 DEF DeadLetter, Bury
  <2>2. /\ Busy' = Busy \ {w}
        /\ held[w] \in InHand
        /\ InHand' = InHand \ {held[w]}
        /\ \A v \in Busy' : held'[v] = held[v]
    BY <2>1, LetGo
  <2>3. \A v, u \in Busy' : held'[v] = held'[u] => v = u
    BY <2>2 DEF OnePlace
  <2> QED
    BY <2>1, <2>2, <2>3 DEF OnePlace
<1>6. CASE QueueRestart
  <2>1. /\ queue' = <<>>
        /\ held' = [w \in Workers |-> NoMessage]
        /\ done' = {}
        /\ dead' = {}
        /\ UNCHANGED accepted
    BY <1>6 DEF QueueRestart
  <2>2. Busy' = {} /\ InHand' = {}
    BY <2>1 DEF Busy, InHand
  <2>3. Range(queue') = {} /\ IsInjective(queue')
    BY <2>1 DEF Range, IsInjective
  <2> QED
    BY <2>1, <2>2, <2>3 DEF OnePlace
<1>7. CASE UNCHANGED queueVars
  BY <1>7 DEF queueVars, OnePlace, Busy, InHand
<1>8. QED
  BY <1>1, <1>2, <1>3, <1>4, <1>5, <1>6, <1>7 DEF QueueNext, Requeue

\* A new TaskQueue holds nothing (TaskQueue.__init__).
LEMMA OnePlaceInit == QueueInit => OnePlace
<1> SUFFICES ASSUME QueueInit PROVE OnePlace
  OBVIOUS
<1>1. Busy = {} /\ InHand = {}
  BY DEF QueueInit, Busy, InHand
<1>2. Waiting = {} /\ IsInjective(queue)
  BY DEF QueueInit, Waiting, Range, IsInjective
<1>3. QED
  BY <1>1, <1>2 DEF QueueInit, OnePlace

\* No message is ever queued twice, held by two workers, or both waiting and
\* settled, however the workers' dequeue, mark_done and requeue interleave.
THEOREM OnePlaceAlways == QueueSpec => []OnePlace
<1>1. QED
  BY OnePlaceInit, OnePlaceStep, QueueTypeCorrect, PTL DEF QueueSpec
------------------------------------------------------------------------------
\* The next steps of the proofs below assume the two invariants proved above.
QueueInv == QueueTypeOK /\ OnePlace

\* Both hold of every reachable state of the queue.
LEMMA QueueInvAlways == QueueSpec => []QueueInv
BY QueueTypeCorrect, OnePlaceAlways, PTL DEF QueueInv

\* A dead-lettered message has used every retry: requeue() compares the count
\* of the very object it appends, and nobody else can touch it meanwhile.
THEOREM DeadHaveNoRetriesLeft == QueueSpec => []DeadOnlyAfterRetries
<1>1. QueueInit => DeadOnlyAfterRetries
  BY DEF QueueInit, DeadOnlyAfterRetries
<1>2. QueueInv /\ DeadOnlyAfterRetries /\ [QueueNext]_queueVars => DeadOnlyAfterRetries'
  <2> SUFFICES ASSUME QueueInv, DeadOnlyAfterRetries, [QueueNext]_queueVars
               PROVE  DeadOnlyAfterRetries'
    OBVIOUS
  <2> USE DEF QueueInv, DeadOnlyAfterRetries
  <2>1. ASSUME NEW w \in Workers, Retry(w)
        PROVE  DeadOnlyAfterRetries'
    <3>1. held[w] \notin dead
      BY <2>1 DEF Retry, OnePlace, InHand, Busy
    <3>2. dead' = dead /\ retries' = [retries EXCEPT ![held[w]] = @ + 1]
      BY <2>1 DEF Retry
    <3> QED
      BY <3>1, <3>2 DEF QueueTypeOK
  <2>2. ASSUME NEW w \in Workers, DeadLetter(w)
        PROVE  DeadOnlyAfterRetries'
    <3>1. /\ held[w] \in Messages
          /\ retries[held[w]] >= MaxRetries
          /\ dead' = dead \cup {held[w]}
          /\ retries' = retries
      BY <2>2 DEF DeadLetter, Bury, QueueTypeOK
    <3>2. retries[held[w]] = MaxRetries
      BY <3>1, QueueAssumption DEF QueueTypeOK
    <3> QED
      BY <3>1, <3>2
  <2>3. ASSUME NEW m \in Messages, Enqueue(m)
        PROVE  DeadOnlyAfterRetries'
    BY <2>3 DEF Enqueue
  <2>4. ASSUME NEW w \in Workers, Dequeue(w) \/ MarkDone(w)
        PROVE  DeadOnlyAfterRetries'
    BY <2>4 DEF Dequeue, MarkDone
  <2>5. CASE QueueRestart
    BY <2>5 DEF QueueRestart
  <2>6. CASE UNCHANGED queueVars
    BY <2>6 DEF queueVars
  <2>7. QED
    BY <2>1, <2>2, <2>3, <2>4, <2>5, <2>6 DEF QueueNext, Requeue
<1>3. QED
  BY <1>1, <1>2, QueueInvAlways, PTL DEF QueueSpec
------------------------------------------------------------------------------
\* The workers that hold a message can be counted: taking one adds one, and
\* letting go subtracts one.
LEMMA BusyFinite ==
  /\ IsFiniteSet(Busy)
  /\ Cardinality(Busy) \in Nat
<1>1. Busy \in SUBSET Workers
  BY DEF Busy
<1>2. QED
  BY <1>1, QueueAssumption, FS_Subset, FS_CardinalityType DEF QueueAssumption

\* task_done() is never called more often than put(), so mark_done() cannot
\* raise inside the worker's try block and send a finished job back.
THEOREM TaskDoneIsSafe == QueueSpec => []TaskDoneNeverRaises
<1>1. QueueInit => TaskDoneNeverRaises
  <2> SUFFICES ASSUME QueueInit PROVE TaskDoneNeverRaises
    OBVIOUS
  <2>1. Busy = {}
    BY DEF QueueInit, Busy
  <2>2. QED
    BY <2>1, FS_EmptySet DEF QueueInit, TaskDoneNeverRaises
<1>2. QueueInv /\ TaskDoneNeverRaises /\ [QueueNext]_queueVars => TaskDoneNeverRaises'
  <2> SUFFICES ASSUME QueueInv, TaskDoneNeverRaises, [QueueNext]_queueVars
               PROVE  TaskDoneNeverRaises'
    OBVIOUS
  <2> USE DEF QueueInv, TaskDoneNeverRaises
  <2>0. /\ unfinished \in Int
        /\ Len(queue) \in Nat
        /\ IsFiniteSet(Busy)
        /\ Cardinality(Busy) \in Nat
    BY BusyFinite DEF QueueTypeOK
  <2>1. ASSUME NEW m \in Messages, Enqueue(m)
        PROVE  TaskDoneNeverRaises'
    <3>1. queue' = Append(queue, m) /\ unfinished' = unfinished + 1 /\ held' = held
      BY <2>1 DEF Enqueue, Put
    <3>2. Len(queue') = Len(queue) + 1 /\ Busy' = Busy
      BY <3>1, AppendWaiting DEF QueueTypeOK, Busy
    <3> QED
      BY <2>0, <3>1, <3>2
  <2>2. ASSUME NEW w \in Workers, Dequeue(w)
        PROVE  TaskDoneNeverRaises'
    <3>1. /\ queue # <<>>
          /\ held[w] = NoMessage
          /\ held' = [held EXCEPT ![w] = Head(queue)]
          /\ queue' = Tail(queue)
          /\ unfinished' = unfinished
      BY <2>2 DEF Dequeue
    <3>2. Len(queue) = Len(queue') + 1 /\ Head(queue) \in Messages
      BY <3>1, TailWaiting DEF QueueTypeOK
    <3>3. w \notin Busy /\ Busy' = Busy \cup {w}
      BY <3>1, <3>2, TakeInHand
    <3>4. Cardinality(Busy') = Cardinality(Busy) + 1
      BY <2>0, <3>3, FS_AddElement
    <3>5. Len(queue') \in Nat
      BY <3>1, TailWaiting DEF QueueTypeOK
    <3> QED
      BY <2>0, <3>1, <3>2, <3>4, <3>5
  <2>3. ASSUME NEW w \in Workers, held[w] # NoMessage, Release(w)
        PROVE  Cardinality(Busy') = Cardinality(Busy) - 1
    <3>1. w \in Busy /\ Busy' = Busy \ {w}
      BY <2>3, LetGo
    <3> QED
      BY <2>0, <3>1, FS_RemoveElement
  <2>4. ASSUME NEW w \in Workers, MarkDone(w)
        PROVE  TaskDoneNeverRaises'
    <3>1. Cardinality(Busy') = Cardinality(Busy) - 1
      BY <2>3, <2>4 DEF MarkDone
    <3>2. unfinished' = unfinished - 1 /\ queue' = queue
      BY <2>4 DEF MarkDone
    <3> QED
      BY <2>0, <3>1, <3>2
  <2>5. ASSUME NEW w \in Workers, Retry(w)
        PROVE  TaskDoneNeverRaises'
    <3>1. Cardinality(Busy') = Cardinality(Busy) - 1
      BY <2>3, <2>5 DEF Retry
    <3>2. unfinished' = unfinished + 1 /\ queue' = Append(queue, held[w])
      BY <2>5 DEF Retry, Put
    <3>3. held[w] \in Messages
      BY <2>5 DEF Retry, QueueTypeOK
    <3>4. Len(queue') = Len(queue) + 1
      BY <3>2, <3>3, AppendWaiting DEF QueueTypeOK
    <3> QED
      BY <2>0, <3>1, <3>2, <3>4
  <2>6. ASSUME NEW w \in Workers, DeadLetter(w)
        PROVE  TaskDoneNeverRaises'
    <3>1. Cardinality(Busy') = Cardinality(Busy) - 1
      BY <2>3, <2>6 DEF DeadLetter, Bury
    <3>2. unfinished' = unfinished /\ queue' = queue
      BY <2>6 DEF DeadLetter, Bury
    <3> QED
      BY <2>0, <3>1, <3>2
  <2>7. CASE QueueRestart
    <3>1. queue' = <<>> /\ unfinished' = 0 /\ held' = [w \in Workers |-> NoMessage]
      BY <2>7 DEF QueueRestart
    <3>2. Busy' = {}
      BY <3>1 DEF Busy
    <3> QED
      BY <3>1, <3>2, FS_EmptySet
  <2>8. CASE UNCHANGED queueVars
    BY <2>8 DEF queueVars, Busy
  <2>9. QED
    BY <2>1, <2>2, <2>4, <2>5, <2>6, <2>7, <2>8 DEF QueueNext, Requeue
<1>3. QED
  BY <1>1, <1>2, QueueInvAlways, PTL DEF QueueSpec
------------------------------------------------------------------------------
\* The settled messages can be counted.
LEMMA SettledFinite ==
  ASSUME QueueTypeOK
  PROVE  IsFiniteSet(done) /\ IsFiniteSet(dead)
BY QueueAssumption, FS_Subset DEF QueueTypeOK

\* processed_count counts the jobs that mark_done settled, and the dead-letter
\* deque together with its drop counter counts those that were given up.
THEOREM CountersAlwaysExact == QueueSpec => []CountersExact
<1>1. QueueInit => CountersExact
  BY QueueAssumption, FS_EmptySet DEF QueueInit, CountersExact
<1>2. QueueInv /\ CountersExact /\ [QueueNext]_queueVars => CountersExact'
  <2> SUFFICES ASSUME QueueInv, CountersExact, [QueueNext]_queueVars
               PROVE  CountersExact'
    OBVIOUS
  <2> USE QueueAssumption DEF QueueInv, CountersExact
  <2>0. IsFiniteSet(done) /\ IsFiniteSet(dead) /\ dropped \in Nat /\ Len(deadLetter) \in Nat
    BY SettledFinite DEF QueueTypeOK
  <2>1. ASSUME NEW m \in Messages, Enqueue(m)
        PROVE  CountersExact'
    BY <2>1 DEF Enqueue
  <2>2. ASSUME NEW w \in Workers, Dequeue(w) \/ Retry(w)
        PROVE  CountersExact'
    BY <2>2 DEF Dequeue, Retry
  <2>3. ASSUME NEW w \in Workers, MarkDone(w)
        PROVE  CountersExact'
    <3>1. /\ processed' = processed + 1
          /\ done' = done \cup {held[w]}
          /\ UNCHANGED <<deadLetter, dropped, dead>>
      BY <2>3 DEF MarkDone
    <3>2. held[w] \notin done
      BY <2>3 DEF MarkDone, OnePlace, InHand, Busy
    <3>3. Cardinality(done') = Cardinality(done) + 1
      BY <2>0, <3>1, <3>2, FS_AddElement
    <3> QED
      BY <3>1, <3>3
  <2>4. ASSUME NEW w \in Workers, DeadLetter(w)
        PROVE  CountersExact'
    <3>1. /\ dead' = dead \cup {held[w]}
          /\ UNCHANGED <<processed, done>>
          /\ held[w] \in Messages
      BY <2>4 DEF DeadLetter, Bury, QueueTypeOK
    <3>2. held[w] \notin dead
      BY <2>4 DEF DeadLetter, Bury, OnePlace, InHand, Busy
    <3>3. Cardinality(dead') = Cardinality(dead) + 1
      BY <2>0, <3>1, <3>2, FS_AddElement
    <3>4. CASE Len(deadLetter) < DeadLetterMax
      <4>1. deadLetter' = Append(deadLetter, held[w]) /\ dropped' = dropped
        BY <2>4, <3>4 DEF DeadLetter, Bury
      <4>2. Len(deadLetter') = Len(deadLetter) + 1
        BY <3>1, <4>1, AppendWaiting DEF QueueTypeOK
      <4> QED
        BY <2>0, <3>1, <3>3, <3>4, <4>1, <4>2
    <3>5. CASE Len(deadLetter) >= DeadLetterMax
      <4>1. deadLetter' = Append(Tail(deadLetter), held[w]) /\ dropped' = dropped + 1
        BY <2>4, <3>5 DEF DeadLetter, Bury
      <4>2. deadLetter # <<>>
        BY <3>5
      <4>3. Tail(deadLetter) \in Seq(Messages) /\ Len(deadLetter) = Len(Tail(deadLetter)) + 1
        BY <4>2, TailWaiting DEF QueueTypeOK
      <4>4. Len(deadLetter') = Len(Tail(deadLetter)) + 1
        BY <3>1, <4>1, <4>3, AppendWaiting
      <4> QED
        BY <2>0, <3>1, <3>3, <4>1, <4>3, <4>4
    <3> QED
      BY <2>0, <3>4, <3>5
  <2>5. CASE QueueRestart
    BY <2>5, FS_EmptySet DEF QueueRestart
  <2>6. CASE UNCHANGED queueVars
    BY <2>6 DEF queueVars
  <2>7. QED
    BY <2>1, <2>2, <2>3, <2>4, <2>5, <2>6 DEF QueueNext, Requeue
<1>3. QED
  BY <1>1, <1>2, QueueInvAlways, PTL DEF QueueSpec
------------------------------------------------------------------------------
\* The refinement: one message changes its status, the others keep theirs.
LEMMA LifecycleStep ==
  ASSUME QueueInv, QueueInv', [QueueNext]_queueVars
  PROVE  [Lifecycle!LifecycleNext]_(Lifecycle!vars)
<1> USE DEF QueueInv, Waiting
<1>1. ASSUME NEW m \in Messages, Enqueue(m)
      PROVE  Lifecycle!Submit(m)
  <2>1. /\ m \notin accepted
        /\ accepted' = accepted \cup {m}
        /\ queue' = Append(queue, m)
        /\ UNCHANGED <<held, retries, done, dead>>
    BY <1>1 DEF Enqueue, Put
  <2>2. Range(queue') = Range(queue) \cup {m}
    BY <2>1, AppendWaiting DEF QueueTypeOK
  <2>3. InHand' = InHand
    BY <2>1 DEF InHand, Busy
  <2>4. \A x \in Messages : StatusOf(x)' =
          IF x = m THEN "queued" ELSE StatusOf(x)
    BY <2>1, <2>2, <2>3 DEF StatusOf
  <2> QED
    BY <2>1, <2>4 DEF Lifecycle!Submit, Lifecycle!Move, StatusOf
<1>2. ASSUME NEW w \in Workers, Dequeue(w)
      PROVE  \E m \in Messages : Lifecycle!Start(m)
  <2> DEFINE m == Head(queue)
  <2>1. /\ queue # <<>>
        /\ held[w] = NoMessage
        /\ held' = [held EXCEPT ![w] = m]
        /\ queue' = Tail(queue)
        /\ UNCHANGED <<accepted, retries, done, dead>>
    BY <1>2 DEF Dequeue
  <2>2. m \in Messages /\ m \in Range(queue) /\ Range(queue') = Range(queue) \ {m}
    BY <2>1, TailWaiting DEF QueueTypeOK, OnePlace
  <2> HIDE DEF m
  <2>3. InHand' = InHand \cup {m}
    BY <2>1, <2>2, TakeInHand
  <2>4. m \in accepted /\ StatusOf(m) = "queued"
    BY <2>2 DEF StatusOf, OnePlace
  <2>5. \A x \in Messages : StatusOf(x)' =
          IF x = m THEN "running" ELSE StatusOf(x)
    BY <2>1, <2>2, <2>3, <2>4 DEF StatusOf
  <2>6. Lifecycle!Start(m)
    BY <2>1, <2>2, <2>4, <2>5 DEF Lifecycle!Start, Lifecycle!Move
  <2> QED
    BY <2>2, <2>6
<1>3. ASSUME NEW w \in Workers, MarkDone(w)
      PROVE  \E m \in Messages : Lifecycle!Finish(m)
  <2>1. /\ held[w] # NoMessage
        /\ Release(w)
        /\ UNCHANGED <<queue, accepted, retries, dead>>
        /\ done' = done \cup {held[w]}
    BY <1>3 DEF MarkDone
  <2>2. /\ held[w] \in Messages
        /\ held[w] \in InHand
        /\ InHand' = InHand \ {held[w]}
    BY <2>1, LetGo
  <2>3. StatusOf(held[w]) = "running"
    BY <2>2 DEF StatusOf, OnePlace
  <2>4. /\ held[w] \in accepted /\ held[w] \notin Range(queue)
        /\ held[w] \notin InHand' /\ held[w] \in done'
    BY <2>1, <2>2 DEF OnePlace
  <2>5. \A x \in Messages : StatusOf(x)' =
          IF x = held[w] THEN "done" ELSE StatusOf(x)
    BY <2>1, <2>2, <2>4 DEF StatusOf
  <2>6. Lifecycle!Move(held[w], "running", "done")
    BY <2>2, <2>3, <2>5 DEF Lifecycle!Move
  <2> QED
    BY <2>1, <2>2, <2>6 DEF Lifecycle!Finish
<1>4. ASSUME NEW w \in Workers, Retry(w)
      PROVE  \E m \in Messages : Lifecycle!TryAgain(m)
  <2>1. /\ held[w] # NoMessage
        /\ Release(w)
        /\ queue' = Append(queue, held[w])
        /\ retries[held[w]] < MaxRetries
        /\ retries' = [retries EXCEPT ![held[w]] = @ + 1]
        /\ UNCHANGED <<accepted, done, dead>>
    BY <1>4 DEF Retry, Put
  <2>2. /\ held[w] \in Messages
        /\ held[w] \in InHand
        /\ InHand' = InHand \ {held[w]}
    BY <2>1, LetGo
  <2>3. Range(queue') = Range(queue) \cup {held[w]}
    BY <2>1, <2>2, AppendWaiting DEF QueueTypeOK
  <2>4. StatusOf(held[w]) = "running"
    BY <2>2 DEF StatusOf, OnePlace
  <2>5. held[w] \in accepted
    BY <2>2 DEF OnePlace
  <2>6. \A x \in Messages : StatusOf(x)' =
          IF x = held[w] THEN "queued" ELSE StatusOf(x)
    BY <2>1, <2>2, <2>3, <2>5 DEF StatusOf
  <2>7. Lifecycle!Move(held[w], "running", "queued")
    BY <2>2, <2>4, <2>6 DEF Lifecycle!Move
  <2> QED
    BY <2>1, <2>2, <2>7 DEF Lifecycle!TryAgain
<1>5. ASSUME NEW w \in Workers, DeadLetter(w)
      PROVE  \E m \in Messages : Lifecycle!GiveUp(m)
  <2>1. /\ held[w] # NoMessage
        /\ Release(w)
        /\ retries[held[w]] >= MaxRetries
        /\ UNCHANGED <<queue, accepted, retries, done>>
        /\ dead' = dead \cup {held[w]}
    BY <1>5 DEF DeadLetter, Bury
  <2>2. /\ held[w] \in Messages
        /\ held[w] \in InHand
        /\ InHand' = InHand \ {held[w]}
    BY <2>1, LetGo
  <2>3. StatusOf(held[w]) = "running"
    BY <2>2 DEF StatusOf, OnePlace
  <2>4. /\ held[w] \in accepted /\ held[w] \notin Range(queue)
        /\ held[w] \notin InHand' /\ held[w] \notin done /\ held[w] \in dead'
    BY <2>1, <2>2 DEF OnePlace
  <2>5. \A x \in Messages : StatusOf(x)' =
          IF x = held[w] THEN "dead" ELSE StatusOf(x)
    BY <2>1, <2>2, <2>4 DEF StatusOf
  <2>6. Lifecycle!Move(held[w], "running", "dead")
    BY <2>2, <2>3, <2>5 DEF Lifecycle!Move
  <2> QED
    BY <2>1, <2>2, <2>6 DEF Lifecycle!GiveUp
<1>6. CASE QueueRestart
  <2>1. /\ queue' = <<>>
        /\ held' = [w \in Workers |-> NoMessage]
        /\ done' = {} /\ dead' = {}
        /\ UNCHANGED <<accepted, retries>>
    BY <1>6 DEF QueueRestart
  <2>2. Range(queue') = {} /\ InHand' = {}
    BY <2>1 DEF Range, InHand, Busy
  <2>3. \A x \in Messages : StatusOf(x) = "new" <=> x \notin accepted
    BY DEF StatusOf
  <2>4. \A x \in Messages : StatusOf(x)' =
          IF StatusOf(x) = "new" THEN "new" ELSE "gone"
    BY <2>1, <2>2, <2>3 DEF StatusOf
  <2>5. Lifecycle!Vanish
    BY <2>1, <2>4 DEF Lifecycle!Vanish
  <2> QED
    BY <2>5 DEF Lifecycle!LifecycleNext
<1>7. CASE UNCHANGED queueVars
  <2>1. \A x \in Messages : StatusOf(x)' = StatusOf(x)
    BY <1>7 DEF queueVars, StatusOf, InHand, Busy
  <2> QED
    BY <1>7, <2>1 DEF queueVars, Lifecycle!vars
<1>8. QED
  BY <1>1, <1>2, <1>3, <1>4, <1>5, <1>6, <1>7
     DEF QueueNext, Requeue, Lifecycle!LifecycleNext

\* The task queue implements the life cycle of a job that JobLifecycle states.
THEOREM QueueRefinesLifecycle == QueueSpec => LifecycleRefined
<1>1. QueueInit => Lifecycle!LifecycleInit
  BY DEF QueueInit, Lifecycle!LifecycleInit, StatusOf
<1>2. QueueInv /\ QueueInv' /\ [QueueNext]_queueVars
        => [Lifecycle!LifecycleNext]_(Lifecycle!vars)
  BY LifecycleStep
<1>3. QED
  BY <1>1, <1>2, QueueInvAlways, PTL
     DEF QueueSpec, LifecycleRefined, Lifecycle!LifecycleSpec
==============================================================================
