------------------------------ MODULE TaskQueue ------------------------------
(***************************************************************************)
(* brain/queue/tasks.py: the in-process TaskQueue shared by the producers  *)
(* (webhook routes, tenant scheduler) and the worker threads.  A message   *)
(* is a mutable object that travels from the FIFO to the worker that holds *)
(* it and back; its retry_count travels with it.                           *)
(***************************************************************************)
EXTENDS Integers, Sequences, FiniteSets, Functions

CONSTANTS Messages,      \* message ids (secrets.token_hex: never reused)
          Workers,       \* threads that run QueueWorker._run_loop
          MaxRetries,    \* QueueMessage.max_retries
          DeadLetterMax, \* TaskQueue.DEAD_LETTER_MAX_SIZE
          NoMessage      \* a worker that holds no message

ASSUME QueueAssumption ==
  /\ IsFiniteSet(Messages)
  /\ IsFiniteSet(Workers)
  /\ NoMessage \notin Messages
  /\ MaxRetries \in Nat
  /\ DeadLetterMax \in Nat \ {0}

VARIABLES queue,       \* _queue: waiting messages, oldest first
          held,        \* the message each worker has taken and not settled
          retries,     \* retry_count of each message
          unfinished,  \* queue.Queue.unfinished_tasks behind task_done()
          deadLetter,  \* _dead_letter: a deque that forgets its oldest entry
          dropped,     \* _dead_letter_dropped
          processed,   \* _processed_count
          accepted,    \* history: every message ever enqueued
          done,        \* history: messages mark_done settled since start-up
          dead         \* history: messages dead-lettered since start-up

queueVars == <<queue, held, retries, unfinished, deadLetter, dropped,
               processed, accepted, done, dead>>

QueueInit ==
  /\ queue = <<>>
  /\ held = [w \in Workers |-> NoMessage]
  /\ retries = [m \in Messages |-> 0]
  /\ unfinished = 0
  /\ deadLetter = <<>>
  /\ dropped = 0
  /\ processed = 0
  /\ accepted = {}
  /\ done = {}
  /\ dead = {}

Put(m) == queue' = Append(queue, m) /\ unfinished' = unfinished + 1

Release(w) == held' = [held EXCEPT ![w] = NoMessage]

\* A producer enqueues a fresh message.
Enqueue(m) ==
  /\ m \notin accepted
  /\ accepted' = accepted \cup {m}
  /\ Put(m)
  /\ UNCHANGED <<held, retries, deadLetter, dropped, processed, done, dead>>

\* Slip in get(): the message stays queued.
DequeuePeeks(w) ==
  /\ held[w] = NoMessage
  /\ queue # <<>>
  /\ held' = [held EXCEPT ![w] = Head(queue)]
  /\ UNCHANGED <<queue, retries, unfinished, deadLetter, dropped, processed,
                 accepted, done, dead>>

\* dequeue(): an empty queue times out and returns None, which changes nothing.
Dequeue(w) ==
  /\ held[w] = NoMessage
  /\ queue # <<>>
  /\ held' = [held EXCEPT ![w] = Head(queue)]
  /\ queue' = Tail(queue)
  /\ UNCHANGED <<retries, unfinished, deadLetter, dropped, processed, accepted,
                 done, dead>>

MarkDone(w) ==
  /\ held[w] # NoMessage
  /\ processed' = processed + 1
  /\ unfinished' = unfinished - 1
  /\ done' = done \cup {held[w]}
  /\ Release(w)
  /\ UNCHANGED <<queue, retries, deadLetter, dropped, accepted, dead>>

\* Slips in requeue(): no count, or a message its worker keeps.
RetryUncounted(w) ==
  /\ held[w] # NoMessage
  /\ retries[held[w]] < MaxRetries
  /\ Put(held[w])
  /\ Release(w)
  /\ UNCHANGED <<retries, deadLetter, dropped, processed, accepted, done, dead>>

RetryKeepsHold(w) ==
  /\ held[w] # NoMessage
  /\ retries[held[w]] < MaxRetries
  /\ retries' = [retries EXCEPT ![held[w]] = @ + 1]
  /\ Put(held[w])
  /\ UNCHANGED <<held, deadLetter, dropped, processed, accepted, done, dead>>

\* requeue() with retries left.  The failed attempt never called task_done().
Retry(w) ==
  /\ held[w] # NoMessage
  /\ retries[held[w]] < MaxRetries
  /\ retries' = [retries EXCEPT ![held[w]] = @ + 1]
  /\ Put(held[w])
  /\ Release(w)
  /\ UNCHANGED <<deadLetter, dropped, processed, accepted, done, dead>>

\* Slip: the eviction is not counted.
BurySilently(m) ==
  /\ deadLetter' = IF Len(deadLetter) < DeadLetterMax THEN Append(deadLetter, m)
                   ELSE Append(Tail(deadLetter), m)
  /\ UNCHANGED dropped

\* deque(maxlen).append evicts the oldest entry of a full deque.
Bury(m) ==
  \/ /\ Len(deadLetter) < DeadLetterMax
     /\ deadLetter' = Append(deadLetter, m)
     /\ UNCHANGED dropped
  \/ /\ Len(deadLetter) >= DeadLetterMax
     /\ deadLetter' = Append(Tail(deadLetter), m)
     /\ dropped' = dropped + 1

\* Slip: requeue() refuses the message and forgets it.
DeadLetterDrops(w) ==
  /\ held[w] # NoMessage
  /\ retries[held[w]] >= MaxRetries
  /\ Release(w)
  /\ UNCHANGED <<queue, retries, unfinished, deadLetter, dropped, processed,
                 accepted, done, dead>>

\* requeue() without.
DeadLetter(w) ==
  /\ held[w] # NoMessage
  /\ retries[held[w]] >= MaxRetries
  /\ Bury(held[w])
  /\ dead' = dead \cup {held[w]}
  /\ Release(w)
  /\ UNCHANGED <<queue, retries, unfinished, processed, accepted, done>>

Requeue(w) == Retry(w) \/ DeadLetter(w)

\* The process ends and a new one builds an empty TaskQueue: every message
\* that waited, ran or was dead-lettered is forgotten.
QueueRestart ==
  /\ queue' = <<>>
  /\ held' = [w \in Workers |-> NoMessage]
  /\ unfinished' = 0
  /\ deadLetter' = <<>>
  /\ dropped' = 0
  /\ processed' = 0
  /\ done' = {}
  /\ dead' = {}
  /\ UNCHANGED <<retries, accepted>>

QueueNext ==
  \/ \E m \in Messages : Enqueue(m)
  \/ \E w \in Workers : Dequeue(w) \/ MarkDone(w) \/ Requeue(w)
  \/ QueueRestart

QueueSpec == QueueInit /\ [][QueueNext]_queueVars

\* The producers stop when they like; a worker thread keeps polling and every
\* handler call returns or raises.
WorkerTurn(w) == Dequeue(w) \/ MarkDone(w) \/ Requeue(w)

FairQueueSpec == QueueSpec /\ \A w \in Workers : WF_queueVars(WorkerTurn(w))
------------------------------------------------------------------------------
\* The messages that wait, the workers that hold one, and what they hold.
Waiting == Range(queue)

Busy == {w \in Workers : held[w] # NoMessage}

InHand == {held[w] : w \in Busy}

\* The abstract status of a message, read off the queue's state.
StatusOf(m) ==
  IF m \notin accepted THEN "new"
  ELSE IF m \in Waiting THEN "queued"
  ELSE IF m \in InHand THEN "running"
  ELSE IF m \in done THEN "done"
  ELSE IF m \in dead THEN "dead"
  ELSE "gone"

Lifecycle == INSTANCE JobLifecycle
               WITH status <- [m \in Messages |-> StatusOf(m)], tries <- retries

\* The queue implements the life cycle of a job: no message is run twice at
\* once, resurrected after it settled, or retried beyond max_retries
\* (TaskQueue.requeue, mark_done).
LifecycleRefined == Lifecycle!LifecycleSpec
------------------------------------------------------------------------------
QueueTypeOK ==
  /\ queue \in Seq(Messages)
  /\ held \in [Workers -> Messages \cup {NoMessage}]
  /\ retries \in [Messages -> 0..MaxRetries]
  /\ unfinished \in Int
  /\ deadLetter \in Seq(Messages)
  /\ dropped \in Nat
  /\ processed \in Nat
  /\ accepted \in SUBSET Messages
  /\ done \in SUBSET Messages
  /\ dead \in SUBSET Messages

\* A message object is in one place at a time: waiting once, or held by one
\* worker, or settled one way.  requeue() hands the worker's own object back
\* to the FIFO, so a second owner would share its retry_count.
OnePlace ==
  /\ IsInjective(queue)
  /\ \A v, w \in Busy : held[v] = held[w] => v = w
  /\ Waiting \cup InHand \cup done \cup dead \subseteq accepted
  /\ Waiting \cap InHand = {}
  /\ (Waiting \cup InHand) \cap (done \cup dead) = {}
  /\ done \cap dead = {}

\* task_done() raises ValueError when called more often than put(): inside the
\* worker's try block that would send a finished message back for a retry.
\* Each message that waits or runs therefore still has a put() to answer; the
\* failed attempts leave more, since requeue() never calls task_done().
TaskDoneNeverRaises ==
  unfinished >= Len(queue) + Cardinality(Busy)

\* The counters the metrics report are the number of jobs that settled: the
\* dead-letter deque forgets entries, its drop counter does not.
CountersExact ==
  /\ processed = Cardinality(done)
  /\ Len(deadLetter) <= DeadLetterMax
  /\ dropped + Len(deadLetter) = Cardinality(dead)

\* A message is dead-lettered only when it has used every retry.
DeadOnlyAfterRetries == \A m \in dead : retries[m] = MaxRetries

\* A process that has just begun: no message of another life is settled again.
Reborn == unfinished = 0 /\ processed = 0

==============================================================================
