------------------------- MODULE QueueWorker_proofs -------------------------
(***************************************************************************)
(* Proofs about brain/queue/worker.py for any number of messages, tenants, *)
(* threads, days and restarts.  The worker is shown to be a client that    *)
(* only uses the operations of TaskQueue, so that the theorems about the   *)
(* queue hold of it too; the invariants of the quota rest on those.        *)
(***************************************************************************)
EXTENDS QueueWorker, TaskQueue_proofs

\* Whatever the worker process does, the queue does one of its own operations
\* or nothing: no handler touches the queue's state behind its back.
LEMMA WorkerStepIsQueueStep ==
  ASSUME [WorkerNext]_allVars
  PROVE  [QueueNext]_queueVars
<1>1. CASE UNCHANGED allVars
  BY <1>1 DEF allVars
<1>2. ASSUME NEW m \in Messages, Producer(m) PROVE [QueueNext]_queueVars
  BY <1>2 DEF Producer, QueueNext
<1>3. ASSUME NEW w \in Workers, Step(w) PROVE [QueueNext]_queueVars
  <2>1. CASE CheckRunning(w)
    BY <2>1 DEF CheckRunning
  <2>2. CASE Poll(w)
    BY <2>2 DEF Poll, QueueNext
  <2>3. CASE ReadTenant(w)
    BY <2>3 DEF ReadTenant
  <2>4. CASE DenyCharge(w)
    BY <2>4 DEF DenyCharge
  <2>5. CASE GrantCharge(w)
    BY <2>5 DEF GrantCharge
  <2>6. CASE CheckCostCap(w)
    BY <2>6 DEF CheckCostCap
  <2>7. CASE Execute(w)
    BY <2>7 DEF Execute
  <2>8. CASE SerialiseUsage(w) \/ WriteUsage(w) \/ StoreJobResult(w)
    BY <2>8 DEF SerialiseUsage, WriteUsage, StoreJobResult
  <2>9. CASE Settle(w)
    BY <2>9 DEF Settle, QueueNext
  <2>10. CASE Raise(w)
    BY <2>10 DEF Raise, QueueNext
  <2>11. QED
    BY <1>3, <2>1, <2>2, <2>3, <2>4, <2>5, <2>6, <2>7, <2>8, <2>9, <2>10 DEF Step
<1>4. CASE Stop \/ Midnight \/ DemoExpires
  BY <1>4 DEF Stop, Midnight, DemoExpires
<1>5. CASE Restart
  BY <1>5 DEF Restart, QueueNext
<1>6. QED
  BY <1>1, <1>2, <1>3, <1>4, <1>5 DEF WorkerNext

\* The worker process with all its threads behaves, for its queue, like the
\* clients TaskQueue allows: _run_loop calls mark_done or requeue once for each
\* message it took.  The queue's theorems therefore hold of the worker as well.
THEOREM WorkerImplementsQueue == WorkerSpec => QueueObeyed
<1>1. WorkerInit => QueueInit
  BY DEF WorkerInit
<1>2. QED
  BY <1>1, WorkerStepIsQueueStep, PTL DEF WorkerSpec, QueueObeyed, QueueSpec
------------------------------------------------------------------------------
\* A thread holds a message exactly while one of its handlers is at work.
HandlerHoldsMessage ==
  \A w \in Workers : pc[w] \in {"top", "poll", "exited"} <=> held[w] = NoMessage

\* Between the date and the job, a metered handler has the date of a real day.
MeteredHasDay ==
  \A w \in Workers : /\ pc[w] = "charge" => KindOf[held[w]] \in Metered
                     /\ pc[w] \in {"charge", "cap", "execute"} =>
                          (KindOf[held[w]] \in Metered => seen[w] \in Days)

WorkerBase == QueueTypeOK /\ WorkerTypeOK /\ HandlerHoldsMessage /\ MeteredHasDay

\* Every message has a tenant, and every kind of message one counter.
LEMMA MessageFacts ==
  ASSUME NEW m \in Messages
  PROVE  /\ TenantOf[m] \in Tenants
         /\ KindOf[m] \in Kinds
         /\ Counter(KindOf[m]) \in Counters
         /\ Refusal(m) \in Verdicts
BY WorkerAssumption DEF Counter, Counters, Refusal, Verdicts

\* A new day's record is empty, and "no day" is none of the days.
LEMMA FreshRecord ==
  ASSUME NEW d \in Days \cup {NoDay}
  PROVE  /\ Fresh(d) \in UsageRecord
         /\ Fresh(d).day = d
         /\ \A c \in Counters : Fresh(d).count[c] = 0
BY DEF Fresh, UsageRecord

\* A date read from the clock is never the empty date of a fresh record.
LEMMA DayFacts ==
  /\ NoDay \notin Days
  /\ 1 \in Days
  /\ NoDay \in Nat
  /\ \A d \in Days : d \in Nat /\ d > NoDay
BY WorkerAssumption DEF Days, NoDay

\* One charge more, or one job more, of a tenant and a day.
LEMMA OneMoreCounted ==
  ASSUME NEW f \in [Tenants -> [Counters -> [Days -> Nat]]],
         NEW t \in Tenants, NEW c \in Counters, NEW d \in Days
  PROVE  [f EXCEPT ![t][c][d] = @ + 1] \in [Tenants -> [Counters -> [Days -> Nat]]]
<1>1. [f[t] EXCEPT ![c][d] = @ + 1] \in [Counters -> [Days -> Nat]]
  <2>1. [f[t][c] EXCEPT ![d] = @ + 1] \in [Days -> Nat]
    OBVIOUS
  <2>2. QED
    BY <2>1
<1>2. QED
  BY <1>1

\* What _check_quota works with is a usage record of the day it read.
LEMMA CurrentRecord ==
  ASSUME WorkerTypeOK, NEW t \in Tenants, NEW d \in Days \cup {NoDay}
  PROVE  /\ CurrentUsage(t, d) \in UsageRecord
         /\ CurrentUsage(t, d).day = d
BY FreshRecord DEF CurrentUsage, WorkerTypeOK

\* A thread at work holds a message, hence works for a tenant.
LEMMA AtWork ==
  ASSUME WorkerBase, NEW w \in Workers, pc[w] \notin {"top", "poll", "exited"}
  PROVE  /\ held[w] \in Messages
         /\ TenantOf[held[w]] \in Tenants
         /\ KindOf[held[w]] \in Kinds
         /\ Counter(KindOf[held[w]]) \in Counters
         /\ Refusal(held[w]) \in Verdicts
<1>1. held[w] \in Messages
  BY DEF WorkerBase, HandlerHoldsMessage, QueueTypeOK
<1>2. QED
  BY <1>1, MessageFacts

\* What GrantCharge writes back is a usage record, one job fuller.
LEMMA ChargedRecord ==
  ASSUME NEW r \in UsageRecord, NEW c \in Counters
  PROVE  LET q == [r EXCEPT !.count[c] = @ + 1]
         IN  /\ q \in UsageRecord
             /\ q.day = r.day
             /\ q.count[c] = r.count[c] + 1
             /\ \A e \in Counters : e # c => q.count[e] = r.count[e]
BY DEF UsageRecord

\* Each action keeps the types, the handler's hold on its message and its date.
LEMMA BaseStep ==
  ASSUME WorkerBase, QueueTypeOK', [WorkerNext]_allVars
  PROVE  WorkerBase'
<1> DEFINE Idle == {"top", "poll", "exited"}
<1> USE DEF WorkerBase
<1>1. CASE UNCHANGED allVars
  BY <1>1 DEF allVars, queueVars, workerVars, threadVars, historyVars, clockVars, WorkerTypeOK,
              HandlerHoldsMessage, MeteredHasDay
<1>2. ASSUME NEW m \in Messages, Producer(m) PROVE WorkerBase'
  BY <1>2 DEF Producer, Enqueue, workerVars, threadVars, historyVars, clockVars, WorkerTypeOK,
              HandlerHoldsMessage, MeteredHasDay
<1>3. ASSUME NEW w \in Workers, CheckRunning(w) PROVE WorkerBase'
  BY <1>3 DEF CheckRunning, Goto, queueVars, historyVars, clockVars, WorkerTypeOK, Labels,
              HandlerHoldsMessage, MeteredHasDay
<1>4. ASSUME NEW w \in Workers, Poll(w) PROVE WorkerBase'
  <2>1. CASE Dequeue(w) /\ Goto(w, "read")
    <3>1. held'[w] # NoMessage /\ \A v \in Workers \ {w} : held'[v] = held[v]
      BY <2>1, QueueAssumption DEF Dequeue, QueueTypeOK
    <3>2. /\ pc' = [pc EXCEPT ![w] = "read"]
          /\ UNCHANGED <<running, seen, verdict, snapshot, usage, saved, result, historyVars, clockVars>>
      BY <1>4, <2>1 DEF Poll, Goto
    <3>3. QED
      BY <3>1, <3>2 DEF historyVars, clockVars, WorkerTypeOK, Labels, HandlerHoldsMessage, MeteredHasDay
  <2>2. CASE Goto(w, "top") /\ UNCHANGED queueVars
    BY <1>4, <2>2 DEF Poll, Goto, queueVars, historyVars, clockVars, WorkerTypeOK, Labels,
                HandlerHoldsMessage, MeteredHasDay
  <2>3. QED
    BY <1>4, <2>1, <2>2 DEF Poll
<1>5. ASSUME NEW w \in Workers, ReadTenant(w) PROVE WorkerBase'
  <2>1. pc[w] = "read" /\ UNCHANGED held
    BY <1>5 DEF ReadTenant, queueVars
  <2>2. Refusal(held[w]) \in Verdicts
    BY <2>1, AtWork
  <2>3. /\ pc' \in [Workers -> Labels]
        /\ seen' \in [Workers -> Days \cup {NoDay}]
        /\ verdict' \in [Workers -> Verdicts]
    <3>1. PICK label \in {"settle", "store", "charge", "execute"} :
            pc' = [pc EXCEPT ![w] = label]
      BY <1>5 DEF ReadTenant, Answer, Goto
    <3>2. pc' \in [Workers -> Labels]
      BY <3>1 DEF WorkerTypeOK, Labels
    <3>3. \/ seen' = seen
          \/ \E d \in {today, NoDay} : seen' = [seen EXCEPT ![w] = d]
      BY <1>5 DEF ReadTenant
    <3>4. seen' \in [Workers -> Days \cup {NoDay}]
      BY <3>3 DEF WorkerTypeOK
    <3>5. \/ verdict' = verdict
          \/ verdict' = [verdict EXCEPT ![w] = Refusal(held[w])]
      BY <1>5 DEF ReadTenant, Answer
    <3>6. verdict' \in [Workers -> Verdicts]
      BY <2>2, <3>5 DEF WorkerTypeOK
    <3>7. QED
      BY <3>2, <3>4, <3>6
  <2>4. \A v \in Workers : v # w => pc'[v] = pc[v] /\ seen'[v] = seen[v]
    BY <1>5 DEF ReadTenant, Answer, Goto, WorkerTypeOK
  <2>5. pc'[w] \in {"settle", "store", "charge", "execute"}
    BY <1>5 DEF ReadTenant, Answer, Goto, WorkerTypeOK
  <2>6. /\ pc'[w] = "charge" => KindOf[held[w]] \in Metered
        /\ pc'[w] \in {"charge", "execute"} => (KindOf[held[w]] \in Metered => seen'[w] \in Days)
    BY <1>5 DEF ReadTenant, Answer, Goto, WorkerTypeOK
  <2>7. WorkerTypeOK'
    BY <1>5, <2>3 DEF ReadTenant, historyVars, clockVars, WorkerTypeOK
  <2>8. QED
    BY <2>1, <2>4, <2>5, <2>6, <2>7 DEF HandlerHoldsMessage, MeteredHasDay
<1>6. ASSUME NEW w \in Workers, DenyCharge(w) PROVE WorkerBase'
  <2>1. Charging(w).tenant \in Tenants /\ Charging(w).record \in UsageRecord
    BY <1>6, AtWork, CurrentRecord DEF DenyCharge, Charging, WorkerTypeOK
  <2>2. QED
    BY <1>6, <2>1 DEF DenyCharge, Answer, Goto, queueVars, historyVars, clockVars, WorkerTypeOK,
                      Labels, Verdicts, HandlerHoldsMessage, MeteredHasDay
<1>7. ASSUME NEW w \in Workers, GrantCharge(w) PROVE WorkerBase'
  <2> DEFINE q == Charging(w)
             r == [q.record EXCEPT !.count[q.counter] = @ + 1]
  <2>1. /\ pc[w] = "charge"
        /\ usage' = [usage EXCEPT ![q.tenant] = r]
        /\ granted' = [granted EXCEPT ![q.tenant][q.counter][seen[w]] = @ + 1]
        /\ chargedOn' = [chargedOn EXCEPT ![held[w]] = seen[w]]
        /\ Goto(w, IF KindOf[held[w]] = "pipeline_run" /\ q.tenant \in Demo THEN "cap" ELSE "execute")
        /\ UNCHANGED <<queueVars, running, seen, verdict, snapshot, saved, result, ran, spent, clockVars>>
    BY <1>7 DEF GrantCharge
  <2>2. q.tenant \in Tenants /\ q.counter \in Counters /\ q.record \in UsageRecord
    BY <2>1, AtWork, CurrentRecord DEF Charging, WorkerTypeOK
  <2>3. r \in UsageRecord
    BY <2>2, ChargedRecord
  <2>4. seen[w] \in Days
    BY <2>1 DEF MeteredHasDay
  <2>5. granted' \in [Tenants -> [Counters -> [Days -> Nat]]]
    BY <2>1, <2>2, <2>4, OneMoreCounted DEF WorkerTypeOK
  <2>6. /\ usage' \in [Tenants -> UsageRecord]
        /\ chargedOn' \in [Messages -> Days \cup {NoDay}]
        /\ pc' \in [Workers -> Labels]
    BY <2>1, <2>2, <2>3, <2>4 DEF WorkerTypeOK, Goto, Labels
  <2>7. WorkerTypeOK'
    BY <2>1, <2>5, <2>6 DEF WorkerTypeOK, clockVars
  <2>8. QED
    BY <2>1, <2>4, <2>7 DEF Goto, queueVars, WorkerTypeOK, HandlerHoldsMessage, MeteredHasDay
<1>8. ASSUME NEW w \in Workers, CheckCostCap(w) PROVE WorkerBase'
  <2>1. /\ pc[w] = "cap"
        /\ \E label \in {"store", "execute"} : pc' = [pc EXCEPT ![w] = label]
        /\ \/ verdict' = verdict
           \/ verdict' = [verdict EXCEPT ![w] = "demo_cost_cap"]
        /\ UNCHANGED <<queueVars, running, seen, snapshot, usage, saved, result, historyVars, clockVars>>
    BY <1>8 DEF CheckCostCap, Answer, Goto
  <2>2. /\ pc' \in [Workers -> Labels]
        /\ verdict' \in [Workers -> Verdicts]
    BY <2>1 DEF WorkerTypeOK, Labels, Verdicts
  <2>3. WorkerTypeOK'
    BY <2>1, <2>2 DEF WorkerTypeOK, historyVars, clockVars
  <2>4. HandlerHoldsMessage'
    BY <2>1 DEF HandlerHoldsMessage, WorkerTypeOK, queueVars
  <2>5. MeteredHasDay'
    BY <2>1 DEF MeteredHasDay, WorkerTypeOK, queueVars
  <2>6. QED
    BY <2>1, <2>3, <2>4, <2>5 DEF queueVars
<1>9. ASSUME NEW w \in Workers, Execute(w) PROVE WorkerBase'
  <2> DEFINE t == TenantOf[held[w]]
             c == Counter(KindOf[held[w]])
  <2>1. /\ pc[w] = "execute"
        /\ Goto(w, AfterJob(KindOf[held[w]]))
        /\ verdict' = [verdict EXCEPT ![w] = "completed"]
        /\ ran' = ran \/ ran' = ran \cup {held[w]}
        /\ spent' = IF KindOf[held[w]] \in Metered THEN [spent EXCEPT ![t][c][seen[w]] = @ + 1] ELSE spent
        /\ UNCHANGED <<queueVars, running, seen, snapshot, usage, saved, result, chargedOn, granted, clockVars>>
    BY <1>9 DEF Execute
  <2>2. held[w] \in Messages /\ t \in Tenants /\ c \in Counters
    BY <2>1, AtWork
  <2>3. KindOf[held[w]] \in Metered => seen[w] \in Days
    BY <2>1 DEF MeteredHasDay
  <2>4. spent' \in [Tenants -> [Counters -> [Days -> Nat]]]
    <3>1. spent \in [Tenants -> [Counters -> [Days -> Nat]]]
      BY DEF WorkerTypeOK
    <3>2. CASE KindOf[held[w]] \in Metered
      BY <2>1, <2>2, <2>3, <3>1, <3>2, OneMoreCounted
    <3>3. CASE KindOf[held[w]] \notin Metered
      BY <2>1, <3>1, <3>3
    <3>4. QED
      BY <3>2, <3>3
  <2>5. WorkerTypeOK'
    BY <2>1, <2>2, <2>4 DEF WorkerTypeOK, Goto, AfterJob, Labels, Verdicts, clockVars
  <2>6. pc' = [pc EXCEPT ![w] = AfterJob(KindOf[held[w]])]
        /\ AfterJob(KindOf[held[w]]) \in {"persist", "store", "settle"}
    BY <2>1 DEF Goto, AfterJob
  <2>7. QED
    BY <2>1, <2>5, <2>6 DEF queueVars, WorkerTypeOK, HandlerHoldsMessage, MeteredHasDay
<1>10. ASSUME NEW w \in Workers, SerialiseUsage(w) PROVE WorkerBase'
  <2>1. TenantOf[held[w]] \in Tenants
    BY <1>10, AtWork DEF SerialiseUsage
  <2>2. QED
    BY <1>10, <2>1 DEF SerialiseUsage, Goto, queueVars, historyVars, clockVars, WorkerTypeOK, Labels,
                       HandlerHoldsMessage, MeteredHasDay
<1>11. ASSUME NEW w \in Workers, WriteUsage(w) PROVE WorkerBase'
  BY <1>11 DEF WriteUsage, Goto, queueVars, historyVars, clockVars, WorkerTypeOK, Labels,
               HandlerHoldsMessage, MeteredHasDay
<1>12. ASSUME NEW w \in Workers, StoreJobResult(w) PROVE WorkerBase'
  BY <1>12 DEF StoreJobResult, Goto, queueVars, historyVars, clockVars, WorkerTypeOK, Labels,
               HandlerHoldsMessage, MeteredHasDay
<1>13. ASSUME NEW w \in Workers, BackToLoop(w), Release(w),
              UNCHANGED <<running, usage, saved, result, historyVars, clockVars>>
       PROVE  WorkerBase'
  <2>1. WorkerTypeOK'
    BY <1>13, FreshRecord DEF BackToLoop, Goto, historyVars, clockVars, WorkerTypeOK, Labels, Verdicts
  <2>2. QED
    BY <1>13, <2>1 DEF BackToLoop, Goto, Release, QueueTypeOK, WorkerTypeOK, HandlerHoldsMessage,
                       MeteredHasDay
<1>14. ASSUME NEW w \in Workers, Settle(w) PROVE WorkerBase'
  BY <1>13, <1>14 DEF Settle, MarkDone
<1>15. ASSUME NEW w \in Workers, Raise(w) PROVE WorkerBase'
  <2>1. CASE Answer(w, "error") /\ UNCHANGED <<queueVars, seen, snapshot>>
    <3>1. pc[w] \notin Idle
      BY <1>15 DEF Raise
    <3>2. QED
      BY <1>15, <2>1, <3>1 DEF Raise, Answer, Goto, queueVars, historyVars, clockVars, WorkerTypeOK,
                   Labels, Verdicts, HandlerHoldsMessage, MeteredHasDay
  <2>2. CASE Requeue(w) /\ BackToLoop(w)
    BY <1>13, <1>15, <2>2 DEF Raise, Requeue, Retry, DeadLetter
  <2>3. QED
    BY <1>15, <2>1, <2>2 DEF Raise
<1>16. CASE Stop \/ DemoExpires
  <2>1. /\ UNCHANGED <<queueVars, threadVars, usage, saved, result, historyVars, today, restarts>>
        /\ running' \in BOOLEAN /\ expired' \in BOOLEAN
    BY <1>16 DEF Stop, DemoExpires, clockVars, WorkerTypeOK
  <2>2. QED
    BY <2>1 DEF queueVars, threadVars, historyVars, WorkerTypeOK, HandlerHoldsMessage, MeteredHasDay
<1>17. CASE Midnight
  <2>1. today' \in Days
    BY <1>17, WorkerAssumption DEF Midnight, WorkerTypeOK, Days
  <2>2. QED
    BY <1>17, <2>1 DEF Midnight, queueVars, threadVars, historyVars, WorkerTypeOK,
                       HandlerHoldsMessage, MeteredHasDay
<1>18. CASE Restart
  <2>1. restarts' \in 0..MaxRestarts
    BY <1>18, WorkerAssumption DEF Restart, WorkerTypeOK
  <2>2. WorkerTypeOK'
    BY <1>18, <2>1, FreshRecord DEF Restart, historyVars, WorkerTypeOK, Labels, Verdicts
  <2>3. QED
    BY <1>18, <2>2 DEF Restart, QueueRestart, WorkerTypeOK, HandlerHoldsMessage, MeteredHasDay
<1>19. QED
  BY <1>1, <1>2, <1>3, <1>4, <1>5, <1>6, <1>7, <1>8, <1>9, <1>10, <1>11, <1>12, <1>14, <1>15,
     <1>16, <1>17, <1>18 DEF WorkerNext, Step

\* What every later argument takes for granted of the worker holds always.
LEMMA BaseAlways == WorkerSpec => []WorkerBase
<1>1. WorkerInit => WorkerBase
  <2> SUFFICES ASSUME WorkerInit PROVE WorkerBase
    OBVIOUS
  <2>1. QueueTypeOK
    BY QueueAssumption DEF WorkerInit, QueueInit, QueueTypeOK
  <2>2. WorkerTypeOK
    <3>1. Fresh(NoDay) \in UsageRecord /\ NoDay \in Days \cup {NoDay}
      BY FreshRecord
    <3>2. 1 \in Days /\ 0 \in 0..MaxRestarts
      BY DayFacts, WorkerAssumption
    <3>3. NoCharges \in [Tenants -> [Counters -> [Days -> Nat]]]
      BY DEF NoCharges
    <3>4. QED
      BY <3>1, <3>2, <3>3 DEF WorkerInit, WorkerTypeOK, Labels, Verdicts
  <2>3. HandlerHoldsMessage /\ MeteredHasDay
    BY DEF WorkerInit, QueueInit, HandlerHoldsMessage, MeteredHasDay
  <2>4. QED
    BY <2>1, <2>2, <2>3 DEF WorkerBase
<1>2. QED
  BY <1>1, BaseStep, WorkerImplementsQueue, QueueTypeCorrect, PTL DEF WorkerSpec, QueueObeyed

\* The worker's state has its type: no handler leaves the walk over the labels,
\* indexes a counter that _check_quota does not keep, or charges a day that the
\* calendar does not have.
THEOREM WorkerTypeCorrect == WorkerSpec => []WorkerTypeOK
<1>1. WorkerBase => WorkerTypeOK
  BY DEF WorkerBase
<1>2. QED
  BY <1>1, BaseAlways, PTL
------------------------------------------------------------------------------
\* A usage record claims no more than what was granted on its day.
Covered(record, t) ==
  record.day # NoDay => \A c \in Counters : record.count[c] <= granted[t][c][record.day]

\* NeverOvercharged, record by record.
LEMMA OverchargedByRecord ==
  ASSUME WorkerBase
  PROVE  NeverOvercharged <=>
           /\ \A t \in Tenants : Covered(usage[t], t) /\ Covered(saved[t], t)
           /\ \A w \in Workers : pc[w] = "write" => Covered(snapshot[w], TenantOf[held[w]])
BY DEF NeverOvercharged, Covered, WorkerBase, HandlerHoldsMessage, Busy

\* Nothing takes a granted charge back.
LEMMA GrantedGrows ==
  ASSUME WorkerBase, NEW w \in Workers, GrantCharge(w)
  PROVE  /\ \A t \in Tenants, c \in Counters, d \in Days : granted'[t][c][d] >= granted[t][c][d]
         /\ LET q == Charging(w)
            IN  granted'[q.tenant][q.counter][seen[w]] = granted[q.tenant][q.counter][seen[w]] + 1
<1> DEFINE q == Charging(w)
<1>1. pc[w] = "charge" /\ granted' = [granted EXCEPT ![q.tenant][q.counter][seen[w]] = @ + 1]
  BY DEF GrantCharge
<1>2. q.tenant \in Tenants /\ q.counter \in Counters /\ seen[w] \in Days
  BY <1>1, AtWork DEF Charging, WorkerBase, MeteredHasDay
<1>3. QED
  BY <1>1, <1>2 DEF WorkerBase, WorkerTypeOK

\* What was covered stays so while charges are only added.
LEMMA CoveredStays ==
  ASSUME NEW t \in Tenants, NEW r \in UsageRecord, Covered(r, t),
         \A c \in Counters, d \in Days : granted'[t][c][d] >= granted[t][c][d],
         granted[t] \in [Counters -> [Days -> Nat]], granted'[t] \in [Counters -> [Days -> Nat]]
  PROVE  r.day # NoDay => \A c \in Counters : r.count[c] <= granted'[t][c][r.day]
<1> SUFFICES ASSUME r.day # NoDay, NEW c \in Counters PROVE r.count[c] <= granted'[t][c][r.day]
  OBVIOUS
<1>1. r.day \in Days /\ r.count[c] \in Nat
  BY DEF UsageRecord
<1>2. granted[t][c][r.day] \in Nat /\ granted'[t][c][r.day] \in Nat
  BY <1>1
<1>3. r.count[c] <= granted[t][c][r.day] /\ granted'[t][c][r.day] >= granted[t][c][r.day]
  BY <1>1 DEF Covered
<1>4. QED
  BY <1>1, <1>2, <1>3

\* The record _check_quota works with is covered: it is the one in memory, the
\* one on disk, or an empty one.
LEMMA CurrentCovered ==
  ASSUME WorkerBase, NeverOvercharged, NEW t \in Tenants, NEW d \in Days
  PROVE  \A c \in Counters : CurrentUsage(t, d).count[c] <= granted[t][c][d]
<1> TAKE c \in Counters
<1>1. Covered(usage[t], t) /\ Covered(saved[t], t)
  BY OverchargedByRecord
<1>2. d # NoDay
  BY DayFacts
<1>3. granted[t][c][d] \in Nat
  BY DEF WorkerBase, WorkerTypeOK
<1>4. Fresh(d).count[c] <= granted[t][c][d]
  BY <1>3, FreshRecord
<1>5. QED
  BY <1>1, <1>2, <1>4 DEF Covered, CurrentUsage

\* No step lets a record claim what was not granted.
LEMMA OverchargedStep ==
  ASSUME WorkerBase, WorkerBase', NeverOvercharged, [WorkerNext]_allVars
  PROVE  NeverOvercharged'
<1> DEFINE Same == UNCHANGED <<granted, usage, saved>>
           Goal == /\ \A t \in Tenants : Covered(usage[t], t)' /\ Covered(saved[t], t)'
                   /\ \A v \in Workers : pc'[v] = "write" => Covered(snapshot[v], TenantOf[held[v]])'
<1> USE DEF Covered
<1>1. /\ \A t \in Tenants : Covered(usage[t], t) /\ Covered(saved[t], t)
      /\ \A w \in Workers : pc[w] = "write" => Covered(snapshot[w], TenantOf[held[w]])
  BY OverchargedByRecord
<1>2. SUFFICES Goal
  BY DEF NeverOvercharged, WorkerBase, HandlerHoldsMessage, Busy
<1>3. ASSUME Same,
             \A w \in Workers : pc'[w] = "write" =>
                pc[w] = "write" /\ held'[w] = held[w] /\ snapshot'[w] = snapshot[w]
      PROVE  Goal
  BY <1>1, <1>3
<1>4. CASE UNCHANGED allVars
  BY <1>3, <1>4 DEF allVars, queueVars, workerVars, threadVars, historyVars
<1>5. CASE \E m \in Messages : Producer(m)
  BY <1>3, <1>5 DEF Producer, Enqueue, workerVars, threadVars, historyVars
<1>6. ASSUME NEW w \in Workers, Same, \E l \in Labels \ {"write"} : Goto(w, l),
             \A v \in Workers \ {w} : held'[v] = held[v] /\ snapshot'[v] = snapshot[v]
      PROVE  Goal
  <2>1. \A v \in Workers : pc'[v] = "write" => v # w /\ pc[v] = "write"
    BY <1>6 DEF Goto, WorkerBase, WorkerTypeOK
  <2>2. QED
    BY <1>3, <1>6, <2>1
<1>7. ASSUME NEW w \in Workers, CheckRunning(w) \/ ReadTenant(w) \/ CheckCostCap(w) \/ StoreJobResult(w)
                                \/ Execute(w)
      PROVE  Goal
  <2>1. Same /\ UNCHANGED <<held, snapshot>>
    BY <1>7 DEF CheckRunning, ReadTenant, CheckCostCap, StoreJobResult, Execute, Answer, queueVars, historyVars
  <2>2. \E l \in Labels \ {"write"} : Goto(w, l)
    BY <1>7 DEF CheckRunning, ReadTenant, CheckCostCap, StoreJobResult, Execute, Answer, AfterJob, Labels
  <2>3. QED
    BY <1>6, <2>1, <2>2
<1>8. ASSUME NEW w \in Workers, Poll(w)
      PROVE  Goal
  <2>1. Same /\ UNCHANGED snapshot /\ \E l \in Labels \ {"write"} : Goto(w, l)
    BY <1>8 DEF Poll, historyVars, Labels
  <2>2. \A v \in Workers \ {w} : held'[v] = held[v]
    BY <1>8 DEF Poll, Dequeue, queueVars, WorkerBase, QueueTypeOK
  <2>3. QED
    BY <1>6, <2>1, <2>2
<1>9. ASSUME NEW w \in Workers, Settle(w) \/ Raise(w)
      PROVE  Goal
  <2>1. Same /\ \E l \in Labels \ {"write"} : Goto(w, l)
    BY <1>9 DEF Settle, Raise, BackToLoop, Answer, historyVars, Labels
  <2>2. \A v \in Workers \ {w} : held'[v] = held[v]
    BY <1>9 DEF Settle, Raise, Requeue, Retry, DeadLetter, MarkDone, Release, queueVars, WorkerBase, QueueTypeOK
  <2>3. \A v \in Workers \ {w} : snapshot'[v] = snapshot[v]
    BY <1>9 DEF Settle, Raise, BackToLoop, WorkerBase, WorkerTypeOK
  <2>4. QED
    BY <1>6, <2>1, <2>2, <2>3
<1>10. ASSUME NEW w \in Workers, DenyCharge(w)
       PROVE  Goal
  <2> DEFINE q == Charging(w)
  <2>1. /\ pc[w] = "charge"
        /\ usage' = [usage EXCEPT ![q.tenant] = q.record]
        /\ pc' = [pc EXCEPT ![w] = "store"]
        /\ UNCHANGED <<held, snapshot, saved, granted>>
    BY <1>10 DEF DenyCharge, Answer, Goto, queueVars, historyVars
  <2>2. q.tenant \in Tenants /\ seen[w] \in Days /\ q.record = CurrentUsage(q.tenant, seen[w])
    BY <2>1, AtWork DEF Charging, WorkerBase, MeteredHasDay
  <2>3. Covered(q.record, q.tenant)
    BY <2>2, CurrentCovered, CurrentRecord DEF WorkerBase
  <2>4. \A t \in Tenants : Covered(usage'[t], t)
    BY <1>1, <2>1, <2>2, <2>3 DEF WorkerBase, WorkerTypeOK
  <2>5. \A v \in Workers : pc'[v] = "write" => pc[v] = "write"
    BY <2>1 DEF WorkerBase, WorkerTypeOK
  <2>6. QED
    BY <1>1, <2>1, <2>4, <2>5
<1>11. ASSUME NEW w \in Workers, GrantCharge(w)
       PROVE  Goal
  <2> DEFINE q == Charging(w)
             r == [q.record EXCEPT !.count[q.counter] = @ + 1]
  <2>1. /\ pc[w] = "charge"
        /\ usage' = [usage EXCEPT ![q.tenant] = r]
        /\ pc' = [pc EXCEPT ![w] = IF KindOf[held[w]] = "pipeline_run" /\ q.tenant \in Demo
                                   THEN "cap" ELSE "execute"]
        /\ UNCHANGED <<held, snapshot, saved>>
    BY <1>11 DEF GrantCharge, Goto, queueVars
  <2>2. /\ q.tenant \in Tenants /\ q.counter \in Counters /\ seen[w] \in Days
        /\ q.record = CurrentUsage(q.tenant, seen[w])
    BY <2>1, AtWork DEF Charging, WorkerBase, MeteredHasDay
  <2>3. \A c \in Counters : q.record.count[c] <= granted[q.tenant][c][seen[w]]
    BY <2>2, CurrentCovered
  <2>4. q.record \in UsageRecord /\ q.record.day = seen[w]
    BY <2>2, CurrentRecord DEF WorkerBase
  <2>5. /\ r \in UsageRecord /\ r.day = seen[w]
        /\ r.count[q.counter] = q.record.count[q.counter] + 1
        /\ \A e \in Counters : e # q.counter => r.count[e] = q.record.count[e]
    BY <2>2, <2>4, ChargedRecord
  <2>6. \A t \in Tenants, c \in Counters, d \in Days : granted'[t][c][d] >= granted[t][c][d]
    BY <1>11, GrantedGrows
  <2>7. granted'[q.tenant][q.counter][seen[w]] = granted[q.tenant][q.counter][seen[w]] + 1
    BY <1>11, GrantedGrows
  <2>8. \A t \in Tenants : granted[t] \in [Counters -> [Days -> Nat]] /\ granted'[t] \in [Counters -> [Days -> Nat]]
    BY DEF WorkerBase, WorkerTypeOK
  <2>9. ASSUME NEW c \in Counters PROVE r.count[c] <= granted'[q.tenant][c][seen[w]]
    <3>1. /\ granted[q.tenant][c][seen[w]] \in Nat
          /\ granted'[q.tenant][c][seen[w]] \in Nat
          /\ q.record.count[c] \in Nat
      BY <2>2, <2>4, <2>8 DEF UsageRecord
    <3>2. CASE c = q.counter
      BY <2>3, <2>5, <2>7, <3>1, <3>2
    <3>3. CASE c # q.counter
      BY <2>2, <2>3, <2>5, <2>6, <3>1, <3>3
    <3>4. QED
      BY <3>2, <3>3
  <2>10. ASSUME NEW t \in Tenants PROVE Covered(usage[t], t)' /\ Covered(saved[t], t)'
    <3>1. usage[t] \in UsageRecord /\ saved[t] \in UsageRecord
      BY DEF WorkerBase, WorkerTypeOK
    <3>2. Covered(saved[t], t)'
      BY <1>1, <2>1, <2>6, <2>8, <3>1, CoveredStays
    <3>3. CASE t = q.tenant
      <4>1. usage'[t] = r
        BY <2>1, <2>2, <3>3 DEF WorkerBase, WorkerTypeOK
      <4>2. QED
        BY <2>5, <2>9, <3>2, <3>3, <4>1
    <3>4. CASE t # q.tenant
      <4>1. usage'[t] = usage[t]
        BY <2>1, <3>4 DEF WorkerBase, WorkerTypeOK
      <4>2. Covered(usage[t], t)'
        BY <1>1, <2>6, <2>8, <3>1, <4>1, CoveredStays
      <4>3. QED
        BY <3>2, <4>2
    <3>5. QED
      BY <3>3, <3>4
  <2>11. ASSUME NEW v \in Workers, pc'[v] = "write" PROVE Covered(snapshot[v], TenantOf[held[v]])'
    <3>1. pc[v] = "write"
      BY <2>1, <2>11 DEF WorkerBase, WorkerTypeOK
    <3>2. TenantOf[held[v]] \in Tenants /\ snapshot[v] \in UsageRecord
      BY <3>1, AtWork DEF WorkerBase, WorkerTypeOK
    <3>3. QED
      BY <1>1, <2>1, <2>6, <2>8, <3>1, <3>2, CoveredStays
  <2>12. QED
    BY <2>10, <2>11
<1>12. ASSUME NEW w \in Workers, SerialiseUsage(w)
       PROVE  Goal
  <2>1. /\ pc[w] = "persist"
        /\ pc' = [pc EXCEPT ![w] = "write"]
        /\ snapshot' = [snapshot EXCEPT ![w] = usage[TenantOf[held[w]]]]
        /\ UNCHANGED <<held, usage, saved, granted>>
    BY <1>12 DEF SerialiseUsage, Goto, queueVars, historyVars
  <2>2. Covered(usage[TenantOf[held[w]]], TenantOf[held[w]])
    BY <1>1, <2>1, AtWork
  <2>3. \A v \in Workers \ {w} : pc'[v] = pc[v] /\ snapshot'[v] = snapshot[v]
    BY <2>1 DEF WorkerBase, WorkerTypeOK
  <2>4. snapshot'[w] = usage[TenantOf[held[w]]]
    BY <2>1 DEF WorkerBase, WorkerTypeOK
  <2>5. \A t \in Tenants : Covered(usage[t], t)' /\ Covered(saved[t], t)'
    BY <1>1, <2>1
  <2>6. Covered(snapshot[w], TenantOf[held[w]])'
    BY <2>1, <2>2, <2>4
  <2>7. \A v \in Workers \ {w} : pc'[v] = "write" => Covered(snapshot[v], TenantOf[held[v]])'
    BY <1>1, <2>1, <2>3
  <2>8. QED
    BY <2>5, <2>6, <2>7
<1>13. ASSUME NEW w \in Workers, WriteUsage(w)
       PROVE  Goal
  <2>1. /\ pc[w] = "write"
        /\ pc' = [pc EXCEPT ![w] = "store"]
        /\ saved' = [saved EXCEPT ![TenantOf[held[w]]] = snapshot[w]]
        /\ UNCHANGED <<held, usage, snapshot, granted>>
    BY <1>13 DEF WriteUsage, Goto, queueVars, historyVars
  <2>2. \A v \in Workers : pc'[v] = "write" => pc[v] = "write"
    BY <2>1 DEF WorkerBase, WorkerTypeOK
  <2>3. \A t \in Tenants : Covered(saved'[t], t)
    BY <1>1, <2>1 DEF WorkerBase, WorkerTypeOK
  <2>4. QED
    BY <1>1, <2>1, <2>2, <2>3
<1>14. CASE Stop \/ Midnight \/ DemoExpires
  BY <1>3, <1>14 DEF Stop, Midnight, DemoExpires, queueVars, threadVars, historyVars
<1>15. CASE Restart
  <2>1. /\ \A w \in Workers : pc'[w] = "top"
        /\ \A t \in Tenants : usage'[t] = Fresh(NoDay)
        /\ UNCHANGED <<saved, granted>>
    BY <1>15 DEF Restart, historyVars
  <2>2. Fresh(NoDay).day = NoDay
    BY FreshRecord
  <2>3. QED
    BY <1>1, <2>1, <2>2
<1>16. QED
  BY <1>4, <1>5, <1>7, <1>8, <1>9, <1>10, <1>11, <1>12, <1>13, <1>14, <1>15 DEF WorkerNext, Step

\* No usage record, in memory, on disk or on its way there, claims a charge that
\* was not granted: the unlocked persist and the reload of _check_quota may lose
\* charges, in any interleaving and with any crash, and never invent one.
THEOREM NeverOverchargedAlways == WorkerSpec => []NeverOvercharged
<1>1. WorkerInit => NeverOvercharged
  <2> SUFFICES ASSUME WorkerInit PROVE NeverOvercharged
    OBVIOUS
  <2>1. Fresh(NoDay).day = NoDay
    BY FreshRecord
  <2>2. \A t \in Tenants : usage[t].day = NoDay /\ saved[t].day = NoDay
    BY <2>1 DEF WorkerInit
  <2>3. \A w \in Workers : pc[w] = "top"
    BY DEF WorkerInit
  <2>4. QED
    BY <2>2, <2>3 DEF NeverOvercharged, Busy
<1>2. QED
  BY <1>1, OverchargedStep, BaseAlways, PTL DEF WorkerSpec
------------------------------------------------------------------------------
\* The threads between a granted charge and the job it pays for.
PaidFor == {w \in Workers : pc[w] \in {"cap", "execute"} /\ KindOf[held[w]] \in Metered}

InFlight(t, c, d) ==
  {w \in PaidFor : TenantOf[held[w]] = t /\ Counter(KindOf[held[w]]) = c /\ seen[w] = d}

\* JobsArePaid, strengthened: the charges not yet spent cover the jobs under way.
PaidAhead ==
  \A t \in Tenants, c \in Counters, d \in Days :
    spent[t][c][d] + Cardinality(InFlight(t, c, d)) <= granted[t][c][d]

\* The charged messages a worker is about to execute can be counted.
LEMMA InFlightFinite ==
  ASSUME NEW t, NEW c, NEW d
  PROVE  /\ IsFiniteSet(InFlight(t, c, d))
         /\ Cardinality(InFlight(t, c, d)) \in Nat
<1>1. InFlight(t, c, d) \in SUBSET Workers
  BY DEF InFlight, PaidFor
<1>2. IsFiniteSet(InFlight(t, c, d))
  BY <1>1, FS_Subset, QueueAssumption
<1>3. QED
  BY <1>2, FS_CardinalityType

\* A step that grants nothing, spends nothing and brings no thread before its
\* job keeps the account.
LEMMA AccountKept ==
  ASSUME WorkerBase, PaidAhead, UNCHANGED <<spent, granted>>,
         \A v \in Workers : v \in PaidFor' =>
            v \in PaidFor /\ held'[v] = held[v] /\ seen'[v] = seen[v]
  PROVE  PaidAhead'
<1> SUFFICES ASSUME NEW t \in Tenants, NEW c \in Counters, NEW d \in Days
             PROVE  (spent[t][c][d] + Cardinality(InFlight(t, c, d)) <= granted[t][c][d])'
  BY DEF PaidAhead
<1>1. InFlight(t, c, d)' \in SUBSET InFlight(t, c, d)
  BY DEF InFlight, PaidFor
<1>2. Cardinality(InFlight(t, c, d)') <= Cardinality(InFlight(t, c, d))
  BY <1>1, InFlightFinite, FS_Subset
<1>3. Cardinality(InFlight(t, c, d)') \in Nat /\ Cardinality(InFlight(t, c, d)) \in Nat
  BY <1>1, InFlightFinite, FS_Subset, FS_CardinalityType
<1>4. spent[t][c][d] \in Nat /\ granted[t][c][d] \in Nat
  BY DEF WorkerBase, WorkerTypeOK
<1>5. spent[t][c][d] + Cardinality(InFlight(t, c, d)) <= granted[t][c][d]
  BY DEF PaidAhead
<1>6. QED
  BY <1>2, <1>3, <1>4, <1>5

\* A grant pays for exactly one more job under way.
LEMMA GrantPays ==
  ASSUME WorkerBase, PaidAhead, NEW w \in Workers, GrantCharge(w)
  PROVE  PaidAhead'
<1> DEFINE q == Charging(w)
<1>1. /\ pc[w] = "charge" /\ pc' = [pc EXCEPT ![w] = pc'[w]] /\ pc'[w] \in {"cap", "execute"}
      /\ granted' = [granted EXCEPT ![q.tenant][q.counter][seen[w]] = @ + 1]
      /\ UNCHANGED <<held, seen, spent>>
  BY DEF GrantCharge, Goto, queueVars, WorkerBase, WorkerTypeOK
<1>2. /\ q.tenant = TenantOf[held[w]] /\ q.counter = Counter(KindOf[held[w]])
      /\ q.tenant \in Tenants /\ q.counter \in Counters /\ seen[w] \in Days
      /\ KindOf[held[w]] \in Metered
  BY <1>1, AtWork DEF Charging, WorkerBase, MeteredHasDay
<1>3. PaidFor' = PaidFor \cup {w} /\ w \notin PaidFor
  BY <1>1, <1>2 DEF PaidFor, WorkerBase, WorkerTypeOK
<1> SUFFICES ASSUME NEW t \in Tenants, NEW c \in Counters, NEW d \in Days
             PROVE  (spent[t][c][d] + Cardinality(InFlight(t, c, d)) <= granted[t][c][d])'
  BY DEF PaidAhead
<1>4. /\ spent[t][c][d] \in Nat /\ granted[t][c][d] \in Nat /\ granted'[t][c][d] \in Int
      /\ IsFiniteSet(InFlight(t, c, d)) /\ Cardinality(InFlight(t, c, d)) \in Nat
  BY SMTT(30), <1>1, <1>2, InFlightFinite DEF WorkerBase, WorkerTypeOK
<1>5. spent[t][c][d] + Cardinality(InFlight(t, c, d)) <= granted[t][c][d]
  BY DEF PaidAhead
<1>6. CASE t = q.tenant /\ c = q.counter /\ d = seen[w]
  <2>1. InFlight(t, c, d)' = InFlight(t, c, d) \cup {w} /\ w \notin InFlight(t, c, d)
    BY <1>1, <1>2, <1>3, <1>6 DEF InFlight
  <2>2. Cardinality(InFlight(t, c, d)') = Cardinality(InFlight(t, c, d)) + 1
    BY <2>1, <1>4, FS_AddElement
  <2>3. granted'[t][c][d] = granted[t][c][d] + 1
    BY SMTT(30), <1>1, <1>2, <1>6 DEF WorkerBase, WorkerTypeOK
  <2>4. QED
    BY <1>1, <1>4, <1>5, <2>2, <2>3
<1>7. CASE ~(t = q.tenant /\ c = q.counter /\ d = seen[w])
  <2>1. InFlight(t, c, d)' = InFlight(t, c, d)
    BY <1>1, <1>2, <1>3, <1>7 DEF InFlight
  <2>2. granted'[t][c][d] = granted[t][c][d]
    BY SMTT(30), <1>1, <1>2, <1>7 DEF WorkerBase, WorkerTypeOK
  <2>3. QED
    BY <1>1, <1>5, <2>1, <2>2
<1>8. QED
  BY <1>6, <1>7

\* A job that is carried out uses up the charge it was waiting with.
LEMMA JobSpends ==
  ASSUME WorkerBase, PaidAhead, NEW w \in Workers, Execute(w)
  PROVE  PaidAhead'
<1> DEFINE tw == TenantOf[held[w]]
           cw == Counter(KindOf[held[w]])
<1>1. /\ pc[w] = "execute" /\ pc' = [pc EXCEPT ![w] = pc'[w]] /\ pc'[w] \notin {"cap", "execute"}
      /\ spent' = IF KindOf[held[w]] \in Metered
                  THEN [spent EXCEPT ![tw][cw][seen[w]] = @ + 1] ELSE spent
      /\ UNCHANGED <<held, seen, granted>>
  BY DEF Execute, Goto, AfterJob, queueVars, WorkerBase, WorkerTypeOK
<1>2. tw \in Tenants /\ cw \in Counters /\ (KindOf[held[w]] \in Metered => seen[w] \in Days)
  BY <1>1, AtWork DEF WorkerBase, MeteredHasDay
<1>3. PaidFor' = PaidFor \ {w} /\ (w \in PaidFor <=> KindOf[held[w]] \in Metered)
  BY <1>1 DEF PaidFor, WorkerBase, WorkerTypeOK
<1>4. CASE KindOf[held[w]] \notin Metered
  BY <1>1, <1>3, <1>4, AccountKept DEF PaidFor
<1>5. CASE KindOf[held[w]] \in Metered
  <2> SUFFICES ASSUME NEW t \in Tenants, NEW c \in Counters, NEW d \in Days
               PROVE  (spent[t][c][d] + Cardinality(InFlight(t, c, d)) <= granted[t][c][d])'
    BY DEF PaidAhead
  <2>1. /\ spent[t][c][d] \in Nat /\ granted[t][c][d] \in Nat
        /\ IsFiniteSet(InFlight(t, c, d)) /\ Cardinality(InFlight(t, c, d)) \in Nat
    BY InFlightFinite DEF WorkerBase, WorkerTypeOK
  <2>2. spent[t][c][d] + Cardinality(InFlight(t, c, d)) <= granted[t][c][d]
    BY DEF PaidAhead
  <2>3. CASE t = tw /\ c = cw /\ d = seen[w]
    <3>1. InFlight(t, c, d)' = InFlight(t, c, d) \ {w} /\ w \in InFlight(t, c, d)
      BY <1>1, <1>3, <1>5, <2>3 DEF InFlight
    <3>2. Cardinality(InFlight(t, c, d)') = Cardinality(InFlight(t, c, d)) - 1
      BY <3>1, <2>1, FS_RemoveElement
    <3>3. spent'[t][c][d] = spent[t][c][d] + 1
      BY SMTT(30), <1>1, <1>2, <1>5, <2>3 DEF WorkerBase, WorkerTypeOK
    <3>4. QED
      BY SMTT(30), <1>1, <2>1, <2>2, <3>2, <3>3
  <2>4. CASE ~(t = tw /\ c = cw /\ d = seen[w])
    <3>1. InFlight(t, c, d)' = InFlight(t, c, d)
      BY <1>1, <1>3, <2>4 DEF InFlight
    <3>2. spent'[t][c][d] = spent[t][c][d]
      BY SMTT(30), <1>1, <1>2, <1>5, <2>4 DEF WorkerBase, WorkerTypeOK
    <3>3. QED
      BY <1>1, <2>2, <3>1, <3>2
  <2>5. QED
    BY <2>3, <2>4
<1>6. QED
  BY <1>4, <1>5

\* Every step of the worker keeps what it spent paid for by what it granted.
LEMMA PaidStep ==
  ASSUME WorkerBase, PaidAhead, [WorkerNext]_allVars
  PROVE  PaidAhead'
<1>1. CASE UNCHANGED allVars
  BY <1>1, AccountKept DEF allVars, queueVars, workerVars, threadVars, historyVars, PaidFor
<1>2. CASE \E m \in Messages : Producer(m)
  BY <1>2, AccountKept DEF Producer, Enqueue, workerVars, threadVars, historyVars, PaidFor
<1>3. ASSUME NEW w \in Workers, UNCHANGED <<spent, granted>>,
             pc' = [pc EXCEPT ![w] = pc'[w]], pc'[w] \notin {"cap", "execute"},
             \A v \in Workers \ {w} : held'[v] = held[v] /\ seen'[v] = seen[v]
      PROVE  PaidAhead'
  BY <1>3, AccountKept DEF PaidFor, WorkerBase, WorkerTypeOK
<1>4. ASSUME NEW w \in Workers, CheckRunning(w) \/ DenyCharge(w) \/ SerialiseUsage(w) \/ WriteUsage(w)
                                \/ StoreJobResult(w)
      PROVE  PaidAhead'
  <2>1. /\ pc' = [pc EXCEPT ![w] = pc'[w]] /\ pc'[w] \notin {"cap", "execute"}
        /\ UNCHANGED <<spent, granted, held, seen>>
    BY <1>4 DEF CheckRunning, DenyCharge, SerialiseUsage, WriteUsage, StoreJobResult, Answer, Goto,
                queueVars, historyVars, WorkerBase, WorkerTypeOK
  <2>2. QED
    BY <1>3, <2>1
<1>5. ASSUME NEW w \in Workers, Poll(w) PROVE PaidAhead'
  <2>1. /\ pc' = [pc EXCEPT ![w] = pc'[w]] /\ pc'[w] \notin {"cap", "execute"}
        /\ UNCHANGED <<spent, granted, seen>>
    BY <1>5 DEF Poll, Goto, historyVars, WorkerBase, WorkerTypeOK
  <2>2. \A v \in Workers \ {w} : held'[v] = held[v]
    BY <1>5 DEF Poll, Dequeue, queueVars, WorkerBase, QueueTypeOK
  <2>3. QED
    BY <1>3, <2>1, <2>2
<1>6. ASSUME NEW w \in Workers, ReadTenant(w) PROVE PaidAhead'
  <2>1. /\ \A v \in Workers \ {w} : pc'[v] = pc[v] /\ seen'[v] = seen[v]
        /\ UNCHANGED <<spent, granted, held>>
    BY <1>6 DEF ReadTenant, Answer, Goto, queueVars, historyVars, WorkerBase, WorkerTypeOK
  <2>2. pc'[w] \in {"cap", "execute"} => KindOf[held[w]] \notin Metered
    BY <1>6 DEF ReadTenant, Answer, Goto, WorkerBase, WorkerTypeOK
  <2>3. QED
    BY <2>1, <2>2, AccountKept DEF PaidFor
<1>7. ASSUME NEW w \in Workers, CheckCostCap(w) PROVE PaidAhead'
  <2>1. /\ \A v \in Workers \ {w} : pc'[v] = pc[v]
        /\ pc[w] = "cap"
        /\ UNCHANGED <<spent, granted, held, seen>>
    BY <1>7 DEF CheckCostCap, Answer, Goto, queueVars, historyVars, WorkerBase, WorkerTypeOK
  <2>2. QED
    BY <2>1, AccountKept DEF PaidFor
<1>8. ASSUME NEW w \in Workers, Settle(w) \/ Raise(w) PROVE PaidAhead'
  <2>1. /\ pc' = [pc EXCEPT ![w] = pc'[w]] /\ pc'[w] \notin {"cap", "execute"}
        /\ UNCHANGED <<spent, granted>>
    BY <1>8 DEF Settle, Raise, BackToLoop, Answer, Goto, historyVars, WorkerBase, WorkerTypeOK
  <2>2. \A v \in Workers \ {w} : held'[v] = held[v]
    BY <1>8 DEF Settle, Raise, Requeue, Retry, DeadLetter, MarkDone, Release, queueVars, WorkerBase, QueueTypeOK
  <2>3. \A v \in Workers \ {w} : seen'[v] = seen[v]
    BY <1>8 DEF Settle, Raise, BackToLoop, WorkerBase, WorkerTypeOK
  <2>4. QED
    BY <1>3, <2>1, <2>2, <2>3
<1>9. CASE Stop \/ Midnight \/ DemoExpires
  BY <1>9, AccountKept DEF Stop, Midnight, DemoExpires, queueVars, threadVars, historyVars, PaidFor
<1>10. CASE Restart
  <2>1. (\A w \in Workers : pc'[w] = "top") /\ UNCHANGED <<spent, granted>>
    BY <1>10 DEF Restart, historyVars
  <2>2. QED
    BY <2>1, AccountKept DEF PaidFor
<1>11. QED
  BY <1>1, <1>2, <1>4, <1>5, <1>6, <1>7, <1>8, <1>9, <1>10, GrantPays, JobSpends DEF WorkerNext, Step

\* Every pipeline run and LLM call is carried out against a charge of its own:
\* no retry, no caught exception and no interleaving of handlers reaches the job
\* twice on one charge of _check_quota.
THEOREM JobsArePaidAlways == WorkerSpec => []JobsArePaid
<1>1. WorkerInit => PaidAhead
  <2> SUFFICES ASSUME WorkerInit, NEW t \in Tenants, NEW c \in Counters, NEW d \in Days
               PROVE  spent[t][c][d] + Cardinality(InFlight(t, c, d)) <= granted[t][c][d]
    BY DEF PaidAhead
  <2>1. spent[t][c][d] = 0 /\ granted[t][c][d] = 0
    BY DEF WorkerInit, NoCharges
  <2>2. InFlight(t, c, d) = {}
    BY DEF WorkerInit, InFlight, PaidFor
  <2>3. QED
    BY <2>1, <2>2, FS_EmptySet
<1>2. WorkerBase /\ PaidAhead => JobsArePaid
  <2> SUFFICES ASSUME WorkerBase, PaidAhead, NEW t \in Tenants, NEW c \in Counters, NEW d \in Days
               PROVE  spent[t][c][d] <= granted[t][c][d]
    BY DEF JobsArePaid
  <2>1. spent[t][c][d] \in Nat /\ granted[t][c][d] \in Nat
    BY DEF WorkerBase, WorkerTypeOK
  <2>2. QED
    BY <2>1, InFlightFinite DEF PaidAhead
<1>3. QED
  BY <1>1, <1>2, PaidStep, BaseAlways, PTL DEF WorkerSpec
------------------------------------------------------------------------------
\* On one day and in one process the record in memory, once it exists, is the
\* account of what was granted; until then there is nothing on disk either.
MemoryIsTheAccount ==
  \A t \in Tenants, c \in Counters :
    /\ usage[t].day = NoDay => saved[t].day = NoDay /\ granted[t][c][1] = 0
    /\ usage[t].day # NoDay => usage[t].count[c] = granted[t][c][1]
    /\ granted[t][c][1] <= Limit[c]

\* A metered job reaches its persist with its tenant's record in memory.
PersistsARecord ==
  \A w \in Workers :
    /\ pc[w] \in {"persist", "write"} => KindOf[held[w]] \in Metered
    /\ pc[w] \in {"cap", "execute", "persist", "write"} /\ KindOf[held[w]] \in Metered
         => usage[TenantOf[held[w]]].day # NoDay

\* Under the lock the record at hand is that account.
LEMMA AccountAtHand ==
  ASSUME WorkerBase, MemoryIsTheAccount, MaxDay = 1, NEW w \in Workers, pc[w] = "charge"
  PROVE  LET q == Charging(w)
         IN  /\ q.tenant = TenantOf[held[w]] /\ q.tenant \in Tenants /\ q.counter \in Counters
             /\ q.record \in UsageRecord /\ q.record.day = 1 /\ seen[w] = 1
             /\ \A c \in Counters : q.record.count[c] = granted[q.tenant][c][1]
<1> DEFINE q == Charging(w)
<1>1. /\ q.tenant = TenantOf[held[w]] /\ q.tenant \in Tenants /\ q.counter \in Counters
      /\ seen[w] \in Days /\ q.record = CurrentUsage(q.tenant, seen[w])
  BY AtWork DEF Charging, WorkerBase, MeteredHasDay
<1>2. seen[w] = 1 /\ Days = {1} /\ 1 # NoDay /\ 1 \in Days \cup {NoDay}
  BY <1>1 DEF Days, NoDay
<1>3. q.record \in UsageRecord /\ q.record.day = 1
  BY <1>1, <1>2, CurrentRecord DEF WorkerBase
<1>4. ASSUME NEW c \in Counters PROVE q.record.count[c] = granted[q.tenant][c][1]
  <2>1. CASE usage[q.tenant].day = 1
    BY <1>1, <1>2, <2>1 DEF CurrentUsage, MemoryIsTheAccount
  <2>2. CASE usage[q.tenant].day # 1
    <3>1. usage[q.tenant].day = NoDay
      BY <1>1, <1>2, <2>2 DEF WorkerBase, WorkerTypeOK, UsageRecord
    <3>2. q.record = Fresh(1) /\ granted[q.tenant][c][1] = 0
      BY <1>1, <1>2, <2>2, <3>1 DEF CurrentUsage, MemoryIsTheAccount
    <3>3. Fresh(1).count[c] = 0
      BY <1>2, FreshRecord
    <3>4. QED
      BY <3>2, <3>3
  <2>3. QED
    BY <2>1, <2>2
<1>5. QED
  BY <1>1, <1>2, <1>3, <1>4

DayAccount == MemoryIsTheAccount /\ PersistsARecord

\* Steps that leave the records alone.
LEMMA DayAccountKept ==
  ASSUME WorkerBase, DayAccount, UNCHANGED <<usage, saved, granted>>,
         \A v \in Workers : pc'[v] \in {"cap", "execute", "persist", "write"} =>
            /\ held'[v] = held[v]
            /\ KindOf[held[v]] \in Metered =>
                 pc[v] \in {"cap", "execute", "persist", "write"}
            /\ pc'[v] \in {"persist", "write"} => KindOf[held[v]] \in Metered
  PROVE  DayAccount'
<1>1. PersistsARecord'
  BY DEF DayAccount, PersistsARecord
<1>2. QED
  BY <1>1 DEF DayAccount, MemoryIsTheAccount

\* A refused charge leaves the account of the day in memory.
LEMMA DayDenied ==
  ASSUME WorkerBase, WorkerBase', DayAccount, MaxDay = 1, NEW w \in Workers, DenyCharge(w)
  PROVE  DayAccount'
<1> DEFINE q == Charging(w)
<1>1. /\ pc[w] = "charge" /\ pc' = [pc EXCEPT ![w] = "store"]
      /\ usage' = [usage EXCEPT ![q.tenant] = q.record]
      /\ UNCHANGED <<held, saved, granted>>
  BY DEF DenyCharge, Answer, Goto, queueVars, historyVars
<1>2. /\ q.tenant \in Tenants /\ q.record.day = 1 /\ 1 # NoDay
      /\ \A c \in Counters : q.record.count[c] = granted[q.tenant][c][1]
  BY <1>1, AccountAtHand DEF DayAccount, NoDay
<1>3. \A t \in Tenants : usage'[t] = IF t = q.tenant THEN q.record ELSE usage[t]
  BY <1>1 DEF WorkerBase, WorkerTypeOK
<1>4. \A t \in Tenants : usage[t].day # NoDay => usage'[t].day # NoDay
  BY <1>2, <1>3
<1>5. \A v \in Workers : v # w => pc'[v] = pc[v]
  BY <1>1 DEF WorkerBase, WorkerTypeOK
<1>6. pc'[w] = "store"
  BY <1>1 DEF WorkerBase, WorkerTypeOK
<1>7. \A v \in Workers : pc[v] \in {"cap", "execute", "persist", "write"} => TenantOf[held[v]] \in Tenants
  BY AtWork
<1>8. PersistsARecord'
  BY <1>1, <1>4, <1>5, <1>6, <1>7 DEF DayAccount, PersistsARecord
<1>9. \A t \in Tenants, c \in Counters :
         /\ usage'[t].day = NoDay => saved'[t].day = NoDay /\ granted'[t][c][1] = 0
         /\ usage'[t].day # NoDay => usage'[t].count[c] = granted'[t][c][1]
         /\ granted'[t][c][1] <= Limit[c]
  BY <1>1, <1>2, <1>3 DEF DayAccount, MemoryIsTheAccount
<1>10. QED
  BY <1>8, <1>9 DEF DayAccount, MemoryIsTheAccount

\* A granted charge is entered in the account, and only below the allowance.
LEMMA DayGranted ==
  ASSUME WorkerBase, WorkerBase', DayAccount, MaxDay = 1, NEW w \in Workers, GrantCharge(w)
  PROVE  DayAccount'
<1> DEFINE q == Charging(w)
           r == [q.record EXCEPT !.count[q.counter] = @ + 1]
<1>1. /\ pc[w] = "charge" /\ pc' = [pc EXCEPT ![w] = pc'[w]] /\ pc'[w] \in {"cap", "execute"}
      /\ usage' = [usage EXCEPT ![q.tenant] = r]
      /\ granted' = [granted EXCEPT ![q.tenant][q.counter][seen[w]] = @ + 1]
      /\ QuotaLeft(q.record, q.counter)
      /\ UNCHANGED <<held, saved>>
  BY DEF GrantCharge, Goto, queueVars, WorkerBase, WorkerTypeOK
<1>2. /\ q.tenant \in Tenants /\ q.counter \in Counters /\ q.record \in UsageRecord
      /\ q.tenant = TenantOf[held[w]] /\ q.record.day = 1 /\ 1 # NoDay /\ seen[w] = 1
      /\ \A c \in Counters : q.record.count[c] = granted[q.tenant][c][1]
  BY <1>1, AccountAtHand DEF DayAccount, NoDay
<1>3. /\ r.day = 1
      /\ r.count[q.counter] = q.record.count[q.counter] + 1
      /\ \A e \in Counters : e # q.counter => r.count[e] = q.record.count[e]
  BY <1>2, ChargedRecord
<1>4. \A t \in Tenants : usage'[t] = IF t = q.tenant THEN r ELSE usage[t]
  BY <1>1 DEF WorkerBase, WorkerTypeOK
<1>5. \A t \in Tenants, c \in Counters :
        granted'[t][c][1] = IF t = q.tenant /\ c = q.counter THEN granted[t][c][1] + 1
                            ELSE granted[t][c][1]
  <2>1. 1 \in Days
    BY DayFacts
  <2>2. QED
    BY SMTT(30), <1>1, <1>2, <2>1 DEF WorkerBase, WorkerTypeOK
<1>6. \A t \in Tenants, c \in Counters : granted[t][c][1] \in Nat /\ Limit[c] \in Nat
  BY DayFacts, WorkerAssumption DEF WorkerBase, WorkerTypeOK
<1>7. granted[q.tenant][q.counter][1] < Limit[q.counter]
  BY <1>1, <1>2 DEF QuotaLeft
<1>8. \A t \in Tenants : usage[t].day # NoDay => usage'[t].day # NoDay
  BY <1>2, <1>3, <1>4
<1>9. \A v \in Workers : v # w => pc'[v] = pc[v]
  BY <1>1 DEF WorkerBase, WorkerTypeOK
<1>10. \A v \in Workers : pc[v] \in {"cap", "execute", "persist", "write"} => TenantOf[held[v]] \in Tenants
  BY AtWork
<1>11. PersistsARecord'
  <2> SUFFICES ASSUME NEW v \in Workers
               PROVE  /\ pc'[v] \in {"persist", "write"} => KindOf[held[v]] \in Metered
                      /\ pc'[v] \in {"cap", "execute", "persist", "write"} /\ KindOf[held[v]] \in Metered
                           => usage'[TenantOf[held[v]]].day # NoDay
    BY <1>1 DEF PersistsARecord
  <2>1. CASE v = w
    BY <1>1, <1>2, <1>3, <1>4, <2>1
  <2>2. CASE v # w
    BY <1>8, <1>9, <1>10, <2>2 DEF DayAccount, PersistsARecord
  <2>3. QED
    BY <2>1, <2>2
<1>12. ASSUME NEW t \in Tenants, NEW c \in Counters
       PROVE  /\ usage'[t].day = NoDay => saved'[t].day = NoDay /\ granted'[t][c][1] = 0
              /\ usage'[t].day # NoDay => usage'[t].count[c] = granted'[t][c][1]
              /\ granted'[t][c][1] <= Limit[c]
  <2>1. CASE t = q.tenant
    <3>1. usage'[t] = r /\ usage'[t].day # NoDay
      BY <1>2, <1>3, <1>4, <2>1
    <3>2. r.count[c] = granted'[t][c][1]
      BY <1>2, <1>3, <1>5, <2>1
    <3>3. granted'[t][c][1] <= Limit[c]
      BY <1>5, <1>6, <1>7, <2>1 DEF DayAccount, MemoryIsTheAccount
    <3>4. QED
      BY <3>1, <3>2, <3>3
  <2>2. CASE t # q.tenant
    BY <1>1, <1>4, <1>5, <2>2 DEF DayAccount, MemoryIsTheAccount
  <2>3. QED
    BY <2>1, <2>2
<1>13. QED
  BY <1>11, <1>12 DEF DayAccount, MemoryIsTheAccount

\* On the only day of one process the account is kept by every step.
LEMMA DayAccountStep ==
  ASSUME WorkerBase, WorkerBase', DayAccount, MaxDay = 1, MaxRestarts = 0, [WorkerNext]_allVars
  PROVE  DayAccount'
<1> DEFINE AtJob == {"cap", "execute", "persist", "write"}
<1>1. CASE UNCHANGED allVars
  BY <1>1, DayAccountKept
     DEF allVars, queueVars, workerVars, threadVars, historyVars, DayAccount, PersistsARecord
<1>2. CASE \E m \in Messages : Producer(m)
  BY <1>2, DayAccountKept
     DEF Producer, Enqueue, workerVars, threadVars, historyVars, DayAccount, PersistsARecord
<1>3. ASSUME NEW w \in Workers, UNCHANGED <<usage, saved, granted>>,
             pc' = [pc EXCEPT ![w] = pc'[w]], pc'[w] \notin AtJob,
             \A v \in Workers \ {w} : held'[v] = held[v]
      PROVE  DayAccount'
  BY <1>3, DayAccountKept DEF WorkerBase, WorkerTypeOK, DayAccount, PersistsARecord
<1>4. ASSUME NEW w \in Workers, CheckRunning(w) \/ StoreJobResult(w)
      PROVE  DayAccount'
  <2>1. /\ pc' = [pc EXCEPT ![w] = pc'[w]] /\ pc'[w] \notin AtJob
        /\ UNCHANGED <<usage, saved, granted, held>>
    BY <1>4 DEF CheckRunning, StoreJobResult, Goto, queueVars, historyVars, WorkerBase, WorkerTypeOK
  <2>2. QED
    BY <1>3, <2>1
<1>5. ASSUME NEW w \in Workers, Poll(w) PROVE DayAccount'
  <2>1. /\ pc' = [pc EXCEPT ![w] = pc'[w]] /\ pc'[w] \notin AtJob
        /\ UNCHANGED <<usage, saved, granted>>
    BY <1>5 DEF Poll, Goto, historyVars, WorkerBase, WorkerTypeOK
  <2>2. \A v \in Workers \ {w} : held'[v] = held[v]
    BY <1>5 DEF Poll, Dequeue, queueVars, WorkerBase, QueueTypeOK
  <2>3. QED
    BY <1>3, <2>1, <2>2
<1>6. ASSUME NEW w \in Workers, UNCHANGED <<usage, saved, granted, held>>,
             pc' = [pc EXCEPT ![w] = pc'[w]],
             pc'[w] \in AtJob /\ KindOf[held[w]] \in Metered => pc[w] \in AtJob,
             pc'[w] \in {"persist", "write"} => KindOf[held[w]] \in Metered
      PROVE  DayAccount'
  BY <1>6, DayAccountKept DEF WorkerBase, WorkerTypeOK, DayAccount, PersistsARecord
<1>7. ASSUME NEW w \in Workers, ReadTenant(w) PROVE DayAccount'
  BY <1>6, <1>7 DEF ReadTenant, Answer, Goto, queueVars, historyVars, WorkerBase, WorkerTypeOK
<1>8. ASSUME NEW w \in Workers, CheckCostCap(w) PROVE DayAccount'
  BY <1>6, <1>8 DEF CheckCostCap, Answer, Goto, queueVars, historyVars, WorkerBase, WorkerTypeOK
<1>9. ASSUME NEW w \in Workers, Execute(w) PROVE DayAccount'
  <2>1. /\ pc[w] = "execute" /\ pc' = [pc EXCEPT ![w] = AfterJob(KindOf[held[w]])]
        /\ UNCHANGED <<usage, saved, granted, held>>
    BY <1>9 DEF Execute, Goto, queueVars
  <2>2. pc'[w] = AfterJob(KindOf[held[w]])
    BY <2>1 DEF WorkerBase, WorkerTypeOK
  <2>3. pc'[w] \in {"persist", "write"} => KindOf[held[w]] \in Metered
    BY <2>2 DEF AfterJob
  <2>4. QED
    BY <1>6, <2>1, <2>2, <2>3
<1>10. ASSUME NEW w \in Workers, SerialiseUsage(w) PROVE DayAccount'
  <2>1. /\ pc[w] = "persist" /\ pc' = [pc EXCEPT ![w] = "write"]
        /\ UNCHANGED <<usage, saved, granted, held>>
    BY <1>10 DEF SerialiseUsage, Goto, queueVars, historyVars
  <2>2. pc'[w] = "write" /\ KindOf[held[w]] \in Metered
    BY <2>1 DEF WorkerBase, WorkerTypeOK, DayAccount, PersistsARecord
  <2>3. QED
    BY <1>6, <2>1, <2>2
<1>11. ASSUME NEW w \in Workers, WriteUsage(w) PROVE DayAccount'
  <2>1. /\ pc[w] = "write" /\ pc' = [pc EXCEPT ![w] = "store"]
        /\ saved' = [saved EXCEPT ![TenantOf[held[w]]] = snapshot[w]]
        /\ UNCHANGED <<usage, granted, held>>
    BY <1>11 DEF WriteUsage, Goto, queueVars, historyVars
  <2>2. usage[TenantOf[held[w]]].day # NoDay
    BY <2>1 DEF DayAccount, PersistsARecord
  <2>3. \A t \in Tenants : usage[t].day = NoDay => saved'[t] = saved[t]
    BY <2>1, <2>2 DEF WorkerBase, WorkerTypeOK
  <2>4. \A v \in Workers : pc'[v] \in AtJob => pc'[v] = pc[v]
    BY <2>1 DEF WorkerBase, WorkerTypeOK
  <2>5. QED
    BY <2>1, <2>3, <2>4 DEF DayAccount, MemoryIsTheAccount, PersistsARecord
<1>12. ASSUME NEW w \in Workers, Settle(w) \/ Raise(w) PROVE DayAccount'
  <2>1. /\ pc' = [pc EXCEPT ![w] = pc'[w]] /\ pc'[w] \notin AtJob
        /\ UNCHANGED <<usage, saved, granted>>
    BY <1>12 DEF Settle, Raise, BackToLoop, Answer, Goto, historyVars, WorkerBase, WorkerTypeOK
  <2>2. \A v \in Workers \ {w} : held'[v] = held[v]
    BY <1>12 DEF Settle, Raise, Requeue, Retry, DeadLetter, MarkDone, Release, queueVars, WorkerBase, QueueTypeOK
  <2>3. QED
    BY <1>3, <2>1, <2>2
<1>13. CASE Stop \/ Midnight \/ DemoExpires
  BY <1>13, DayAccountKept DEF Stop, Midnight, DemoExpires, queueVars, threadVars, historyVars,
     DayAccount, PersistsARecord
<1>14. ~Restart
  BY DEF Restart, WorkerBase, WorkerTypeOK
<1>15. QED
  BY <1>1, <1>2, <1>4, <1>5, <1>7, <1>8, <1>9, <1>10, <1>11, <1>12, <1>13, <1>14, DayDenied, DayGranted
     DEF WorkerNext, Step

\* _usage_lock: while the process lives and the date stands, no number of
\* threads is granted more than the allowance, whatever their handlers raise.
\* The two hypotheses are what the code cannot do without.
THEOREM AllowanceOfOneDay ==
  ASSUME MaxDay = 1, MaxRestarts = 0
  PROVE  WorkerSpec => []QuotaPerDay
<1>1. WorkerInit => DayAccount
  <2> SUFFICES ASSUME WorkerInit PROVE DayAccount
    OBVIOUS
  <2>1. \A t \in Tenants : usage[t].day = NoDay /\ saved[t].day = NoDay
    BY FreshRecord DEF WorkerInit
  <2>2. \A t \in Tenants, c \in Counters : granted[t][c][1] = 0 /\ 0 <= Limit[c]
    BY DayFacts, WorkerAssumption DEF WorkerInit, NoCharges
  <2>3. QED
    BY <2>1, <2>2 DEF WorkerInit, DayAccount, MemoryIsTheAccount, PersistsARecord
<1>2. DayAccount => QuotaPerDay
  BY DEF DayAccount, MemoryIsTheAccount, QuotaPerDay, Days
<1>3. WorkerBase /\ WorkerBase' /\ DayAccount /\ [WorkerNext]_allVars => DayAccount'
  BY DayAccountStep
<1>4. QED
  BY <1>1, <1>2, <1>3, BaseAlways, PTL DEF WorkerSpec

------------------------------------------------------------------------------
(***************************************************************************)
(* What job_results says: an answer is true, and a settled job keeps it.   *)
(***************************************************************************)

\* What a handler is about to report is true: "completed" only after the job
\* (or from a stub),
\* some verdict before it stores one, and a result before it settles.
TruthfulAt(w) ==
  /\ pc[w] \in {"top", "poll", "exited"} => verdict[w] = "none"
  /\ verdict[w] = "completed" => held[w] \in ran \/ KindOf[held[w]] \in Stubs
  /\ pc[w] = "store" => verdict[w] # "none"
  /\ pc[w] \in {"persist", "write"} => KindOf[held[w]] \in Metered /\ verdict[w] = "completed"
  /\ pc[w] = "settle" /\ KindOf[held[w]] \in StoresResult /\ TenantOf[held[w]] \notin Unknown
       => result[held[w]] # "none"

\* A result is the last thing that happens to a message before it settles: one
\* that has a result neither waits nor is anywhere else in a handler.
AnswerIsLast ==
  \A m \in Messages : result[m] # "none" =>
    /\ m \in accepted
    /\ m \notin Waiting
    /\ \A w \in Workers : held[w] = m => pc[w] = "settle"

ResultsInv == (\A w \in Workers : TruthfulAt(w)) /\ AnswerIsLast /\ ResultsAreTrue

\* A message that a thread holds is nowhere else.
LEMMA HeldIsNotSettled ==
  ASSUME QueueInv, NEW w \in Workers, held[w] \in Messages
  PROVE  /\ held[w] \in accepted
         /\ held[w] \notin Waiting
         /\ held[w] \notin done \cup dead
         /\ \A v \in Workers : held[v] = held[w] => v = w
<1>1. w \in Busy /\ held[w] \in InHand
  BY QueueAssumption DEF Busy, InHand
<1>2. \A v \in Workers : held[v] = held[w] => v \in Busy
  BY QueueAssumption DEF Busy
<1>3. QED
  BY <1>1, <1>2 DEF QueueInv, OnePlace

\* One thread moves, and no result is written.
LEMMA ThreadMoves ==
  ASSUME WorkerBase, ResultsInv, NEW w \in Workers, UNCHANGED result,
         \A v \in Workers \ {w} : /\ pc'[v] = pc[v]
                                  /\ verdict'[v] = verdict[v]
                                  /\ held'[v] = held[v],
         ran \subseteq ran', accepted \subseteq accepted',
         TruthfulAt(w)',
         \A m \in Waiting' : m \in Waiting \/ result[m] = "none",
         held'[w] \in Messages /\ result[held'[w]] # "none" => pc'[w] = "settle",
         \A m \in done' : m \in done \/
           (KindOf[m] \in StoresResult /\ TenantOf[m] \notin Unknown => result[m] # "none")
  PROVE  ResultsInv'
<1>1. ASSUME NEW v \in Workers PROVE TruthfulAt(v)'
  <2>1. CASE v = w
    BY <2>1
  <2>2. CASE v # w
    BY <2>2 DEF TruthfulAt, ResultsInv
  <2>3. QED
    BY <2>1, <2>2
<1>2. AnswerIsLast'
  BY DEF AnswerIsLast, ResultsInv
<1>3. ResultsAreTrue'
  BY DEF ResultsAreTrue, ResultsInv
<1>4. QED
  BY <1>1, <1>2, <1>3 DEF ResultsInv

\* A handler at work goes on with its message and leaves the queue alone.
LEMMA HandlerGoesOn ==
  ASSUME WorkerBase, ResultsInv, NEW w \in Workers, UNCHANGED <<queueVars, result>>,
         pc[w] # "settle",
         pc' = [pc EXCEPT ![w] = pc'[w]], verdict' = [verdict EXCEPT ![w] = verdict'[w]],
         ran \subseteq ran',
         TruthfulAt(w)'
  PROVE  ResultsInv'
<1>1. \A v \in Workers \ {w} : pc'[v] = pc[v] /\ verdict'[v] = verdict[v] /\ held'[v] = held[v]
  BY DEF queueVars, WorkerBase, WorkerTypeOK
<1>2. Waiting' = Waiting /\ accepted' = accepted /\ done' = done /\ held' = held
  BY DEF queueVars, Waiting
<1>3. held[w] \in Messages => result[held[w]] = "none"
  BY DEF ResultsInv, AnswerIsLast
<1>4. QED
  BY <1>1, <1>2, <1>3, ThreadMoves

\* Each action keeps the results true.
LEMMA ResultsStep ==
  ASSUME WorkerBase, WorkerBase', QueueInv, QueueInv', ResultsInv, [WorkerNext]_allVars
  PROVE  ResultsInv'
<1>0. /\ \A w \in Workers : pc[w] \in Labels /\ verdict[w] \in Verdicts /\ TruthfulAt(w)
      /\ \A w \in Workers : pc[w] \notin {"top", "poll", "exited"} => held[w] \in Messages
  BY AtWork DEF WorkerBase, WorkerTypeOK, ResultsInv
<1>1. CASE UNCHANGED allVars
  <2>1. UNCHANGED <<queueVars, pc, verdict, result, ran>>
    BY <1>1 DEF allVars, workerVars, threadVars, historyVars
  <2>2. QED
    BY <2>1 DEF ResultsInv, TruthfulAt, AnswerIsLast, ResultsAreTrue, queueVars, Waiting
<1>2. ASSUME NEW m \in Messages, Producer(m) PROVE ResultsInv'
  <2>1. /\ UNCHANGED <<held, done, pc, verdict, result, ran>>
        /\ m \notin accepted
        /\ accepted' = accepted \cup {m}
        /\ queue' = Append(queue, m)
    BY <1>2 DEF Producer, Enqueue, Put, workerVars, threadVars, historyVars
  <2>2. Waiting' = Waiting \cup {m}
    BY <2>1, AppendWaiting DEF Waiting, WorkerBase, QueueTypeOK
  <2>3. result[m] = "none"
    BY <2>1 DEF ResultsInv, AnswerIsLast
  <2>4. \A w \in Workers : TruthfulAt(w)'
    BY <1>0, <2>1 DEF TruthfulAt
  <2>5. AnswerIsLast'
    BY <2>1, <2>2, <2>3 DEF ResultsInv, AnswerIsLast
  <2>6. ResultsAreTrue'
    BY <2>1 DEF ResultsInv, ResultsAreTrue
  <2>7. QED
    BY <2>4, <2>5, <2>6 DEF ResultsInv
<1>3. ASSUME NEW w \in Workers, CheckRunning(w) PROVE ResultsInv'
  <2>1. /\ pc[w] = "top" /\ pc' = [pc EXCEPT ![w] = pc'[w]] /\ pc'[w] \in {"poll", "exited"}
        /\ UNCHANGED <<queueVars, verdict, result, ran>>
    BY <1>3 DEF CheckRunning, Goto, historyVars, WorkerBase, WorkerTypeOK
  <2>2. held' = held /\ verdict' = [verdict EXCEPT ![w] = verdict'[w]]
    BY <2>1 DEF queueVars, WorkerBase, WorkerTypeOK
  <2>3. TruthfulAt(w)'
    BY <1>0, <2>1, <2>2 DEF TruthfulAt
  <2>4. QED
    BY <2>1, <2>2, <2>3, HandlerGoesOn
<1>4. ASSUME NEW w \in Workers, Poll(w) PROVE ResultsInv'
  <2>1. pc[w] = "poll" /\ UNCHANGED <<verdict, result, ran>> /\ verdict[w] = "none"
    BY <1>0, <1>4 DEF Poll, historyVars, TruthfulAt
  <2>2. CASE Dequeue(w) /\ Goto(w, "read")
    <3>1. /\ pc' = [pc EXCEPT ![w] = "read"]
          /\ queue # <<>> /\ queue' = Tail(queue)
          /\ held' = [held EXCEPT ![w] = Head(queue)]
          /\ UNCHANGED <<accepted, done>>
      BY <2>2 DEF Dequeue, Goto
    <3>2. pc'[w] = "read" /\ held'[w] = Head(queue)
      BY <3>1 DEF WorkerBase, WorkerTypeOK, QueueTypeOK
    <3>3. \A v \in Workers \ {w} : pc'[v] = pc[v] /\ held'[v] = held[v] /\ verdict'[v] = verdict[v]
      BY <2>1, <3>1 DEF WorkerBase, WorkerTypeOK, QueueTypeOK
    <3>4. Head(queue) \in Waiting /\ Head(queue) \in Messages /\ Waiting' \subseteq Waiting
      BY <3>1, TailWaiting DEF WorkerBase, QueueTypeOK, QueueInv, OnePlace, Waiting
    <3>5. result[held'[w]] = "none"
      BY <3>2, <3>4 DEF ResultsInv, AnswerIsLast
    <3>6. TruthfulAt(w)'
      BY <2>1, <3>2 DEF TruthfulAt
    <3>7. QED
      BY <2>1, <3>1, <3>3, <3>4, <3>5, <3>6, ThreadMoves
  <2>3. CASE queue = <<>> /\ Goto(w, "top") /\ UNCHANGED queueVars
    <3>1. pc' = [pc EXCEPT ![w] = pc'[w]] /\ pc'[w] = "top" /\ UNCHANGED <<queueVars, held>>
      BY <2>3 DEF Goto, queueVars, WorkerBase, WorkerTypeOK
    <3>2. verdict' = [verdict EXCEPT ![w] = verdict'[w]] /\ TruthfulAt(w)'
      BY <2>1, <3>1 DEF TruthfulAt, WorkerBase, WorkerTypeOK
    <3>3. QED
      BY <2>1, <3>1, <3>2, HandlerGoesOn
  <2>4. QED
    BY <1>4, <2>2, <2>3 DEF Poll
<1>5. ASSUME NEW w \in Workers, ReadTenant(w) PROVE ResultsInv'
  <2>1. /\ pc[w] = "read" /\ UNCHANGED <<queueVars, held, result, ran>>
        /\ pc' = [pc EXCEPT ![w] = pc'[w]]
        /\ verdict' = [verdict EXCEPT ![w] = verdict'[w]]
        /\ \/ /\ TenantOf[held[w]] \in Unknown \/ KindOf[held[w]] \in OnlyLogs
              /\ pc'[w] = "settle" /\ verdict'[w] = verdict[w]
           \/ pc'[w] = "store" /\ verdict'[w] = Refusal(held[w]) /\ verdict'[w] # "none"
           \/ pc'[w] \in {"charge", "execute"} /\ verdict'[w] = verdict[w]
    BY <1>5 DEF ReadTenant, Answer, Goto, queueVars, historyVars, WorkerBase, WorkerTypeOK
  <2>2. Refusal(held[w]) # "completed"
    BY DEF Refusal
  <2>3. OnlyLogs \cap StoresResult = {}
    BY DEF StoresResult
  <2>4. TruthfulAt(w)'
    BY <1>0, <2>1, <2>2, <2>3 DEF TruthfulAt
  <2>5. QED
    BY <2>1, <2>4, HandlerGoesOn
<1>6. ASSUME NEW w \in Workers, DenyCharge(w) \/ GrantCharge(w) \/ CheckCostCap(w) PROVE ResultsInv'
  <2>1. /\ pc[w] \in {"charge", "cap"} /\ UNCHANGED <<queueVars, held, result, ran>>
        /\ pc' = [pc EXCEPT ![w] = pc'[w]]
        /\ verdict' = [verdict EXCEPT ![w] = verdict'[w]]
        /\ \/ pc'[w] \in {"cap", "execute"} /\ verdict'[w] = verdict[w]
           \/ pc'[w] = "store" /\ verdict'[w] \in {"quota_exceeded", "demo_cost_cap"}
    BY <1>6 DEF DenyCharge, GrantCharge, CheckCostCap, Answer, Goto, queueVars, historyVars,
                WorkerBase, WorkerTypeOK
  <2>2. TruthfulAt(w)'
    BY <1>0, <2>1 DEF TruthfulAt
  <2>3. QED
    BY <2>1, <2>2, HandlerGoesOn
<1>7. ASSUME NEW w \in Workers, Execute(w) PROVE ResultsInv'
  <2>1. /\ pc[w] = "execute" /\ UNCHANGED <<queueVars, held, result>>
        /\ pc' = [pc EXCEPT ![w] = pc'[w]] /\ pc'[w] = AfterJob(KindOf[held[w]])
        /\ verdict' = [verdict EXCEPT ![w] = verdict'[w]] /\ verdict'[w] = "completed"
        /\ ran' = IF KindOf[held[w]] \in Stubs THEN ran ELSE ran \cup {held[w]}
    BY <1>7 DEF Execute, Goto, queueVars, WorkerBase, WorkerTypeOK
  <2>2. /\ pc'[w] \in {"persist", "store", "settle"}
        /\ pc'[w] = "persist" => KindOf[held[w]] \in Metered
        /\ pc'[w] = "settle" => KindOf[held[w]] \notin StoresResult
    BY <2>1 DEF AfterJob
  <2>3. TruthfulAt(w)'
    BY <1>0, <2>1, <2>2 DEF TruthfulAt
  <2>4. QED
    BY <2>1, <2>3, HandlerGoesOn
<1>8. ASSUME NEW w \in Workers, SerialiseUsage(w) \/ WriteUsage(w) PROVE ResultsInv'
  <2>1. /\ pc[w] \in {"persist", "write"} /\ UNCHANGED <<queueVars, held, result, ran, verdict>>
        /\ pc' = [pc EXCEPT ![w] = pc'[w]] /\ pc'[w] \in {"write", "store"}
    BY <1>8 DEF SerialiseUsage, WriteUsage, Goto, queueVars, historyVars, WorkerBase, WorkerTypeOK
  <2>2. TruthfulAt(w)'
    BY <1>0, <2>1 DEF TruthfulAt
  <2>3. verdict' = [verdict EXCEPT ![w] = verdict'[w]]
    BY <2>1 DEF WorkerBase, WorkerTypeOK
  <2>4. QED
    BY <2>1, <2>2, <2>3, HandlerGoesOn
<1>9. ASSUME NEW w \in Workers, StoreJobResult(w) PROVE ResultsInv'
  <2>1. /\ pc[w] = "store" /\ UNCHANGED <<held, queue, accepted, done, ran, verdict>>
        /\ pc' = [pc EXCEPT ![w] = "settle"]
        /\ result' = [result EXCEPT ![held[w]] = verdict[w]]
    BY <1>9 DEF StoreJobResult, Goto, queueVars, historyVars
  <2>2. held[w] \in Messages /\ verdict[w] # "none" /\ (verdict[w] = "completed" => held[w] \in ran \/ KindOf[held[w]] \in Stubs)
    BY <1>0, <2>1 DEF TruthfulAt
  <2>3. \A m \in Messages : result'[m] = IF m = held[w] THEN verdict[w] ELSE result[m]
    BY <2>1 DEF WorkerBase, WorkerTypeOK
  <2>4. /\ held[w] \in accepted /\ held[w] \notin Waiting
        /\ \A v \in Workers : held[v] = held[w] => v = w
    BY <2>2, HeldIsNotSettled
  <2>5. pc'[w] = "settle" /\ \A v \in Workers \ {w} : pc'[v] = pc[v]
    BY <2>1 DEF WorkerBase, WorkerTypeOK
  <2>6. ASSUME NEW v \in Workers PROVE TruthfulAt(v)'
    <3>1. CASE v = w
      BY <2>1, <2>2, <2>3, <2>5, <3>1 DEF TruthfulAt
    <3>2. CASE v # w
      <4>1. TruthfulAt(v) /\ pc'[v] = pc[v] /\ (pc[v] = "settle" => held[v] \in Messages)
        BY <1>0, <2>5, <3>2
      <4>2. QED
        BY <2>1, <2>2, <2>3, <4>1 DEF TruthfulAt
    <3>3. QED
      BY <3>1, <3>2
  <2>7. AnswerIsLast'
    <3>1. Waiting' = Waiting
      BY <2>1 DEF Waiting
    <3>2. QED
      BY <2>1, <2>3, <2>4, <2>5, <3>1 DEF AnswerIsLast, ResultsInv
  <2>8. ResultsAreTrue'
    <3>1. done \subseteq Messages
      BY DEF WorkerBase, QueueTypeOK
    <3>2. QED
      BY <2>1, <2>2, <2>3, <3>1 DEF ResultsAreTrue, ResultsInv
  <2>9. QED
    BY <2>6, <2>7, <2>8 DEF ResultsInv
<1>10. ASSUME NEW w \in Workers, Settle(w) PROVE ResultsInv'
  <2>1. /\ pc[w] = "settle" /\ UNCHANGED <<queue, accepted, result, ran>>
        /\ pc' = [pc EXCEPT ![w] = "top"]
        /\ verdict' = [verdict EXCEPT ![w] = "none"]
        /\ held' = [held EXCEPT ![w] = NoMessage]
        /\ done' = done \cup {held[w]}
    BY <1>10 DEF Settle, MarkDone, BackToLoop, Release, Goto, historyVars
  <2>2. pc'[w] = "top" /\ verdict'[w] = "none" /\ held'[w] = NoMessage
    BY <2>1 DEF WorkerBase, WorkerTypeOK, QueueTypeOK
  <2>3. \A v \in Workers \ {w} : pc'[v] = pc[v] /\ verdict'[v] = verdict[v] /\ held'[v] = held[v]
    BY <2>1 DEF WorkerBase, WorkerTypeOK, QueueTypeOK
  <2>4. TruthfulAt(w)'
    BY <2>2 DEF TruthfulAt
  <2>5. KindOf[held[w]] \in StoresResult /\ TenantOf[held[w]] \notin Unknown => result[held[w]] # "none"
    BY <1>0, <2>1 DEF TruthfulAt
  <2>6. Waiting' = Waiting /\ NoMessage \notin Messages
    BY <2>1, QueueAssumption DEF Waiting
  <2>7. QED
    BY <2>1, <2>2, <2>3, <2>4, <2>5, <2>6, ThreadMoves
<1>11. ASSUME NEW w \in Workers, Raise(w) PROVE ResultsInv'
  <2>1. pc[w] \in {"read", "execute", "persist", "write", "store", "charge"} /\ UNCHANGED <<result, ran>>
    BY <1>11 DEF Raise, historyVars
  <2>2. held[w] \in Messages /\ result[held[w]] = "none"
    BY <1>0, <2>1 DEF ResultsInv, AnswerIsLast
  <2>3. CASE Caught(w) /\ Answer(w, "error") /\ UNCHANGED <<queueVars, seen, snapshot>>
    <3>1. /\ pc' = [pc EXCEPT ![w] = pc'[w]] /\ pc'[w] = "store"
          /\ verdict' = [verdict EXCEPT ![w] = verdict'[w]] /\ verdict'[w] = "error"
          /\ UNCHANGED queueVars
      BY <2>3 DEF Answer, Goto, WorkerBase, WorkerTypeOK
    <3>2. TruthfulAt(w)'
      BY <3>1 DEF TruthfulAt
    <3>3. QED
      BY <2>1, <3>1, <3>2, HandlerGoesOn
  <2>4. CASE Requeue(w) /\ BackToLoop(w)
    <3>1. /\ pc' = [pc EXCEPT ![w] = "top"]
          /\ verdict' = [verdict EXCEPT ![w] = "none"]
          /\ held' = [held EXCEPT ![w] = NoMessage]
          /\ UNCHANGED <<accepted, done>>
          /\ queue' = Append(queue, held[w]) \/ queue' = queue
      BY <2>4 DEF Requeue, Retry, DeadLetter, BackToLoop, Release, Put, Goto
    <3>2. pc'[w] = "top" /\ verdict'[w] = "none" /\ held'[w] = NoMessage
      BY <3>1 DEF WorkerBase, WorkerTypeOK, QueueTypeOK
    <3>3. \A v \in Workers \ {w} : pc'[v] = pc[v] /\ verdict'[v] = verdict[v] /\ held'[v] = held[v]
      BY <3>1 DEF WorkerBase, WorkerTypeOK, QueueTypeOK
    <3>4. TruthfulAt(w)' /\ NoMessage \notin Messages
      BY <3>2, QueueAssumption DEF TruthfulAt
    <3>5. Waiting' \subseteq Waiting \cup {held[w]}
      <4>1. CASE queue' = queue
        BY <4>1 DEF Waiting
      <4>2. CASE queue' = Append(queue, held[w])
        <5>1. Range(Append(queue, held[w])) = Range(queue) \cup {held[w]}
          BY <2>2, AppendWaiting DEF WorkerBase, QueueTypeOK
        <5>2. Waiting' = Range(Append(queue, held[w]))
          BY <4>2 DEF Waiting
        <5>3. QED
          BY <5>1, <5>2 DEF Waiting
      <4>3. QED
        BY <3>1, <4>1, <4>2
    <3>6. QED
      BY <2>1, <2>2, <3>1, <3>2, <3>3, <3>4, <3>5, ThreadMoves
  <2>5. QED
    BY <1>11, <2>3, <2>4 DEF Raise
<1>12. CASE Stop \/ Midnight \/ DemoExpires
  <2>1. UNCHANGED <<queueVars, pc, verdict, result, ran>>
    BY <1>12 DEF Stop, Midnight, DemoExpires, threadVars, historyVars
  <2>2. QED
    BY <2>1 DEF ResultsInv, TruthfulAt, AnswerIsLast, ResultsAreTrue, queueVars, Waiting
<1>13. CASE Restart
  <2>1. /\ \A w \in Workers : pc'[w] = "top" /\ verdict'[w] = "none" /\ held'[w] = NoMessage
        /\ queue' = <<>> /\ done' = {}
        /\ UNCHANGED <<accepted, result, ran>>
    BY <1>13 DEF Restart, QueueRestart, historyVars
  <2>2. Waiting' = {} /\ NoMessage \notin Messages
    BY <2>1, QueueAssumption DEF Waiting, Range
  <2>3. \A w \in Workers : TruthfulAt(w)'
    BY <2>1 DEF TruthfulAt
  <2>4. AnswerIsLast'
    BY <2>1, <2>2 DEF AnswerIsLast, ResultsInv
  <2>5. ResultsAreTrue'
    BY <2>1 DEF ResultsAreTrue, ResultsInv
  <2>6. QED
    BY <2>3, <2>4, <2>5 DEF ResultsInv
<1>14. QED
  BY <1>1, <1>2, <1>3, <1>4, <1>5, <1>6, <1>7, <1>8, <1>9, <1>10, <1>11, <1>12, <1>13 DEF WorkerNext, Step

\* The queue's invariant, of the worker that uses it.
LEMMA QueueInvOfWorker == WorkerSpec => []QueueInv
BY WorkerImplementsQueue, QueueInvAlways, PTL DEF QueueObeyed

\* In every state the results, and what is on its way to become one, are true.
LEMMA ResultsInvAlways == WorkerSpec => []ResultsInv
<1>1. WorkerInit => ResultsInv
  <2> SUFFICES ASSUME WorkerInit PROVE ResultsInv
    OBVIOUS
  <2>1. /\ \A w \in Workers : pc[w] = "top" /\ verdict[w] = "none"
        /\ \A m \in Messages : result[m] = "none"
        /\ done = {}
    BY DEF WorkerInit, QueueInit
  <2>2. QED
    BY <2>1 DEF ResultsInv, TruthfulAt, AnswerIsLast, ResultsAreTrue
<1>2. QED
  BY <1>1, ResultsStep, BaseAlways, QueueInvOfWorker, PTL DEF WorkerSpec

\* A job that left the queue as processed left its answer in job_results, and an
\* answer says "completed" only of a job that was carried out, unless its handler is
\* one of the two stubs: with any threads, each path of each handler, retry and crash
\* (_store_job_result before mark_done).
THEOREM ResultsAlwaysTrue == WorkerSpec => []ResultsAreTrue
BY ResultsInvAlways, PTL DEF ResultsInv

\* Once a job is settled nobody writes its result again: only the thread that
\* holds a message stores its result, and what a thread holds is not settled.
THEOREM SettledAlwaysFinal == WorkerSpec => SettledIsFinal
<1>1. ASSUME WorkerBase, QueueInv, [WorkerNext]_allVars
      PROVE  [\A m \in done \cup dead : result'[m] = result[m]]_allVars
  <2>1. CASE UNCHANGED allVars
    BY <2>1
  <2>2. ASSUME NEW w \in Workers, StoreJobResult(w)
        PROVE  \A m \in done \cup dead : result'[m] = result[m]
    <3>1. pc[w] = "store" /\ result' = [result EXCEPT ![held[w]] = verdict[w]]
      BY <2>2 DEF StoreJobResult
    <3>2. held[w] \notin done \cup dead
      BY <1>1, <3>1, AtWork, HeldIsNotSettled
    <3>3. QED
      BY <1>1, <3>1, <3>2 DEF WorkerBase, WorkerTypeOK, QueueTypeOK
  <2>3. CASE ~(\E w \in Workers : StoreJobResult(w)) /\ WorkerNext
    <3>1. result' = result
      BY <2>3 DEF WorkerNext, Step, Producer, workerVars, CheckRunning, Poll, ReadTenant, DenyCharge, GrantCharge,
         CheckCostCap, Execute, SerialiseUsage, WriteUsage, Settle, Raise, Stop, Midnight, DemoExpires, Restart
    <3>2. QED
      BY <3>1
  <2>4. QED
    BY <1>1, <2>1, <2>2, <2>3
<1>2. QED
  BY <1>1, BaseAlways, QueueInvOfWorker, PTL DEF WorkerSpec, SettledIsFinal

------------------------------------------------------------------------------
(***************************************************************************)
(* With one thread, as QueueWorker.start() runs it, every job reported as  *)
(* completed is charged.                                                   *)
(***************************************************************************)

\* The metered jobs a thread was granted and has not settled, unless it gave
\* up on them, and the jobs reported as completed.
OnItsWay(w) ==
  /\ KindOf[held[w]] \in Metered
  /\ \/ pc[w] \in {"cap", "execute", "persist", "write"}
     \/ pc[w] = "store" /\ verdict[w] = "completed"

UnderWay == {held[w] : w \in {v \in Workers : OnItsWay(v)}}

Completed == {m \in Messages : result[m] = "completed"}

\* Among the jobs J, those that counter c of tenant t must answer for since day d.
Claims(t, c, d, J) ==
  {m \in Messages : /\ m \in J
                    /\ TenantOf[m] = t
                    /\ KindOf[m] \in Metered
                    /\ Counter(KindOf[m]) = c
                    /\ chargedOn[m] >= d}

\* A usage record of tenant t covers the jobs J, and is not older than they are.
Covers(record, t, J) ==
  record.day # NoDay =>
    \A c \in Counters : Cardinality(Claims(t, c, record.day, J)) <= record.count[c]

NotOlder(record, t, J) ==
  \A m \in J : TenantOf[m] = t /\ KindOf[m] \in Metered =>
    chargedOn[m] \in Days /\ chargedOn[m] <= record.day

\* What a handler has at hand: a date no record is later than, the record it
\* serialised, and on disk the record that covers the job it is to report.
AtHand(w) ==
  /\ seen[w] <= today
  /\ pc[w] = "charge" => \A t \in Tenants : usage[t].day <= seen[w] /\ saved[t].day <= seen[w]
  /\ pc[w] = "write" => snapshot[w] = usage[TenantOf[held[w]]]
  /\ pc[w] = "store" /\ OnItsWay(w) => saved[TenantOf[held[w]]] = usage[TenantOf[held[w]]]

\* ReportedJobsAreCharged, strengthened: memory covers the jobs under way too,
\* and the record on disk is never later than the one in memory.
ChargeInv ==
  /\ \A t \in Tenants :
       /\ Covers(usage[t], t, Completed \cup UnderWay)
       /\ Covers(saved[t], t, Completed)
       /\ NotOlder(usage[t], t, UnderWay)
       /\ NotOlder(saved[t], t, Completed)
       /\ usage[t].day # NoDay => saved[t].day <= usage[t].day
       /\ usage[t].day <= today /\ saved[t].day <= today
  /\ \A w \in Workers : AtHand(w)

OneThread == \A v, w \in Workers : v = w

\* Days can be compared, and claims counted.
LEMMA DaysCompare ==
  ASSUME WorkerBase, NEW t \in Tenants
  PROVE  /\ usage[t] \in UsageRecord /\ usage[t].day \in Nat
         /\ saved[t] \in UsageRecord /\ saved[t].day \in Nat
         /\ today \in Nat /\ NoDay \in Nat
         /\ \A w \in Workers : seen[w] \in Nat
         /\ \A m \in Messages : chargedOn[m] \in Nat
BY DayFacts DEF WorkerBase, WorkerTypeOK, UsageRecord, Days

\* A set of jobs within another has no more of them.
LEMMA ClaimsCounted ==
  ASSUME NEW A, NEW B, A \subseteq B, B \subseteq Messages
  PROVE  Cardinality(A) \in Nat /\ Cardinality(B) \in Nat /\ Cardinality(A) <= Cardinality(B)
<1>1. IsFiniteSet(B) /\ IsFiniteSet(A)
  BY FS_Subset, QueueAssumption
<1>2. QED
  BY <1>1, FS_Subset, FS_CardinalityType

\* A record that covers jobs covers fewer of them.
LEMMA CoversFewer ==
  ASSUME NEW r \in UsageRecord, NEW t \in Tenants, NEW J, NEW K, Covers(r, t, J),
         \A c \in Counters : Claims(t, c, r.day, K) \subseteq Claims(t, c, r.day, J)
  PROVE  Covers(r, t, K)
<1> SUFFICES ASSUME r.day # NoDay, NEW c \in Counters
             PROVE  Cardinality(Claims(t, c, r.day, K)) <= r.count[c]
  BY DEF Covers
<1>1. Cardinality(Claims(t, c, r.day, J)) <= r.count[c] /\ r.count[c] \in Nat
  BY DEF Covers, UsageRecord
<1>2. Claims(t, c, r.day, J) \subseteq Messages
  BY DEF Claims
<1>3. QED
  BY <1>1, <1>2, ClaimsCounted

\* A step that leaves the records, the charges and the reports alone and takes
\* no job on.
LEMMA ChargesKept ==
  ASSUME WorkerBase, WorkerBase', ChargeInv, UNCHANGED <<usage, saved, chargedOn, result>>,
         UnderWay' \subseteq UnderWay, today <= today',
         \A w \in Workers : AtHand(w)'
  PROVE  ChargeInv'
<1>1. Completed' = Completed
  BY DEF Completed
<1>2. ASSUME NEW t \in Tenants
      PROVE  /\ Covers(usage[t], t, Completed \cup UnderWay)'
             /\ Covers(saved[t], t, Completed)'
             /\ NotOlder(usage[t], t, UnderWay)'
             /\ NotOlder(saved[t], t, Completed)'
             /\ (usage[t].day # NoDay => saved[t].day <= usage[t].day)'
             /\ (usage[t].day <= today /\ saved[t].day <= today)'
  <2>0. PICK u \in UsageRecord, s \in UsageRecord : u = usage[t] /\ s = saved[t]
    BY DaysCompare
  <2>1. PICK J, K, L :
          /\ u = usage[t] /\ s = saved[t]
          /\ J = Completed \cup UnderWay /\ K = (Completed \cup UnderWay)' /\ L = Completed
    BY <2>0
  <2>2. Covers(u, t, J) /\ Covers(s, t, L)
    BY <2>1 DEF ChargeInv
  <2>3. K \subseteq J
    BY <1>1, <2>1
  <2>4. Covers(u, t, K)
    BY <2>2, <2>3, CoversFewer DEF Claims
  <2>5. Covers(u, t, K)' /\ Covers(s, t, L)'
    BY <2>2, <2>4 DEF Covers, Claims
  <2>6. Covers(usage[t], t, Completed \cup UnderWay)' /\ Covers(saved[t], t, Completed)'
    <3>1. usage'[t] = u /\ saved'[t] = s /\ Completed' = L
      BY <1>1, <2>1
    <3>2. QED
      BY <2>1, <2>5, <3>1 DEF Covers, Claims
  <2>7. NotOlder(usage[t], t, UnderWay)' /\ NotOlder(saved[t], t, Completed)'
    BY <1>1 DEF ChargeInv, NotOlder
  <2>8. usage[t].day \in Nat /\ saved[t].day \in Nat /\ today \in Nat /\ today' \in Nat
    BY DaysCompare DEF WorkerBase, WorkerTypeOK, Days
  <2>9. (usage[t].day <= today /\ saved[t].day <= today)'
    BY <2>8 DEF ChargeInv
  <2>10. QED
    BY <2>6, <2>7, <2>9 DEF ChargeInv
<1>3. QED
  BY <1>2 DEF ChargeInv

\* The record _check_quota works with covers every job reported that day.
LEMMA ChargingCovers ==
  ASSUME WorkerBase, ChargeInv, OneThread, NEW w \in Workers, pc[w] = "charge"
  PROVE  LET q == Charging(w)
         IN  /\ q.tenant = TenantOf[held[w]] /\ q.tenant \in Tenants
             /\ q.counter = Counter(KindOf[held[w]]) /\ q.counter \in Counters
             /\ q.record \in UsageRecord /\ q.record.day = seen[w] /\ seen[w] \in Days
             /\ Covers(q.record, q.tenant, Completed)
             /\ UnderWay = {}
<1> DEFINE t == TenantOf[held[w]]
           d == seen[w]
           r == CurrentUsage(t, d)
<1>1. /\ t \in Tenants /\ Counter(KindOf[held[w]]) \in Counters /\ d \in Days
  BY AtWork DEF WorkerBase, MeteredHasDay
<1>2. /\ Charging(w).tenant = t /\ Charging(w).counter = Counter(KindOf[held[w]])
      /\ Charging(w).record = r
  BY DEF Charging
<1>3. r \in UsageRecord /\ r.day = d
  BY <1>1, CurrentRecord DEF WorkerBase
<1>4. UnderWay = {}
  BY DEF UnderWay, OnItsWay, OneThread
<1>5. Covers(r, t, Completed)
  <2>1. CASE usage[t].day = d
    <3>1. r = usage[t] /\ Completed \cup UnderWay = Completed
      BY <1>4, <2>1 DEF CurrentUsage
    <3>2. Covers(usage[t], t, Completed \cup UnderWay)
      BY <1>1 DEF ChargeInv
    <3>3. QED
      BY <3>1, <3>2
  <2>2. CASE usage[t].day # d /\ saved[t].day = d
    <3>1. r = saved[t]
      BY <2>2 DEF CurrentUsage
    <3>2. QED
      BY <1>1, <3>1 DEF ChargeInv
  <2>3. CASE usage[t].day # d /\ saved[t].day # d
    <3>1. r = Fresh(d)
      BY <2>3 DEF CurrentUsage
    <3>2. \A c \in Counters : r.count[c] = 0
      BY <1>1, <3>1, FreshRecord
    <3>3. saved[t].day <= d /\ saved[t].day \in Nat /\ d \in Nat
      BY <1>1, DaysCompare DEF ChargeInv, AtHand
    <3>4. ASSUME NEW m \in Messages, m \in Completed, TenantOf[m] = t, KindOf[m] \in Metered
          PROVE  ~(chargedOn[m] >= d)
      <4>1. chargedOn[m] <= saved[t].day /\ chargedOn[m] \in Nat
        BY <1>1, <3>4, DaysCompare DEF ChargeInv, NotOlder
      <4>2. QED
        BY <2>3, <3>3, <4>1
    <3>5. \A c \in Counters : Claims(t, c, r.day, Completed) = {}
      BY <1>3, <3>4 DEF Claims
    <3>6. QED
      BY <3>2, <3>5, FS_EmptySet DEF Covers
  <2>4. QED
    BY <2>1, <2>2, <2>3
<1>6. QED
  BY <1>1, <1>2, <1>3, <1>4, <1>5

\* A refused charge.
LEMMA ChargeDenied ==
  ASSUME WorkerBase, WorkerBase', ChargeInv, OneThread, NEW w \in Workers, DenyCharge(w)
  PROVE  ChargeInv'
<1>1. PICK q : q = Charging(w)
  OBVIOUS
<1>2. /\ pc[w] = "charge" /\ pc'[w] = "store" /\ verdict'[w] = "quota_exceeded"
      /\ usage' = [usage EXCEPT ![q.tenant] = q.record]
      /\ UNCHANGED <<held, seen, snapshot, saved, result, chargedOn, today>>
  BY <1>1 DEF DenyCharge, Answer, Goto, queueVars, historyVars, clockVars, WorkerBase, WorkerTypeOK
<1>3. /\ q.tenant \in Tenants /\ q.record \in UsageRecord /\ q.record.day = seen[w] /\ seen[w] \in Days
      /\ Covers(q.record, q.tenant, Completed) /\ UnderWay = {}
  BY <1>1, <1>2, ChargingCovers
<1>4. UnderWay' = {} /\ Completed' = Completed
  BY <1>2 DEF UnderWay, OnItsWay, OneThread, Completed
<1>5. ASSUME NEW t \in Tenants
      PROVE  /\ Covers(usage[t], t, Completed \cup UnderWay)'
             /\ Covers(saved[t], t, Completed)'
             /\ NotOlder(usage[t], t, UnderWay)'
             /\ NotOlder(saved[t], t, Completed)'
             /\ (usage[t].day # NoDay => saved[t].day <= usage[t].day)'
             /\ (usage[t].day <= today /\ saved[t].day <= today)'
  <2>1. PICK u, s, L : u = usage'[t] /\ s = saved[t] /\ L = Completed
    OBVIOUS
  <2>2. u = IF t = q.tenant THEN q.record ELSE usage[t]
    BY <1>2, <1>3, <2>1 DEF WorkerBase, WorkerTypeOK
  <2>3. Covers(usage[t], t, Completed)
    <3>1. Completed \cup UnderWay = Completed
      BY <1>3
    <3>2. QED
      BY <3>1 DEF ChargeInv
  <2>4. Covers(u, t, L) /\ Covers(s, t, L)
    BY <1>3, <2>1, <2>2, <2>3 DEF ChargeInv
  <2>5. Covers(u, t, L)' /\ Covers(s, t, L)'
    BY <1>2, <2>4 DEF Covers, Claims
  <2>6. usage'[t] = u /\ saved'[t] = s /\ Completed' = L /\ (Completed \cup UnderWay)' = L
    BY <1>2, <1>4, <2>1
  <2>7. Covers(usage[t], t, Completed \cup UnderWay)' /\ Covers(saved[t], t, Completed)'
    BY <2>5, <2>6 DEF Covers, Claims
  <2>8. NotOlder(usage[t], t, UnderWay)' /\ NotOlder(saved[t], t, Completed)'
    BY <1>2, <1>4 DEF ChargeInv, NotOlder
  <2>9. seen[w] <= today /\ saved[t].day <= seen[w]
    BY <1>2 DEF ChargeInv, AtHand
  <2>10. QED
    BY <1>2, <1>3, <2>1, <2>2, <2>6, <2>7, <2>8, <2>9 DEF ChargeInv
<1>6. \A v \in Workers : AtHand(v)'
  BY <1>2 DEF ChargeInv, AtHand, OneThread, OnItsWay
<1>7. QED
  BY <1>5, <1>6 DEF ChargeInv

\* A granted charge: the record covers the job that is now under way as well.
LEMMA ChargeGranted ==
  ASSUME WorkerBase, WorkerBase', ResultsInv, ChargeInv, OneThread, NEW w \in Workers, GrantCharge(w)
  PROVE  ChargeInv'
<1>1. PICK q, x, d, r : /\ q = Charging(w) /\ x = held[w] /\ d = seen[w]
                        /\ r = [q.record EXCEPT !.count[q.counter] = @ + 1]
  OBVIOUS
<1>2. /\ pc[w] = "charge" /\ pc'[w] \in {"cap", "execute"}
      /\ usage' = [usage EXCEPT ![q.tenant] = r]
      /\ chargedOn' = [chargedOn EXCEPT ![x] = d]
      /\ UNCHANGED <<held, seen, snapshot, verdict, saved, result, today>>
  BY <1>1 DEF GrantCharge, Goto, queueVars, clockVars, WorkerBase, WorkerTypeOK
<1>3. /\ q.tenant \in Tenants /\ q.record \in UsageRecord /\ q.record.day = d /\ d \in Days
      /\ q.tenant = TenantOf[x] /\ q.counter = Counter(KindOf[x]) /\ q.counter \in Counters
      /\ Covers(q.record, q.tenant, Completed) /\ UnderWay = {}
  BY <1>1, <1>2, ChargingCovers
<1>4. x \in Messages /\ KindOf[x] \in Metered /\ x \notin Completed
  BY <1>1, <1>2, AtWork DEF Completed, ResultsInv, AnswerIsLast, WorkerBase, MeteredHasDay
<1>5. UnderWay' = {x} /\ Completed' = Completed
  BY <1>1, <1>2, <1>4 DEF UnderWay, OnItsWay, OneThread, Completed
<1>6. \A m \in Messages : chargedOn'[m] = IF m = x THEN d ELSE chargedOn[m]
  BY <1>2 DEF WorkerBase, WorkerTypeOK
<1>7. /\ r \in UsageRecord /\ r.day = d /\ r.count[q.counter] = q.record.count[q.counter] + 1
      /\ \A c \in Counters : c # q.counter => r.count[c] = q.record.count[c]
  BY <1>1, <1>3, ChargedRecord
<1>8. \A t \in Tenants : usage'[t] = IF t = q.tenant THEN r ELSE usage[t]
  BY <1>2 DEF WorkerBase, WorkerTypeOK
<1>9. d <= today /\ (\A t \in Tenants : saved[t].day <= d) /\ d \in Nat /\ d # NoDay
  BY <1>1, <1>2, <1>3, DayFacts DEF ChargeInv, AtHand
<1>10. ASSUME NEW t \in Tenants, t # q.tenant
       PROVE  Covers(usage[t], t, Completed \cup UnderWay)'
  <2>1. PICK u, L, K : u = usage[t] /\ L = Completed /\ K = (Completed \cup UnderWay)'
    OBVIOUS
  <2>2. u = usage'[t] /\ K = L \cup {x}
    BY <1>5, <1>8, <1>10, <2>1
  <2>3. Covers(u, t, L)
    <3>1. Completed \cup UnderWay = Completed
      BY <1>3
    <3>2. QED
      BY <2>1, <3>1 DEF ChargeInv
  <2>4. Covers(u, t, K)'
    <3>1. \A c : Claims(t, c, u.day, K)' = Claims(t, c, u.day, L)
      BY <1>3, <1>6, <1>10, <2>2 DEF Claims
    <3>2. QED
      BY <2>3, <3>1 DEF Covers
  <2>5. QED
    BY <2>1, <2>2, <2>4 DEF Covers, Claims
<1>11. Covers(usage[q.tenant], q.tenant, Completed \cup UnderWay)'
  <2>1. PICK t, L, K : t = q.tenant /\ L = Completed /\ K = (Completed \cup UnderWay)'
    OBVIOUS
  <2>2. K = L \cup {x} /\ usage'[t] = r /\ t \in Tenants
    BY <1>3, <1>5, <1>8, <2>1
  <2>3. ASSUME NEW c \in Counters PROVE Cardinality(Claims(t, c, r.day, K)') <= r.count[c]
    <3>1. /\ Cardinality(Claims(t, c, d, L)) <= q.record.count[c] /\ q.record.count[c] \in Nat
          /\ r.count[c] \in Nat
      BY <1>3, <1>7, <1>9, <2>1 DEF Covers, UsageRecord
    <3>2. IsFiniteSet(Claims(t, c, d, L)) /\ Cardinality(Claims(t, c, d, L)) \in Nat
      BY FS_Subset, FS_CardinalityType, QueueAssumption DEF Claims
    <3>3. CASE c = q.counter
      <4>1. Claims(t, c, r.day, K)' = Claims(t, c, d, L) \cup {x} /\ x \notin Claims(t, c, d, L)
        BY <1>3, <1>4, <1>6, <1>7, <1>9, <2>1, <2>2, <3>3 DEF Claims
      <4>2. Cardinality(Claims(t, c, d, L) \cup {x}) = Cardinality(Claims(t, c, d, L)) + 1
        BY <3>2, <4>1, FS_AddElement
      <4>3. r.count[c] = q.record.count[c] + 1
        BY <1>7, <3>3
      <4>4. QED
        BY <3>1, <3>2, <4>1, <4>2, <4>3
    <3>4. CASE c # q.counter
      <4>1. Claims(t, c, r.day, K)' = Claims(t, c, d, L)
        BY <1>3, <1>4, <1>6, <1>7, <2>1, <2>2, <3>4 DEF Claims
      <4>2. QED
        BY <1>7, <3>1, <3>4, <4>1
    <3>5. QED
      BY <3>3, <3>4
  <2>4. Covers(r, t, K)'
    BY <2>3 DEF Covers
  <2>5. QED
    BY <2>1, <2>2, <2>4 DEF Covers, Claims
<1>12. ASSUME NEW t \in Tenants
       PROVE  Covers(saved[t], t, Completed)' /\ NotOlder(saved[t], t, Completed)'
  <2>1. PICK s, L : s = saved[t] /\ L = Completed
    OBVIOUS
  <2>2. s = saved'[t] /\ L = Completed' /\ x \notin L /\ L \subseteq Messages
    BY <1>2, <1>4, <1>5, <2>1 DEF Completed
  <2>3. Covers(s, t, L) /\ NotOlder(s, t, L)
    BY <2>1 DEF ChargeInv
  <2>4. \A c : Claims(t, c, s.day, L)' = Claims(t, c, s.day, L)
    BY <1>6, <2>2 DEF Claims
  <2>5. Covers(s, t, L)' /\ NotOlder(s, t, L)'
    BY <1>6, <2>2, <2>3, <2>4 DEF Covers, NotOlder
  <2>6. QED
    BY <2>2, <2>5 DEF Covers, NotOlder, Claims
<1>13. ASSUME NEW t \in Tenants
       PROVE  NotOlder(usage[t], t, UnderWay)'
  <2>1. chargedOn'[x] = d
    BY <1>4, <1>6
  <2>2. t = TenantOf[x] => usage'[t].day = d
    BY <1>3, <1>7, <1>8
  <2>3. QED
    BY <1>3, <1>5, <1>9, <2>1, <2>2 DEF NotOlder
<1>14. ASSUME NEW t \in Tenants
       PROVE  /\ (usage[t].day # NoDay => saved[t].day <= usage[t].day)'
              /\ (usage[t].day <= today /\ saved[t].day <= today)'
  BY <1>2, <1>7, <1>8, <1>9 DEF ChargeInv
<1>15. \A v \in Workers : AtHand(v)'
  BY <1>2 DEF ChargeInv, AtHand, OneThread, OnItsWay
<1>16. QED
  BY <1>10, <1>11, <1>12, <1>13, <1>14, <1>15 DEF ChargeInv

\* os.replace lands the record that covers the job of this thread.
LEMMA UsageWritten ==
  ASSUME WorkerBase, WorkerBase', ResultsInv, ChargeInv, OneThread, NEW w \in Workers, WriteUsage(w)
  PROVE  ChargeInv'
<1>1. PICK x, o, r : x = held[w] /\ o = TenantOf[x] /\ r = usage[o]
  OBVIOUS
<1>2. /\ pc[w] = "write" /\ pc'[w] = "store"
      /\ saved' = [saved EXCEPT ![o] = snapshot[w]]
      /\ UNCHANGED <<held, seen, verdict, usage, result, chargedOn, today>>
  BY <1>1 DEF WriteUsage, Goto, queueVars, historyVars, clockVars, WorkerBase, WorkerTypeOK
<1>3. x \in Messages /\ o \in Tenants /\ KindOf[x] \in Metered /\ verdict[w] = "completed"
  BY <1>1, <1>2, AtWork DEF ResultsInv, TruthfulAt
<1>4. snapshot[w] = r
  BY <1>1, <1>2 DEF ChargeInv, AtHand
<1>5. x \in UnderWay
  BY <1>1, <1>2, <1>3 DEF UnderWay, OnItsWay
<1>6. UnderWay' = UnderWay /\ Completed' = Completed
  BY <1>1, <1>2, <1>3 DEF UnderWay, OnItsWay, Completed, OneThread
<1>7. \A t \in Tenants : saved'[t] = IF t = o THEN r ELSE saved[t]
  BY <1>2, <1>4 DEF WorkerBase, WorkerTypeOK
<1>8. chargedOn[x] \in Days /\ chargedOn[x] <= r.day /\ r \in UsageRecord /\ r.day \in Nat
  BY <1>1, <1>3, <1>5, DaysCompare DEF ChargeInv, NotOlder
<1>9. r.day # NoDay /\ saved[o].day <= r.day
  BY <1>1, <1>3, <1>8, DayFacts DEF ChargeInv
<1>10. ASSUME NEW t \in Tenants
       PROVE  /\ Covers(usage[t], t, Completed \cup UnderWay)'
              /\ Covers(saved[t], t, Completed)'
              /\ NotOlder(usage[t], t, UnderWay)'
              /\ NotOlder(saved[t], t, Completed)'
              /\ (usage[t].day # NoDay => saved[t].day <= usage[t].day)'
              /\ (usage[t].day <= today /\ saved[t].day <= today)'
  <2>1. PICK s, u, J, L : /\ s = saved'[t] /\ u = usage[t]
                          /\ J = Completed \cup UnderWay /\ L = Completed
    OBVIOUS
  <2>2. s = IF t = o THEN r ELSE saved[t]
    BY <1>7, <2>1
  <2>3. Covers(u, t, J) /\ u \in UsageRecord /\ (t = o => u = r)
    BY <1>1, <2>1, DaysCompare DEF ChargeInv
  <2>4. Covers(u, t, L)
    BY <2>1, <2>3, CoversFewer DEF Claims
  <2>5. Covers(s, t, L)
    BY <2>1, <2>2, <2>3, <2>4 DEF ChargeInv
  <2>6. Covers(u, t, J)' /\ Covers(s, t, L)'
    BY <1>2, <2>3, <2>5 DEF Covers, Claims
  <2>7. Covers(usage[t], t, Completed \cup UnderWay)' /\ Covers(saved[t], t, Completed)'
    <3>1. usage'[t] = u /\ saved'[t] = s /\ Completed' = L /\ (Completed \cup UnderWay)' = J
      BY <1>2, <1>6, <2>1
    <3>2. QED
      BY <2>6, <3>1 DEF Covers, Claims
  <2>8. NotOlder(usage[t], t, UnderWay)'
    BY <1>2, <1>6 DEF ChargeInv, NotOlder
  <2>9. NotOlder(s, t, L)
    <3>1. \A m \in L : chargedOn[m] \in Nat
      BY <2>1, DaysCompare DEF Completed
    <3>2. NotOlder(saved[t], t, L) /\ saved[t].day \in Nat
      BY <2>1, DaysCompare DEF ChargeInv
    <3>3. QED
      BY <1>8, <1>9, <2>2, <3>1, <3>2 DEF NotOlder
  <2>10. NotOlder(saved[t], t, Completed)'
    BY <1>2, <1>6, <2>1, <2>9 DEF NotOlder
  <2>11. (usage[t].day # NoDay => saved[t].day <= usage[t].day)'
    BY <1>1, <1>2, <1>8, <2>1, <2>2 DEF ChargeInv
  <2>12. (usage[t].day <= today /\ saved[t].day <= today)'
    BY <1>1, <1>2, <2>1, <2>2 DEF ChargeInv
  <2>13. QED
    BY <2>7, <2>8, <2>10, <2>11, <2>12
<1>11. saved'[o] = usage'[o]
  BY <1>1, <1>2, <1>3, <1>7
<1>12. \A v \in Workers : AtHand(v)'
  BY <1>1, <1>2, <1>11 DEF ChargeInv, AtHand, OneThread
<1>13. QED
  BY <1>10, <1>12 DEF ChargeInv

\* The result of a job is stored once the record on disk covers the job.
LEMMA ResultReported ==
  ASSUME WorkerBase, WorkerBase', ResultsInv, ChargeInv, OneThread, NEW w \in Workers, StoreJobResult(w)
  PROVE  ChargeInv'
<1>1. PICK x, o : x = held[w] /\ o = TenantOf[x]
  OBVIOUS
<1>2. /\ pc[w] = "store" /\ pc'[w] = "settle"
      /\ result' = [result EXCEPT ![x] = verdict[w]]
      /\ UNCHANGED <<held, seen, verdict, usage, saved, chargedOn, today>>
  BY <1>1 DEF StoreJobResult, Goto, queueVars, historyVars, clockVars, WorkerBase, WorkerTypeOK
<1>3. x \in Messages /\ o \in Tenants /\ result[x] = "none"
  BY <1>1, <1>2, AtWork DEF ResultsInv, AnswerIsLast
<1>4. UnderWay' = {}
  BY <1>2 DEF UnderWay, OnItsWay, OneThread
<1>5. Completed' = IF verdict[w] = "completed" THEN Completed \cup {x} ELSE Completed
  BY <1>2, <1>3 DEF Completed, WorkerBase, WorkerTypeOK
<1>6. verdict[w] = "completed" /\ KindOf[x] \in Metered => x \in UnderWay /\ saved[o] = usage[o]
  BY <1>1, <1>2 DEF UnderWay, OnItsWay, ChargeInv, AtHand
<1>7. ASSUME NEW t \in Tenants
      PROVE  /\ Covers(usage[t], t, Completed \cup UnderWay)'
             /\ Covers(saved[t], t, Completed)'
             /\ NotOlder(usage[t], t, UnderWay)'
             /\ NotOlder(saved[t], t, Completed)'
             /\ (usage[t].day # NoDay => saved[t].day <= usage[t].day)'
             /\ (usage[t].day <= today /\ saved[t].day <= today)'
  <2>1. PICK u, s, J, K, L, M :
          /\ u = usage[t] /\ s = saved[t]
          /\ J = Completed \cup UnderWay /\ L = Completed
          /\ K = (Completed \cup UnderWay)' /\ M = Completed'
    OBVIOUS
  <2>2. /\ u \in UsageRecord /\ s \in UsageRecord /\ Covers(u, t, J) /\ Covers(s, t, L)
        /\ NotOlder(u, t, UnderWay) /\ NotOlder(s, t, L)
    BY <2>1, DaysCompare DEF ChargeInv
  <2>3. \A m \in K : m \in J \/ KindOf[m] \notin Metered
    BY <1>4, <1>5, <1>6, <2>1
  <2>4. Covers(u, t, K)
    BY <2>2, <2>3, CoversFewer DEF Claims
  <2>5. Covers(s, t, M)
    <3>1. CASE verdict[w] = "completed" /\ KindOf[x] \in Metered /\ t = o
      <4>1. s = u /\ M \subseteq J
        BY <1>4, <1>5, <1>6, <2>1, <3>1
      <4>2. QED
        BY <2>2, <4>1, CoversFewer DEF Claims
    <3>2. CASE ~(verdict[w] = "completed" /\ KindOf[x] \in Metered /\ t = o)
      <4>1. \A m \in M : m \in L \/ KindOf[m] \notin Metered \/ TenantOf[m] # t
        BY <1>1, <1>5, <2>1, <3>2
      <4>2. QED
        BY <2>2, <4>1, CoversFewer DEF Claims
    <3>3. QED
      BY <3>1, <3>2
  <2>6. Covers(u, t, K)' /\ Covers(s, t, M)'
    BY <1>2, <2>4, <2>5 DEF Covers, Claims
  <2>7. Covers(usage[t], t, Completed \cup UnderWay)' /\ Covers(saved[t], t, Completed)'
    <3>1. usage'[t] = u /\ saved'[t] = s
      BY <1>2, <2>1
    <3>2. QED
      BY <2>1, <2>6, <3>1 DEF Covers, Claims
  <2>8. NotOlder(usage[t], t, UnderWay)'
    BY <1>4 DEF NotOlder
  <2>9. NotOlder(s, t, M)
    <3>1. verdict[w] = "completed" /\ KindOf[x] \in Metered /\ t = o => s = u /\ x \in UnderWay
      BY <1>6, <2>1
    <3>2. QED
      BY <1>1, <1>5, <2>1, <2>2, <3>1 DEF NotOlder
  <2>10. NotOlder(saved[t], t, Completed)'
    BY <1>2, <2>1, <2>9 DEF NotOlder
  <2>11. QED
    BY <1>2, <2>7, <2>8, <2>10 DEF ChargeInv
<1>8. \A v \in Workers : AtHand(v)'
  BY <1>2 DEF ChargeInv, AtHand, OneThread
<1>9. QED
  BY <1>7, <1>8 DEF ChargeInv

\* The process dies: memory is empty, nothing is under way, the disk stays.
LEMMA ChargesSurvive ==
  ASSUME WorkerBase, WorkerBase', ChargeInv, Restart
  PROVE  ChargeInv'
<1>1. /\ \A w \in Workers : pc'[w] = "top" /\ seen'[w] = NoDay
      /\ \A t \in Tenants : usage'[t] = Fresh(NoDay)
      /\ UNCHANGED <<saved, result, chargedOn, today>>
  BY DEF Restart, historyVars
<1>2. UnderWay' = {} /\ Completed' = Completed
  BY <1>1 DEF UnderWay, OnItsWay, Completed
<1>3. Fresh(NoDay).day = NoDay
  BY FreshRecord
<1>4. NoDay <= today /\ NoDay = 0
  BY DayFacts DEF WorkerBase, WorkerTypeOK, NoDay, Days
<1>5. ASSUME NEW t \in Tenants
      PROVE  /\ Covers(usage[t], t, Completed \cup UnderWay)'
             /\ Covers(saved[t], t, Completed)'
             /\ NotOlder(usage[t], t, UnderWay)'
             /\ NotOlder(saved[t], t, Completed)'
             /\ (usage[t].day # NoDay => saved[t].day <= usage[t].day)'
             /\ (usage[t].day <= today /\ saved[t].day <= today)'
  <2>1. PICK s, L : s = saved[t] /\ L = Completed
    OBVIOUS
  <2>2. s = saved'[t] /\ L = Completed'
    BY <1>1, <1>2, <2>1
  <2>3. Covers(s, t, L) /\ NotOlder(s, t, L)
    BY <2>1 DEF ChargeInv
  <2>4. Covers(s, t, L)' /\ NotOlder(s, t, L)'
    BY <1>1, <2>3 DEF Covers, NotOlder, Claims
  <2>5. Covers(saved[t], t, Completed)' /\ NotOlder(saved[t], t, Completed)'
    BY <2>2, <2>4 DEF Covers, NotOlder, Claims
  <2>6. usage'[t].day = NoDay
    BY <1>1, <1>3
  <2>7. Covers(usage[t], t, Completed \cup UnderWay)' /\ NotOlder(usage[t], t, UnderWay)'
    BY <1>2, <2>6 DEF Covers, NotOlder
  <2>8. (usage[t].day <= today /\ saved[t].day <= today)'
    BY <1>1, <1>4, <2>6 DEF ChargeInv
  <2>9. QED
    BY <2>5, <2>6, <2>7, <2>8
<1>6. \A w \in Workers : AtHand(w)'
  BY <1>1, <1>4 DEF AtHand
<1>7. QED
  BY <1>5, <1>6 DEF ChargeInv

\* Each action of a worker with one thread keeps the reported jobs charged.
LEMMA ChargeStep ==
  ASSUME WorkerBase, WorkerBase', ResultsInv, ChargeInv, OneThread, [WorkerNext]_allVars
  PROVE  ChargeInv'
<1>0. /\ \A w \in Workers : AtHand(w)
      /\ \A t \in Tenants : usage[t].day <= today /\ saved[t].day <= today
      /\ today \in Nat /\ today <= today
  BY DEF ChargeInv, WorkerBase, WorkerTypeOK, Days
<1>1. CASE UNCHANGED allVars
  <2>1. /\ UNCHANGED <<held, pc, verdict, usage, saved, chargedOn, result, seen, snapshot, today>>
    BY <1>1 DEF allVars, queueVars, workerVars, threadVars, historyVars, clockVars
  <2>2. UnderWay' \subseteq UnderWay /\ \A w \in Workers : AtHand(w)'
    BY <1>0, <2>1 DEF UnderWay, OnItsWay, AtHand
  <2>3. QED
    BY <1>0, <2>1, <2>2, ChargesKept
<1>2. ASSUME NEW m \in Messages, Producer(m) PROVE ChargeInv'
  <2>1. /\ UNCHANGED <<held, pc, verdict, usage, saved, chargedOn, result, seen, snapshot, today>>
    BY <1>2 DEF Producer, Enqueue, workerVars, threadVars, historyVars, clockVars
  <2>2. UnderWay' \subseteq UnderWay /\ \A w \in Workers : AtHand(w)'
    BY <1>0, <2>1 DEF UnderWay, OnItsWay, AtHand
  <2>3. QED
    BY <1>0, <2>1, <2>2, ChargesKept
<1>3. ASSUME NEW w \in Workers, CheckRunning(w) \/ Poll(w) \/ Settle(w) PROVE ChargeInv'
  <2>1. /\ pc'[w] \in {"top", "poll", "exited", "read"}
        /\ seen'[w] = seen[w] \/ seen'[w] = NoDay
        /\ UNCHANGED <<usage, saved, chargedOn, result, today>>
    BY <1>3 DEF CheckRunning, Poll, Settle, BackToLoop, Goto, historyVars, clockVars, WorkerBase, WorkerTypeOK
  <2>2. UnderWay' = {}
    BY <2>1 DEF UnderWay, OnItsWay, OneThread
  <2>3. \A v \in Workers : AtHand(v)'
    BY <1>0, <2>1 DEF AtHand, OneThread, NoDay
  <2>4. QED
    BY <1>0, <2>1, <2>2, <2>3, ChargesKept
<1>4. ASSUME NEW w \in Workers, ReadTenant(w) PROVE ChargeInv'
  <2>1. /\ pc[w] = "read" /\ UNCHANGED <<held, usage, saved, chargedOn, result, today>>
        /\ \/ pc'[w] = "settle" /\ seen'[w] = seen[w]
           \/ pc'[w] = "store" /\ verdict'[w] = Refusal(held[w]) /\ seen'[w] = seen[w]
           \/ pc'[w] = "charge" /\ seen'[w] = today
           \/ pc'[w] = "execute" /\ seen'[w] = NoDay /\ KindOf[held[w]] \notin Metered
    BY <1>4 DEF ReadTenant, Answer, Goto, queueVars, historyVars, clockVars, WorkerBase, WorkerTypeOK
  <2>2. Refusal(held[w]) # "completed"
    BY DEF Refusal
  <2>3. UnderWay' = {}
    BY <2>1, <2>2 DEF UnderWay, OnItsWay, OneThread
  <2>4. ~OnItsWay(w)'
    BY <2>1, <2>2 DEF OnItsWay
  <2>5. \A v \in Workers : AtHand(v)'
    BY <1>0, <2>1, <2>4 DEF AtHand, OneThread, NoDay
  <2>6. QED
    BY <1>0, <2>1, <2>3, <2>5, ChargesKept
<1>5. ASSUME NEW w \in Workers, CheckCostCap(w) PROVE ChargeInv'
  <2>1. /\ pc[w] = "cap" /\ UNCHANGED <<held, seen, usage, saved, chargedOn, result, today>>
        /\ \/ pc'[w] = "store" /\ verdict'[w] = "demo_cost_cap"
           \/ pc'[w] = "execute"
    BY <1>5 DEF CheckCostCap, Answer, Goto, queueVars, historyVars, clockVars, WorkerBase, WorkerTypeOK
  <2>2. UnderWay' \subseteq UnderWay
    BY <2>1 DEF UnderWay, OnItsWay, OneThread
  <2>3. \A v \in Workers : AtHand(v)'
    BY <1>0, <2>1 DEF AtHand, OneThread, OnItsWay
  <2>4. QED
    BY <1>0, <2>1, <2>2, <2>3, ChargesKept
<1>6. ASSUME NEW w \in Workers, Execute(w) PROVE ChargeInv'
  <2>1. /\ pc[w] = "execute" /\ UNCHANGED <<held, seen, usage, saved, chargedOn, result, today>>
        /\ pc'[w] = AfterJob(KindOf[held[w]])
    BY <1>6 DEF Execute, Goto, queueVars, clockVars, WorkerBase, WorkerTypeOK
  <2>2. IF KindOf[held[w]] \in Metered THEN pc'[w] = "persist" ELSE pc'[w] \in {"store", "settle"}
    BY <2>1 DEF AfterJob
  <2>3. UnderWay' \subseteq UnderWay
    BY <2>1, <2>2 DEF UnderWay, OnItsWay, OneThread
  <2>4. \A v \in Workers : AtHand(v)'
    BY <1>0, <2>1, <2>2 DEF AtHand, OneThread, OnItsWay
  <2>5. QED
    BY <1>0, <2>1, <2>3, <2>4, ChargesKept
<1>7. ASSUME NEW w \in Workers, SerialiseUsage(w) PROVE ChargeInv'
  <2>1. /\ pc[w] = "persist" /\ pc'[w] = "write"
        /\ UNCHANGED <<held, seen, usage, saved, chargedOn, result, today>>
        /\ snapshot'[w] = usage[TenantOf[held[w]]]
    BY <1>7 DEF SerialiseUsage, Goto, queueVars, historyVars, clockVars, WorkerBase, WorkerTypeOK
  <2>2. UnderWay' \subseteq UnderWay
    BY <2>1 DEF UnderWay, OnItsWay, OneThread
  <2>3. \A v \in Workers : AtHand(v)'
    BY <1>0, <2>1 DEF AtHand, OneThread
  <2>4. QED
    BY <1>0, <2>1, <2>2, <2>3, ChargesKept
<1>8. ASSUME NEW w \in Workers, Raise(w) PROVE ChargeInv'
  <2>1. /\ UNCHANGED <<usage, saved, chargedOn, result, today>>
        /\ \/ pc'[w] = "store" /\ verdict'[w] = "error" /\ seen'[w] = seen[w]
           \/ pc'[w] = "top" /\ seen'[w] = NoDay
    BY <1>8 DEF Raise, Answer, BackToLoop, Goto, historyVars, clockVars, WorkerBase, WorkerTypeOK
  <2>2. UnderWay' = {}
    BY <2>1 DEF UnderWay, OnItsWay, OneThread
  <2>3. ~OnItsWay(w)'
    BY <2>1 DEF OnItsWay
  <2>4. \A v \in Workers : AtHand(v)'
    BY <1>0, <2>1, <2>3 DEF AtHand, OneThread, NoDay
  <2>5. QED
    BY <1>0, <2>1, <2>2, <2>4, ChargesKept
<1>9. CASE Stop \/ Midnight \/ DemoExpires
  <2>1. /\ UNCHANGED <<held, pc, verdict, usage, saved, chargedOn, result, seen, snapshot>>
        /\ today' = today \/ today' = today + 1
    BY <1>9 DEF Stop, Midnight, DemoExpires, queueVars, threadVars, historyVars, clockVars
  <2>2. UnderWay' \subseteq UnderWay /\ today <= today'
    BY <1>0, <2>1 DEF UnderWay, OnItsWay
  <2>3. \A w \in Workers : AtHand(w)'
    <3>1. \A w \in Workers : seen[w] \in Nat
      BY DEF WorkerBase, WorkerTypeOK, Days, NoDay
    <3>2. QED
      BY <1>0, <2>1, <3>1 DEF AtHand, OnItsWay
  <2>4. QED
    BY <2>1, <2>2, <2>3, ChargesKept
<1>10. QED
  BY <1>1, <1>2, <1>3, <1>4, <1>5, <1>6, <1>7, <1>8, <1>9, ChargeDenied, ChargeGranted, UsageWritten,
     ResultReported, ChargesSurvive DEF WorkerNext, Step

\* A job reported "completed" stays charged on disk, whatever raises and however
\* often the process dies: _persist_usage comes before _store_job_result.  The
\* worker has one thread, as QueueWorker.start() has; a second one that persists
\* an older record in between takes a charge back.
THEOREM ReportedAlwaysCharged ==
  ASSUME OneThread
  PROVE  WorkerSpec => []ReportedJobsAreCharged
<1>1. WorkerInit => ChargeInv
  <2> SUFFICES ASSUME WorkerInit PROVE ChargeInv
    OBVIOUS
  <2>1. /\ \A t \in Tenants : usage[t].day = NoDay /\ saved[t].day = NoDay
        /\ \A w \in Workers : pc[w] = "top" /\ seen[w] = NoDay
        /\ \A m \in Messages : result[m] = "none"
        /\ NoDay <= today
    BY FreshRecord DEF WorkerInit, NoDay
  <2>2. Completed = {} /\ UnderWay = {}
    BY <2>1 DEF Completed, UnderWay, OnItsWay
  <2>3. QED
    BY <2>1, <2>2 DEF ChargeInv, Covers, NotOlder, AtHand
<1>2. WorkerBase /\ ChargeInv => ReportedJobsAreCharged
  <2> SUFFICES ASSUME WorkerBase, ChargeInv, NEW t \in Tenants, NEW c \in Counters
               PROVE  Cardinality(Reported(t, c)) <= saved[t].count[c]
    BY DEF ReportedJobsAreCharged
  <2>1. Reported(t, c) = Claims(t, c, saved[t].day, Completed)
    BY DEF Reported, Claims, Completed
  <2>2. CASE saved[t].day # NoDay
    BY <2>1, <2>2 DEF ChargeInv, Covers
  <2>3. CASE saved[t].day = NoDay
    <3>1. Claims(t, c, saved[t].day, Completed) = {}
      BY <2>3, DayFacts DEF Claims, ChargeInv, NotOlder
    <3>2. saved[t].count[c] \in Nat
      BY DEF WorkerBase, WorkerTypeOK, UsageRecord
    <3>3. QED
      BY <2>1, <3>1, <3>2, FS_EmptySet
  <2>4. QED
    BY <2>2, <2>3
<1>3. QED
  BY <1>1, <1>2, ChargeStep, BaseAlways, ResultsInvAlways, PTL DEF WorkerSpec

==============================================================================
