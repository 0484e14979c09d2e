----------------------------- MODULE QueueWorker -----------------------------
(***************************************************************************)
(* brain/queue/worker.py: the threads that take messages from TaskQueue,   *)
(* look the tenant up, charge its daily quota, run the job and store its   *)
(* result.  A handler is a walk over the labels of "pc"; everything that   *)
(* leaves the process (storage, a pipeline run, an LLM call) may raise,    *)
(* and the process may die between any two steps.                          *)
(***************************************************************************)
EXTENDS TaskQueue

CONSTANTS Tenants,
          TenantOf,    \* the tenant_id of each message
          KindOf,      \* the message_type of each message (RAG: with action)
          Unknown,     \* tenants that get_tenant does not find
          Demo,        \* tenants with is_demo
          RagTier,     \* tenants whose quota has rag_enabled
          Linked,      \* tenants that stored third-party tokens
          Unreadable,  \* linked tenants whose tokens no longer decrypt
          Limit,       \* TenantQuota: counter -> allowance per day
          DemoCap,     \* demo_cost_cap_pipeline (nothing reads the LLM one)
          MaxDay,      \* bound: the days of a behaviour are 1..MaxDay
          MaxRestarts  \* bound: how often the process may die

Counters == {"runs", "llm"}

Kinds == {"pipeline_run", "digest_generate", "llm_generate", "rag_query",
          "rag_edit", "notion_sync", "board_analysis", "scoring_config",
          "tenant_operation", "notebooklm_extract"}

ASSUME WorkerAssumption ==
  /\ TenantOf \in [Messages -> Tenants]
  /\ KindOf \in [Messages -> Kinds]
  /\ Limit \in [Counters -> Nat]
  /\ DemoCap \in Nat
  /\ MaxDay \in Nat \ {0}
  /\ MaxRestarts \in Nat

VARIABLES pc,          \* where each worker thread is in _run_loop
          running,     \* _running: cleared by stop(), i.e. by SIGTERM
          seen,        \* the date _check_quota read before its lock
          verdict,     \* the status of the result the handler will store
          snapshot,    \* the usage record _persist_usage serialised
          usage,       \* _daily_usage: each tenant's record in memory
          saved,       \* tenants/{id}/daily_usage.json
          result,      \* tenants/{id}/job_results/{message_id}.json
          today,       \* the UTC date
          expired,     \* demo_expires_at has passed
          restarts,    \* how often the process died
          ran,         \* history: messages whose job was carried out
          chargedOn,   \* history: the day each message was last charged to
          granted,     \* history: charges granted per tenant, counter and day
          spent        \* history: jobs carried out against those charges

threadVars == <<pc, seen, verdict, snapshot>>
historyVars == <<ran, chargedOn, granted, spent>>
clockVars == <<today, expired, restarts>>
workerVars == <<threadVars, running, usage, saved, result, historyVars, clockVars>>
allVars == <<queueVars, workerVars>>

Days == 1..MaxDay
NoDay == 0
Fresh(d) == [day |-> d, count |-> [c \in Counters |-> 0]]
NoCharges == [t \in Tenants |-> [c \in Counters |-> [d \in Days |-> 0]]]
------------------------------------------------------------------------------
\* What each message type asks of its handler.
Rag == {"rag_query", "rag_edit"}
ChecksExpiry == {"pipeline_run", "llm_generate"} \cup Rag
NeedsToken == {"notion_sync", "board_analysis"}
Decrypts == {"pipeline_run", "llm_generate"} \cup NeedsToken
ChargesRuns == {"pipeline_run", "digest_generate"}
ChargesLlm == {"llm_generate", "rag_query"}
Metered == ChargesRuns \cup ChargesLlm
OnlyLogs == {"tenant_operation", "notebooklm_extract"}

\* Handlers that build the tenant's settings, synchronise or analyse nothing
\* with them, and answer "completed".
Stubs == {"notion_sync", "board_analysis"}

StoresResult == Kinds \ (OnlyLogs \cup {"scoring_config"})

Counter(kind) == IF kind \in ChargesRuns THEN "runs" ELSE "llm"

\* The early "return" of a handler before it charges anything.
Refusal(m) ==
  CASE KindOf[m] \in ChecksExpiry /\ TenantOf[m] \in Demo /\ expired -> "demo_expired"
    [] KindOf[m] \in Rag /\ TenantOf[m] \notin RagTier -> "error"
    [] KindOf[m] \in NeedsToken /\ TenantOf[m] \notin Linked -> "error"
    [] OTHER -> "none"
------------------------------------------------------------------------------
WorkerInit ==
  /\ QueueInit
  /\ pc = [w \in Workers |-> "top"]
  /\ running = TRUE
  /\ seen = [w \in Workers |-> NoDay]
  /\ verdict = [w \in Workers |-> "none"]
  /\ snapshot = [w \in Workers |-> Fresh(NoDay)]
  /\ usage = [t \in Tenants |-> Fresh(NoDay)]
  /\ saved = [t \in Tenants |-> Fresh(NoDay)]
  /\ result = [m \in Messages |-> "none"]
  /\ today = 1
  /\ expired = FALSE
  /\ restarts = 0
  /\ ran = {}
  /\ chargedOn = [m \in Messages |-> NoDay]
  /\ granted = NoCharges
  /\ spent = NoCharges

Goto(w, label) == pc' = [pc EXCEPT ![w] = label]

\* The handler will store "v" and return.
Answer(w, v) == Goto(w, "store") /\ verdict' = [verdict EXCEPT ![w] = v]

\* The handler is over: its locals are gone and the loop starts again.
BackToLoop(w) ==
  /\ Goto(w, "top")
  /\ seen' = [seen EXCEPT ![w] = NoDay]
  /\ verdict' = [verdict EXCEPT ![w] = "none"]
  /\ snapshot' = [snapshot EXCEPT ![w] = Fresh(NoDay)]

Producer(m) == Enqueue(m) /\ UNCHANGED workerVars

\* Slip: the flag is not looked at.
CheckNothing(w) ==
  /\ pc[w] = "top"
  /\ Goto(w, "poll")
  /\ UNCHANGED <<queueVars, running, seen, verdict, snapshot, usage, saved,
                 result, historyVars, clockVars>>

\* while self._running
CheckRunning(w) ==
  /\ pc[w] = "top"
  /\ Goto(w, IF running THEN "poll" ELSE "exited")
  /\ UNCHANGED <<queueVars, running, seen, verdict, snapshot, usage, saved,
                 result, historyVars, clockVars>>

\* dequeue(timeout=2.0), whether or not stop() was called meanwhile.
Poll(w) ==
  /\ pc[w] = "poll"
  /\ \/ Dequeue(w) /\ Goto(w, "read")
     \/ queue = <<>> /\ Goto(w, "top") /\ UNCHANGED queueVars
  /\ UNCHANGED <<running, seen, verdict, snapshot, usage, saved, result,
                 historyVars, clockVars>>

\* get_tenant, the gates that precede the quota, and (for a metered job) the
\* date that _check_quota reads before it takes _usage_lock.
ReadTenant(w) ==
  LET m == held[w]
      kind == KindOf[m]
  IN /\ pc[w] = "read"
     /\ \/ /\ TenantOf[m] \in Unknown \/ kind \in OnlyLogs
           /\ Goto(w, "settle")
           /\ UNCHANGED <<seen, verdict>>
        \/ /\ TenantOf[m] \notin Unknown
           /\ Refusal(m) # "none"
           /\ Answer(w, Refusal(m))
           /\ UNCHANGED seen
        \/ /\ TenantOf[m] \notin Unknown
           /\ Refusal(m) = "none"
           /\ kind \notin OnlyLogs
           /\ Goto(w, IF kind \in Metered THEN "charge" ELSE "execute")
           /\ seen' = [seen EXCEPT ![w] = IF kind \in Metered THEN today ELSE NoDay]
           /\ UNCHANGED verdict
     /\ UNCHANGED <<queueVars, running, snapshot, usage, saved, result,
                    historyVars, clockVars>>

\* Slips: a new day goes on with the old count; memory is never looked at.
UsageCarriedOver(t, d) ==
  IF usage[t].day # NoDay THEN [usage[t] EXCEPT !.day = d]
  ELSE IF saved[t].day = d THEN saved[t]
  ELSE Fresh(d)

UsageReloaded(t, d) == IF saved[t].day = d THEN saved[t] ELSE Fresh(d)

\* Under _usage_lock: the record of day d, from memory, else from storage.
CurrentUsage(t, d) ==
  IF usage[t].day = d THEN usage[t]
  ELSE IF saved[t].day = d THEN saved[t]
  ELSE Fresh(d)

QuotaLeft(record, c) == record.count[c] < Limit[c]

\* _check_quota from the lock on: the tenant, counter and record it works with.
Charging(w) ==
  LET m == held[w]
  IN [tenant |-> TenantOf[m],
      counter |-> Counter(KindOf[m]),
      record |-> CurrentUsage(TenantOf[m], seen[w])]

\* Slip: the handler goes on after a refusal.
DenyNothing(w) ==
  LET q == Charging(w)
  IN /\ pc[w] = "charge"
     /\ ~QuotaLeft(q.record, q.counter)
     /\ usage' = [usage EXCEPT ![q.tenant] = q.record]
     /\ Goto(w, "execute")
     /\ UNCHANGED <<queueVars, running, seen, verdict, snapshot, saved, result,
                    historyVars, clockVars>>

DenyCharge(w) ==
  LET q == Charging(w)
  IN /\ pc[w] = "charge"
     /\ ~QuotaLeft(q.record, q.counter)
     /\ usage' = [usage EXCEPT ![q.tenant] = q.record]
     /\ Answer(w, "quota_exceeded")
     /\ UNCHANGED <<queueVars, running, seen, snapshot, saved, result,
                    historyVars, clockVars>>

GrantCharge(w) ==
  LET m == held[w]
      q == Charging(w)
      d == seen[w]
  IN /\ pc[w] = "charge"
     /\ QuotaLeft(q.record, q.counter)
     /\ usage' = [usage EXCEPT ![q.tenant] = [q.record EXCEPT !.count[q.counter] = @ + 1]]
     /\ granted' = [granted EXCEPT ![q.tenant][q.counter][d] = @ + 1]
     /\ chargedOn' = [chargedOn EXCEPT ![m] = d]
     /\ Goto(w, IF KindOf[m] = "pipeline_run" /\ q.tenant \in Demo
                THEN "cap" ELSE "execute")
     /\ UNCHANGED <<queueVars, running, seen, verdict, snapshot, saved, result,
                    ran, spent, clockVars>>

\* The demo cost cap of a pipeline run, read from memory without the lock.
CheckCostCap(w) ==
  /\ pc[w] = "cap"
  /\ IF usage[TenantOf[held[w]]].count["runs"] > DemoCap
     THEN Answer(w, "demo_cost_cap")
     ELSE Goto(w, "execute") /\ UNCHANGED verdict
  /\ UNCHANGED <<queueVars, running, seen, snapshot, usage, saved, result,
                 historyVars, clockVars>>

\* Slips: the charge is not persisted; an unmetered job stores no result.
AfterJobUnsaved(kind) == IF kind \in StoresResult THEN "store" ELSE "settle"

AfterJobUnanswered(kind) == IF kind \in Metered THEN "persist" ELSE "settle"

\* What a handler does once its job is carried out.
AfterJob(kind) ==
  IF kind \in Metered THEN "persist"
  ELSE IF kind \in StoresResult THEN "store"
  ELSE "settle"

CannotDecrypt(m) == KindOf[m] \in Decrypts /\ TenantOf[m] \in Unreadable

\* The job itself; a stub comes to its end without one.  A local LLM answers
\* without the tenant's credentials.
Execute(w) ==
  LET m == held[w]
      t == TenantOf[m]
      kind == KindOf[m]
  IN /\ pc[w] = "execute"
     /\ CannotDecrypt(m) => kind = "llm_generate"
     /\ Goto(w, AfterJob(kind))
     /\ verdict' = [verdict EXCEPT ![w] = "completed"]
     /\ ran' = IF kind \in Stubs THEN ran ELSE ran \cup {m}
     /\ spent' = IF kind \in Metered
                 THEN [spent EXCEPT ![t][Counter(kind)][seen[w]] = @ + 1]
                 ELSE spent
     /\ UNCHANGED <<queueVars, running, seen, snapshot, usage, saved, result,
                    chargedOn, granted, clockVars>>

\* _persist_usage: json.dump serialises the shared record, os.replace lands it.
SerialiseUsage(w) ==
  /\ pc[w] = "persist"
  /\ Goto(w, "write")
  /\ snapshot' = [snapshot EXCEPT ![w] = usage[TenantOf[held[w]]]]
  /\ UNCHANGED <<queueVars, running, seen, verdict, usage, saved, result,
                 historyVars, clockVars>>

WriteUsage(w) ==
  /\ pc[w] = "write"
  /\ Goto(w, "store")
  /\ saved' = [saved EXCEPT ![TenantOf[held[w]]] = snapshot[w]]
  /\ UNCHANGED <<queueVars, running, seen, verdict, snapshot, usage, result,
                 historyVars, clockVars>>

StoreJobResult(w) ==
  /\ pc[w] = "store"
  /\ Goto(w, "settle")
  /\ result' = [result EXCEPT ![held[w]] = verdict[w]]
  /\ UNCHANGED <<queueVars, running, seen, verdict, snapshot, usage, saved,
                 historyVars, clockVars>>

\* Slip: a handler that returned early is not acknowledged.
SettleSilently(w) ==
  /\ pc[w] = "settle"
  /\ Release(w)
  /\ BackToLoop(w)
  /\ UNCHANGED <<queue, retries, unfinished, deadLetter, dropped, processed, accepted,
                 done, dead, running, usage, saved, result, historyVars, clockVars>>

\* The handler returned.
Settle(w) ==
  /\ pc[w] = "settle"
  /\ MarkDone(w)
  /\ BackToLoop(w)
  /\ UNCHANGED <<running, usage, saved, result, historyVars, clockVars>>

\* The RAG handler catches what its own body raises and answers "error".
Caught(w) ==
  /\ KindOf[held[w]] \in Rag
  /\ \/ pc[w] \in {"charge", "execute", "persist", "write"}
     \/ pc[w] = "store" /\ verdict[w] \in {"completed", "quota_exceeded"}

\* A storage call, a decryption or the job raises; _check_quota touches the
\* storage only when the record in memory is of another day.
Raise(w) ==
  /\ \/ pc[w] \in {"read", "execute", "persist", "write", "store"}
     \/ pc[w] = "charge" /\ usage[TenantOf[held[w]]].day # seen[w]
  /\ \/ /\ Caught(w)
        /\ Answer(w, "error")
        /\ UNCHANGED <<queueVars, seen, snapshot>>
     \/ /\ ~Caught(w)
        /\ Requeue(w)
        /\ BackToLoop(w)
  /\ UNCHANGED <<running, usage, saved, result, historyVars, clockVars>>

Stop ==
  /\ running
  /\ running' = FALSE
  /\ UNCHANGED <<queueVars, threadVars, usage, saved, result, historyVars, clockVars>>

Midnight ==
  /\ today < MaxDay
  /\ today' = today + 1
  /\ UNCHANGED <<queueVars, threadVars, running, usage, saved, result,
                 historyVars, expired, restarts>>

DemoExpires ==
  /\ Demo # {}
  /\ ~expired
  /\ expired' = TRUE
  /\ UNCHANGED <<queueVars, threadVars, running, usage, saved, result,
                 historyVars, today, restarts>>

\* The process dies, or ends after stop(), and the supervisor starts another:
\* what is on disk stays, the queue and the counters in memory do not.
Restart ==
  /\ restarts < MaxRestarts
  /\ restarts' = restarts + 1
  /\ QueueRestart
  /\ pc' = [w \in Workers |-> "top"]
  /\ running' = TRUE
  /\ seen' = [w \in Workers |-> NoDay]
  /\ verdict' = [w \in Workers |-> "none"]
  /\ snapshot' = [w \in Workers |-> Fresh(NoDay)]
  /\ usage' = [t \in Tenants |-> Fresh(NoDay)]
  /\ UNCHANGED <<saved, result, historyVars, today, expired>>

Step(w) ==
  \/ CheckRunning(w) \/ Poll(w) \/ ReadTenant(w) \/ DenyCharge(w)
  \/ GrantCharge(w) \/ CheckCostCap(w) \/ Execute(w) \/ SerialiseUsage(w) \/ WriteUsage(w)
  \/ StoreJobResult(w) \/ Settle(w) \/ Raise(w)

WorkerNext ==
  \/ \E m \in Messages : Producer(m)
  \/ \E w \in Workers : Step(w)
  \/ Stop \/ Midnight \/ DemoExpires \/ Restart

WorkerSpec == WorkerInit /\ [][WorkerNext]_allVars

\* A thread that is not stopped keeps executing its loop; every call it makes
\* out of the process returns or raises (each has a timeout).
FairWorkerSpec == WorkerSpec /\ \A w \in Workers : WF_allVars(Step(w))
------------------------------------------------------------------------------
\* For its queue the worker process is one of the clients TaskQueue allows:
\* _run_loop answers each message it took with one mark_done or one requeue.
QueueObeyed == QueueSpec

Labels == {"top", "poll", "read", "charge", "cap", "execute", "persist",
           "write", "store", "settle", "exited"}

Verdicts == {"none", "completed", "quota_exceeded", "demo_expired",
             "demo_cost_cap", "error"}

UsageRecord == [day : Days \cup {NoDay}, count : [Counters -> Nat]]

WorkerTypeOK ==
  /\ pc \in [Workers -> Labels]
  /\ running \in BOOLEAN
  /\ seen \in [Workers -> Days \cup {NoDay}]
  /\ verdict \in [Workers -> Verdicts]
  /\ snapshot \in [Workers -> UsageRecord]
  /\ usage \in [Tenants -> UsageRecord]
  /\ saved \in [Tenants -> UsageRecord]
  /\ result \in [Messages -> Verdicts]
  /\ today \in Days
  /\ expired \in BOOLEAN
  /\ restarts \in 0..MaxRestarts
  /\ ran \in SUBSET Messages
  /\ chargedOn \in [Messages -> Days \cup {NoDay}]
  /\ granted \in [Tenants -> [Counters -> [Days -> Nat]]]
  /\ spent \in [Tenants -> [Counters -> [Days -> Nat]]]

\* No tenant is charged for a job that was not granted to it that day, in
\* memory, on disk or in a record on its way there: the reload in _check_quota
\* may bring back an old record, never a larger one.
NeverOvercharged ==
  /\ \A t \in Tenants : \A record \in {usage[t], saved[t]} :
       \A c \in Counters : record.day # NoDay =>
         record.count[c] <= granted[t][c][record.day]
  /\ \A w \in Busy : pc[w] = "write" =>
       \A c \in Counters : snapshot[w].day # NoDay =>
         snapshot[w].count[c] <= granted[TenantOf[held[w]]][c][snapshot[w].day]

\* _check_quota: a tenant is never granted more than its allowance of a day.
QuotaPerDay ==
  \A t \in Tenants, c \in Counters, d \in Days : granted[t][c][d] <= Limit[c]

\* Every pipeline run and LLM call is carried out against a charge of its own,
\* retries included: no path of a handler reaches the job around _check_quota.
JobsArePaid ==
  \A t \in Tenants, c \in Counters, d \in Days : spent[t][c][d] <= granted[t][c][d]

\* A job reported "completed" stays charged whatever dies: _persist_usage comes
\* before _store_job_result, so the record on disk is of that day and covers
\* every completed job of the day, or is of a later day.
Reported(t, c) ==
  {m \in Messages : /\ TenantOf[m] = t
                    /\ KindOf[m] \in Metered
                    /\ Counter(KindOf[m]) = c
                    /\ result[m] = "completed"
                    /\ chargedOn[m] >= saved[t].day}

ReportedJobsAreCharged ==
  \A t \in Tenants, c \in Counters : Cardinality(Reported(t, c)) <= saved[t].count[c]

\* A job that left the queue as processed left its answer in job_results, and an
\* answer says "completed" only of a job that was carried out, the two kinds whose
\* handler is a stub excepted (see CompletedWasDone).
ResultsAreTrue ==
  /\ \A m \in done : KindOf[m] \in StoresResult /\ TenantOf[m] \notin Unknown
                       => result[m] # "none"
  /\ \A m \in Messages : result[m] = "completed" => m \in ran \/ KindOf[m] \in Stubs

\* Once a job is settled nobody writes its result again.
SettledIsFinal ==
  [][\A m \in done \cup dead : result'[m] = result[m]]_allVars

\* Running threads settle every job that waits or runs, however its attempts
\* fail, unless the process is stopped or dies first.
JobsSettle ==
  \A m \in Messages :
    StatusOf(m) \in {"queued", "running"} ~> m \in done \cup dead \/ Reborn \/ ~running

\* stop(): every thread finishes the job at hand and leaves its loop.
StopIsGraceful ==
  ~running ~> running \/ \A w \in Workers : pc[w] = "exited" /\ held[w] = NoMessage
------------------------------------------------------------------------------
(* What the repository's documents say of the worker and its code does not.  *)

\* tenant/manager.py: "worker handlers must treat this as a permanent inability
\* to fulfil the request, not a retryable error".
UndecryptableNotRetried ==
  [][\A w \in Workers :
       pc[w] = "execute" /\ CannotDecrypt(held[w]) /\ KindOf[held[w]] # "llm_generate"
         => retries'[held[w]] = retries[held[w]]]_allVars

\* worker.py: "Notion sync executes with per-tenant credentials", above the result
\* "completed" of a handler that ends there; board_analysis does the same.
CompletedWasDone ==
  \A m \in Messages : result[m] = "completed" => m \in ran

\* README.md: "Daily usage counters are persisted so quota enforcement survives
\* worker restarts"; worker.py: "_usage_lock to prevent TOCTOU race conditions".
WorkWithinQuota ==
  \A t \in Tenants, c \in Counters, d \in Days : spent[t][c][d] <= Limit[c]
==============================================================================
