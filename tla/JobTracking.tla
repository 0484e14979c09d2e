----------------------------- MODULE JobTracking -----------------------------
(***************************************************************************)
(* brain/api/routes/webhooks.py: a webhook that passes its checks puts a   *)
(* job in the queue and notes it for polling.  The rate limiter, the queue *)
(* and the notes live in the memory of one API process; a deployment runs  *)
(* several behind one address.  A request that is refused - signature,     *)
(* permission, rate limit, moderation, injection - changes nothing here.   *)
(***************************************************************************)
EXTENDS Integers, Sequences, Access

CONSTANTS Apis,         \* the API processes
          Sessions,     \* who calls: tenant, tier and user role of a token
          MaxJobs,      \* bound: the jobs that can be accepted
          JobHistory,   \* _MAX_JOB_HISTORY, 1000
          JobsEvicted   \* how many go when it is reached, 100

ASSUME JobTrackingAssumption ==
  /\ JobHistory \in Nat /\ JobsEvicted \in 1..JobHistory
  /\ MaxJobs \in Nat

VARIABLES jobNote,     \* _job_status of each process: its entries in the order made
          jobQueue,    \* each process's queue: the jobs enqueued, oldest first
          accepted,    \* history: all jobs answered 202, by which process and for whom
          polled       \* the last poll: its job and the answer

jobVars == <<jobNote, jobQueue, accepted, polled>>

NoPoll == [job |-> 0, answer |-> "none"]

JobInit ==
  /\ jobNote = [a \in Apis |-> <<>>]
  /\ jobQueue = [a \in Apis |-> <<>>]
  /\ accepted = <<>>
  /\ polled = NoPoll

\* Slip: the sweep begins one job late.
EvictedLate(notes) ==
  IF Len(notes) > JobHistory THEN SubSeq(notes, JobsEvicted + 1, Len(notes)) ELSE notes

\* Slip: the sweep sorts the other way round.
EvictedNewest(notes) ==
  IF Len(notes) >= JobHistory THEN SubSeq(notes, 1, Len(notes) - JobsEvicted) ELSE notes

\* _track_job: sorted by created_at, which is the order made as long as the
\* process's clock is not set back; the oldest go in one sweep.
Evicted(notes) ==
  IF Len(notes) >= JobHistory THEN SubSeq(notes, JobsEvicted + 1, Len(notes)) ELSE notes

\* What every triggering endpoint ends with: without an await in between, enqueue
\* and note are one step.
Accept(a, s, permission, type, noted) ==
  LET job(as) == [id |-> Len(accepted) + 1, tenant |-> s.tenant, type |-> as]
  IN /\ MayUse(s, permission)
     /\ Len(accepted) < MaxJobs
     /\ jobQueue' = [jobQueue EXCEPT ![a] = Append(@, job(type))]
     /\ jobNote' = [jobNote EXCEPT ![a] = Append(Evicted(@), job(noted))]
     /\ accepted' = Append(accepted, [by |-> a, for |-> s])
     /\ UNCHANGED polled

TriggerPipeline(a, s) == Accept(a, s, "run:pipeline", "pipeline_run", "pipeline_run")
TriggerDigest(a, s) == Accept(a, s, "generate:digest", "digest_generate", "digest_generate")
TriggerLLM(a, s) == Accept(a, s, "use:llm", "llm_generate", "llm_generate")
TenantOperation(a, s) == Accept(a, s, "manage:tenant", "tenant_operation", "tenant_operation")
NotionSync(a, s) == Accept(a, s, "run:pipeline", "notion_sync", "notion_sync")
BoardAnalysis(a, s) == Accept(a, s, "read:gold", "board_analysis", "board_analysis")
ScoringConfig(a, s) == Accept(a, s, "manage:tenant", "scoring_config", "scoring_config")

\* The note does not carry the type of the queue here.
NotebookLM(a, s) == Accept(a, s, "use:llm", "notebooklm_extract", "notebooklm")

\* webhook_job_status.  The process that is asked looks into its own notes; a
\* note of another tenant counts as none.  The status never leaves "queued".
Poll(a, s, j) ==
  /\ MayUse(s, "view:pipeline_runs")
  /\ polled' = [job |-> j,
                answer |-> IF \E n \in DOMAIN jobNote[a] : jobNote[a][n].id = j /\ jobNote[a][n].tenant = s.tenant
                           THEN "queued" ELSE "unknown"]
  /\ UNCHANGED <<jobNote, jobQueue, accepted>>

\* The process restarts: queue and notes are gone.
RestartApi(a) ==
  /\ jobNote[a] # <<>>
  /\ jobNote' = [jobNote EXCEPT ![a] = <<>>]
  /\ jobQueue' = [jobQueue EXCEPT ![a] = <<>>]
  /\ UNCHANGED <<accepted, polled>>

JobNext ==
  \E a \in Apis :
    \/ RestartApi(a)
    \/ \E s \in Sessions :
         \/ TriggerPipeline(a, s) \/ TriggerDigest(a, s) \/ TriggerLLM(a, s) \/ TenantOperation(a, s)
         \/ NotionSync(a, s) \/ BoardAnalysis(a, s) \/ ScoringConfig(a, s) \/ NotebookLM(a, s)
         \/ \E j \in DOMAIN accepted : accepted[j].for.tenant = s.tenant /\ Poll(a, s, j)

JobSpec == JobInit /\ [][JobNext]_jobVars
------------------------------------------------------------------------------
JobTypeOK ==
  /\ \A a \in Apis : /\ \A n \in DOMAIN jobNote[a] : jobNote[a][n].id \in DOMAIN accepted
                     /\ Len(jobNote[a]) <= JobHistory
  /\ polled.answer \in {"none", "queued", "unknown"}

\* Positions of a queue that an eviction has had no occasion to reach.
Latest(a) == {n \in DOMAIN jobQueue[a] : n > Len(jobQueue[a]) - (JobHistory - JobsEvicted + 1)}

\* _track_job: the sweep may forget finished and waiting jobs alike, but never
\* one of the last 901 accepted by the process; each is noted once, for the
\* tenant it was queued for; and whoever may start a job may also poll it.
RecentJobsKnown ==
  /\ \A a \in Apis : \A n \in Latest(a) :
       \E k \in DOMAIN jobNote[a] :
         /\ jobNote[a][k].id = jobQueue[a][n].id /\ jobNote[a][k].tenant = jobQueue[a][n].tenant
         /\ \A k2 \in DOMAIN jobNote[a] \ {k} : jobNote[a][k2].id # jobNote[a][k].id
  /\ \A j \in DOMAIN accepted : MayUse(accepted[j].for, "view:pipeline_runs")

\* "Poll job completion status", "Job not found or expired" (webhooks.py:629,
\* 637): a job that was accepted and has not been swept away is found.
AcceptedJobsAreFound ==
  \A j \in DOMAIN accepted :
    (\E n \in DOMAIN jobNote[accepted[j].by] : jobNote[accepted[j].by][n].id = j)
      => polled # [job |-> j, answer |-> "unknown"]
==============================================================================
