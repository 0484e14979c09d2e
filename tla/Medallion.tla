------------------------------ MODULE Medallion ------------------------------
(***************************************************************************)
(* brain/pipeline and the route that triggers it, for one tenant: a run    *)
(* lands what the caller supplied in bronze, derives silver from the       *)
(* latest batch of every source and gold from silver, and records itself.  *)
(* Runners are the workers and the request handlers of several processes,  *)
(* which share the files and nothing else.  A payload is the number of the *)
(* run that ingested it, NoRun where there is none.                        *)
(***************************************************************************)
EXTENDS Integers, Sequences, SequencesExt

CONSTANTS Runners, Routes,   \* Routes: the runners that are HTTP handlers
          Feeds,             \* the sources in the order of ingestion; the tasks first
          RunQuota, MaxRuns, LastSecond

NoRun == 0

ASSUME MedallionAssumption ==
  /\ Routes \subseteq Runners
  /\ Feeds \in Seq({"todoist", "calendar", "gmail"}) /\ Feeds # <<>> /\ Feeds[1] = "todoist"
  /\ RunQuota \in Nat /\ MaxRuns \in Nat /\ LastSecond \in Nat

Sources == ToSet(Feeds)
Payloads == 0..MaxRuns

VARIABLES wallSecond, \* ids of batches and runs carry the second they were made in
          bronze,     \* bronze[f][s]: the batch file of source f and second s
          silver,     \* the cleaned records of each source
          scoredTasks, dailyDigest,   \* the two gold files
          runLog,     \* the run record of each second
          runsBegun,
          charged,    \* runs a route's process has counted against the quota
          runner      \* the run each runner is executing

medallionVars == <<wallSecond, bronze, silver, scoredTasks, dailyDigest, runLog, runsBegun, charged, runner>>
layers == <<bronze, silver, scoredTasks, dailyDigest>>

NoFeeds == [f \in Sources |-> NoRun]

NoWork == [stage |-> "idle", serial |-> NoRun, from |-> 0, given |-> {}, todo |-> {},
           hand |-> NoFeeds, status |-> "pending", alone |-> TRUE]

MedallionInit ==
  /\ wallSecond = 0
  /\ bronze = [f \in Sources |-> [s \in 0..LastSecond |-> NoRun]]
  /\ silver = NoFeeds /\ scoredTasks = NoRun /\ dailyDigest = NoFeeds
  /\ runLog = [s \in 0..LastSecond |-> "none"]
  /\ runsBegun = 0
  /\ charged = [p \in Routes |-> 0]
  /\ runner = [p \in Runners |-> NoWork]

Staged(p, s) == runner[p].stage = s

\* The source of S that a stage comes to first.
First(S) == Feeds[CHOOSE i \in DOMAIN Feeds : Feeds[i] \in S /\ \A j \in 1..(i - 1) : Feeds[j] \notin S]

\* A run enters a stage; the next one it is to do.
Move(p, work) == runner' = [runner EXCEPT ![p] = work]
------------------------------------------------------------------------------
\* Slip: a run more than the quota is let through.
RunAllowedOnceMore(p) == p \in Routes => charged[p] <= RunQuota

\* The daily counter of /pipelines/run; the worker has its own.
RunAllowed(p) == p \in Routes => charged[p] < RunQuota

\* trigger_pipeline counts the run first and then refuses too large a payload or
\* one the moderation blocks; the worker calls execute.
Trigger(p, given) ==
  /\ Staged(p, "idle")
  /\ RunAllowed(p)
  /\ charged' = [q \in Routes |-> IF q = p THEN charged[q] + 1 ELSE charged[q]]
  /\ \/ /\ runsBegun < MaxRuns
        /\ runsBegun' = runsBegun + 1
        /\ runner' = [q \in Runners |->
             IF q = p
             THEN [NoWork EXCEPT !.stage = IF given = {} THEN "read" ELSE "bronze",
                     !.serial = runsBegun + 1, !.from = wallSecond, !.given = given,
                     !.todo = IF given = {} THEN Sources ELSE given, !.status = "running",
                     !.alone = \A r \in Runners : Staged(r, "idle")]
             ELSE [runner[q] EXCEPT !.alone = Staged(q, "idle")]]
     \/ p \in Routes /\ UNCHANGED <<runsBegun, runner>>
  /\ UNCHANGED <<wallSecond, layers, runLog>>

\* One ingest_*: the batch file is named for the second; a source that was given
\* nothing is skipped.  After the last one the silver stage goes through them all.
Ingest(p) ==
  LET w == runner[p]
      f == First(w.todo)
  IN /\ Staged(p, "bronze")
     /\ bronze' = [bronze EXCEPT ![f][wallSecond] = w.serial]
     /\ Move(p, IF w.todo = {f} THEN [w EXCEPT !.stage = "read", !.todo = Sources]
                ELSE [w EXCEPT !.todo = @ \ {f}])
     /\ UNCHANGED <<wallSecond, silver, scoredTasks, dailyDigest, runLog, runsBegun, charged>>

\* Slip: the first batch of the sorted list instead of the last.
ReadFirst(f) ==
  LET made == {s \in 0..LastSecond : bronze[f][s] # NoRun}
  IN IF made = {} THEN NoRun ELSE bronze[f][CHOOSE s \in made : \A t \in made : s <= t]

\* read_latest: the last of the sorted keys, that is the latest second.
ReadLatest(f) ==
  LET made == {s \in 0..LastSecond : bronze[f][s] # NoRun}
  IN IF made = {} THEN NoRun ELSE bronze[f][CHOOSE s \in made : \A t \in made : s >= t]

\* On to the next source, or to gold after the last one.
Onward(w) ==
  LET rest == w.todo \ {First(w.todo)}
  IN [w EXCEPT !.todo = rest, !.stage = IF rest = {} THEN "score" ELSE "read"]

\* The latest batch, whoever wrote it and however long ago; where there is none the
\* list is empty and the silver file stays as it is.
ReadBronze(p) ==
  LET w == runner[p]
      f == First(w.todo)
      got == ReadLatest(f)
  IN /\ Staged(p, "read")
     /\ Move(p, IF got = NoRun THEN Onward(w) ELSE [w EXCEPT !.hand[f] = got, !.stage = "clean"])
     /\ UNCHANGED <<wallSecond, layers, runLog, runsBegun, charged>>

\* process_*: the cleaned records replace the silver file.
WriteSilver(p) ==
  LET f == First(runner[p].todo)
  IN /\ Staged(p, "clean")
     /\ silver' = [silver EXCEPT ![f] = runner[p].hand[f]]
     /\ Move(p, Onward(runner[p]))
     /\ UNCHANGED <<wallSecond, bronze, scoredTasks, dailyDigest, runLog, runsBegun, charged>>

\* The two writes of the gold stage.
WriteScores(p) ==
  /\ Staged(p, "score")
  /\ scoredTasks' = runner[p].hand["todoist"]
  /\ Move(p, [runner[p] EXCEPT !.stage = "digest"])
  /\ UNCHANGED <<wallSecond, bronze, silver, dailyDigest, runLog, runsBegun, charged>>

WriteDigest(p) ==
  /\ Staged(p, "digest")
  /\ dailyDigest' = runner[p].hand
  /\ Move(p, [runner[p] EXCEPT !.stage = "persist", !.status = "completed"])
  /\ UNCHANGED <<wallSecond, bronze, silver, scoredTasks, runLog, runsBegun, charged>>

\* An exception in a stage ends the run there; what it wrote stays.
StageFails(p) ==
  /\ runner[p].stage \in {"bronze", "read", "clean", "score", "digest"}
  /\ Move(p, [runner[p] EXCEPT !.stage = "persist", !.status = "failed"])
  /\ UNCHANGED <<wallSecond, layers, runLog, runsBegun, charged>>

\* _persist_run, in the finally clause, under an id that carries the second the run
\* began in; when it raises the caller sees the exception and not the run.
Persist(p) ==
  /\ Staged(p, "persist")
  /\ \/ runLog' = [runLog EXCEPT ![runner[p].from] = runner[p].status]
     \/ UNCHANGED runLog
  /\ Move(p, NoWork)
  /\ UNCHANGED <<wallSecond, layers, runsBegun, charged>>

\* The process dies in the middle of a run; a route's counter goes with it.
Perish(p) ==
  /\ ~Staged(p, "idle")
  /\ Move(p, NoWork)
  /\ charged' = [q \in Routes |-> IF q = p THEN 0 ELSE charged[q]]
  /\ UNCHANGED <<wallSecond, layers, runLog, runsBegun>>

NextSecond ==
  /\ wallSecond < LastSecond
  /\ wallSecond' = wallSecond + 1
  /\ UNCHANGED <<layers, runLog, runsBegun, charged, runner>>
------------------------------------------------------------------------------
MedallionNext ==
  \/ NextSecond
  \/ \E p \in Runners :
       \/ \E given \in SUBSET Sources : Trigger(p, given)
       \/ Ingest(p) \/ ReadBronze(p) \/ WriteSilver(p) \/ WriteScores(p) \/ WriteDigest(p)
       \/ StageFails(p) \/ Persist(p) \/ Perish(p)

MedallionSpec == MedallionInit /\ [][MedallionNext]_medallionVars
------------------------------------------------------------------------------
MedallionTypeOK ==
  /\ wallSecond \in 0..LastSecond
  /\ bronze \in [Sources -> [0..LastSecond -> Payloads]]
  /\ silver \in [Sources -> Payloads] /\ dailyDigest \in [Sources -> Payloads]
  /\ scoredTasks \in Payloads
  /\ runLog \in [0..LastSecond -> {"none", "completed", "failed"}]
  /\ charged \in [Routes -> 0..RunQuota]
  /\ \A p \in Runners :
       /\ runner[p].stage \in {"idle", "bronze", "read", "clean", "score", "digest", "persist"}
       /\ runner[p].hand \in [Sources -> Payloads]

\* execute's docstring: "Execute the full medallion pipeline".  A run no other run
\* overlapped and that reports success leaves layers that agree: what it was given
\* went all the way to the scored tasks and the digest, in whatever order sources
\* were missing, and although earlier runs failed or died half-way or had the same
\* second; the digest and the scored tasks are of the same tasks, and those of silver.
LoneRunIsCoherent ==
  \A p \in Runners :
    runner[p].status = "completed" /\ runner[p].alone =>
      /\ \A f \in runner[p].given : dailyDigest[f] = runner[p].serial
      /\ scoredTasks = dailyDigest["todoist"]
      /\ \A f \in Sources : dailyDigest[f] = silver[f]
==============================================================================
