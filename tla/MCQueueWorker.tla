--------------------------- MODULE MCQueueWorker ---------------------------
(* QueueWorker on small sets of jobs.  Each configuration takes one list of   *)
(* jobs, as the kinds and the tenants of messages 1, 2, ...                   *)
EXTENDS QueueWorker, TLC

CONSTANTS w1, w2, plain, demo, free, broken, unknown

MCOneWorker == {w1}
MCTwoWorkers == {w1, w2}
MCWorkerSymmetry == Permutations(MCTwoWorkers)

MCTenants == {plain, demo, free, broken, unknown}
MCPlain == {plain}
MCDemo == {demo}
MCNone == {}
MCUnknown == {unknown}
MCRagTier == {plain, demo, broken, unknown}
MCLinked == {plain, broken}
MCUnreadable == {broken}

MCTwo == 1..2
MCThree == 1..3
MCFour == 1..4

\* Metered jobs of one tenant, under either counter or both.
MCRunKinds == <<"pipeline_run", "digest_generate", "pipeline_run">>
MCMixedKinds == <<"pipeline_run", "pipeline_run", "llm_generate", "rag_query">>
MCLivingKinds == <<"pipeline_run", "digest_generate">>
MCAllPlain == [m \in Messages |-> plain]
MCAllDemo == [m \in Messages |-> demo]

\* A run, a job that charges nothing, one of a tenant that does not exist and one
\* whose handler is a stub.
MCCrashKinds == <<"pipeline_run", "rag_edit", "llm_generate", "board_analysis">>
MCCrashTenants == <<plain, plain, unknown, plain>>

MCTwoRunsOneCall == [c \in Counters |-> IF c = "runs" THEN 2 ELSE 1]
MCOneEach == [c \in Counters |-> 1]
=============================================================================
