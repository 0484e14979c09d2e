---------------------------- MODULE JobLifecycle ----------------------------
(***************************************************************************)
(* What the task queue promises about one job, whatever its data           *)
(* structures: a job is submitted once, is run by one worker at a time, is *)
(* run again only while it has retries left, and ends done, dead-lettered, *)
(* or gone with the process that held the in-memory queue.                 *)
(***************************************************************************)
EXTENDS Naturals

CONSTANTS Messages,    \* job identifiers
          MaxRetries   \* QueueMessage.max_retries

VARIABLES status,      \* where each job stands
          tries        \* how many times each job was put back for a retry

vars == <<status, tries>>

Statuses == {"new", "queued", "running", "done", "dead", "gone"}

LifecycleInit ==
  /\ status = [m \in Messages |-> "new"]
  /\ tries = [m \in Messages |-> 0]

Move(m, from, to) ==
  /\ status[m] = from
  /\ status' = [status EXCEPT ![m] = to]

Submit(m) == Move(m, "new", "queued") /\ UNCHANGED tries

Start(m) == Move(m, "queued", "running") /\ UNCHANGED tries

Finish(m) == Move(m, "running", "done") /\ UNCHANGED tries

TryAgain(m) ==
  /\ Move(m, "running", "queued")
  /\ tries[m] < MaxRetries
  /\ tries' = [tries EXCEPT ![m] = @ + 1]

GiveUp(m) ==
  /\ Move(m, "running", "dead")
  /\ tries[m] >= MaxRetries
  /\ UNCHANGED tries

\* The process dies: nothing of the queue survives, settled jobs included.
Vanish ==
  /\ status' = [m \in Messages |-> IF status[m] = "new" THEN "new" ELSE "gone"]
  /\ UNCHANGED tries

LifecycleNext ==
  \/ \E m \in Messages :
       Submit(m) \/ Start(m) \/ Finish(m) \/ TryAgain(m) \/ GiveUp(m)
  \/ Vanish

LifecycleSpec == LifecycleInit /\ [][LifecycleNext]_vars
=============================================================================
