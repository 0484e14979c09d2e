----------------------------- MODULE MCTaskQueue -----------------------------
(* TaskQueue with three messages and two workers.           *)
EXTENDS TaskQueue

CONSTANTS m1, m2, m3, w1, w2

MCMessages == {m1, m2, m3}
MCWorkers == {w1, w2}
==============================================================================
