------------------------- MODULE MCTenantScheduler -------------------------
(* The scheduler on a Friday and a Sunday evening, with two schedules a     *)
(* tenant changes between.                                                  *)
EXTENDS TenantScheduler

CONSTANTS t1, t2

MCOne == {t1}
MCTwo == {t1, t2}

MinuteOf(day, hour, minute) == day * 1440 + hour * 60 + minute

MCMoments == {MinuteOf(4, 17, 0), MinuteOf(4, 17, 1), MinuteOf(6, 20, 0)}

Busy == [time |-> 1020, days |-> {4, 6}, alert |-> TRUE, interval |-> 1,
         weekend |-> TRUE, weekly |-> TRUE]
Late == [time |-> 1021, days |-> {4}, alert |-> FALSE, interval |-> 0,
         weekend |-> FALSE, weekly |-> FALSE]

MCConfigs == {Busy, Late}
============================================================================
