--------------------------- MODULE TenantScheduler ---------------------------
(***************************************************************************)
(* brain/queue/scheduler.py: a daemon thread of the worker process.  Once  *)
(* a minute, or a little less often, it lists the tenants and submits a    *)
(* job for each schedule that is due at that very minute (UTC) and was not *)
(* the last one submitted.  Meanwhile tenants change their configuration,  *)
(* the worker writes its records, and the wall clock is corrected.         *)
(***************************************************************************)
EXTENDS Integers

CONSTANTS Tenants,
          Configs,     \* the schedules a tenant may configure
          Moments,     \* bound: the minutes the clock shows, counted from a Monday
          Flaky        \* whether reading the tenants may fail for other reasons

Plans == {"daily", "overdue", "weekend", "weekly"}

ScheduleConfig ==
  [time : Nat,                    \* daily_digest_time; an impossible one is off
   days : SUBSET (0..6),          \* daily_digest_days, 0 is "mon"
   alert : BOOLEAN,               \* overdue_alert_enabled
   interval : Nat,                \* overdue_alert_interval_hours
   weekend : BOOLEAN,             \* weekend_planner_enabled
   weekly : BOOLEAN]              \* weekly_review_enabled

ASSUME SchedulerAssumption ==
  /\ Configs \in SUBSET ScheduleConfig
  /\ Moments \in SUBSET Nat
  /\ Moments # {} /\ Configs # {}
  /\ Flaky \in BOOLEAN

VARIABLES now,         \* the wall clock, in minutes
          running,     \* _running
          pc,          \* "asleep", "awake" (a tick is due) or "checking"
          at,          \* the minute the current tick was started in
          todo,        \* tenants this tick has listed and not yet checked
          listed,      \* their configuration as list_tenants read it
          config,      \* tenants/{id}.json: the schedule
          active,      \* the tenants whose record has is_active
          cluttered,   \* tenants/{id}/ holds records that are not tenants
          lastCheck,   \* _last_check: per tenant and plan the last slot, or none
          submitted    \* history: jobs submitted per tenant, plan and slot

tenantVars == <<config, active, cluttered>>
tickVars == <<at, todo, listed>>
schedulerVars == <<now, running, pc, tickVars, tenantVars, lastCheck, submitted>>

MinuteOfDay(m) == m % 1440
Day(m) == m \div 1440
Hour(m) == m \div 60
Weekday(m) == Day(m) % 7
Friday == 4
Sunday == 6

\* The keys daily_{date}, overdue_{date}_{hour}, weekend_{date}, weekly_{date}.
\* A key is the only one of its plan that is remembered.
Slot(plan, m) == IF plan = "overdue" THEN Hour(m) ELSE Day(m)

Slots == {Slot(p, m) : p \in Plans, m \in Moments}

NoSlot == -1

\* _check_tenant: which plans a configuration makes due at a minute.
IsDue(plan, c, m) ==
  CASE plan = "daily" -> c.time = MinuteOfDay(m) /\ Weekday(m) \in c.days
    [] plan = "overdue" -> /\ c.alert /\ c.interval > 0
                           /\ (MinuteOfDay(m) \div 60) % c.interval = 0 /\ m % 60 = 0
    [] plan = "weekend" -> c.weekend /\ Weekday(m) = Friday /\ MinuteOfDay(m) = 1020
    [] OTHER -> c.weekly /\ Weekday(m) = Sunday /\ MinuteOfDay(m) = 1200
------------------------------------------------------------------------------
SchedulerInit ==
  /\ now \in Moments
  /\ running = TRUE
  /\ pc = "awake"
  /\ at = now
  /\ todo = {}
  /\ config \in [Tenants -> Configs]
  /\ listed = config
  /\ active = Tenants
  /\ cluttered = FALSE
  /\ lastCheck = [t \in Tenants |-> [p \in Plans |-> NoSlot]]
  /\ submitted = [t \in Tenants |-> [p \in Plans |-> [s \in Slots |-> 0]]]

\* list_tenants reads every JSON file below tenants/; one that is not a tenant
\* record makes _from_dict raise.  An inactive tenant is skipped.
ListTenants ==
  /\ pc = "awake"
  /\ ~cluttered
  /\ pc' = "checking"
  /\ at' = now
  /\ todo' = active
  /\ listed' = config
  /\ UNCHANGED <<now, running, tenantVars, lastCheck, submitted>>

\* "Scheduler tick failed": the loop logs it and sleeps; no tenant was checked.
TickFails ==
  /\ pc = "awake"
  /\ cluttered \/ Flaky
  /\ pc' = "asleep"
  /\ at' = now
  /\ UNCHANGED <<now, running, todo, listed, tenantVars, lastCheck, submitted>>

\* Slip: no memory of what was submitted.
DueForgetful(t) == {p \in Plans : IsDue(p, listed[t], at)}

\* The plans of a tenant for which _check_tenant submits a job.
Due(t) == {p \in Plans : /\ IsDue(p, listed[t], at)
                         /\ lastCheck[t][p] # Slot(p, at)}

\* _check_tenant: each due plan is marked and its job enqueued.
CheckTenant(t) ==
  /\ pc = "checking"
  /\ t \in todo
  /\ todo' = todo \ {t}
  /\ lastCheck' = [lastCheck EXCEPT ![t] =
                     [p \in Plans |-> IF p \in Due(t) THEN Slot(p, at) ELSE @[p]]]
  /\ submitted' = [submitted EXCEPT ![t] =
                     [p \in Plans |-> [s \in Slots |->
                        IF p \in Due(t) /\ s = Slot(p, at) THEN @[p][s] + 1 ELSE @[p][s]]]]
  /\ UNCHANGED <<now, running, pc, at, listed, tenantVars>>

TickEnds ==
  /\ pc = "checking"
  /\ todo = {}
  /\ pc' = "asleep"
  /\ UNCHANGED <<now, running, tickVars, tenantVars, lastCheck, submitted>>

\* time.sleep(60) is over and _running is looked at.  The clock need not show
\* another minute: it may have been corrected meanwhile.
Wake ==
  /\ pc = "asleep"
  /\ pc' = IF running THEN "awake" ELSE "ended"
  /\ UNCHANGED <<now, running, tickVars, tenantVars, lastCheck, submitted>>
------------------------------------------------------------------------------
\* The clock goes on; whoever sleeps may find more than a minute gone.
TimePasses ==
  /\ now' \in {m \in Moments : m > now}
  /\ UNCHANGED <<running, pc, tickVars, tenantVars, lastCheck, submitted>>

\* The clock is set back within the hour (an NTP correction).
ClockCorrected ==
  /\ now' \in {m \in Moments : m < now /\ Hour(m) = Hour(now)}
  /\ UNCHANGED <<running, pc, tickVars, tenantVars, lastCheck, submitted>>

UpdateConfig(t) ==
  /\ config' \in {[config EXCEPT ![t] = c] : c \in Configs}
  /\ UNCHANGED <<now, running, pc, tickVars, active, cluttered, lastCheck, submitted>>

DeactivateTenant(t) ==
  /\ active' = active \ {t}
  /\ UNCHANGED <<now, running, pc, tickVars, config, cluttered, lastCheck, submitted>>

\* The worker carried out a submitted job and wrote the tenant's
\* daily_usage.json and job result, below tenants/ too.
WorkerWrites ==
  /\ \E t \in Tenants, p \in Plans : lastCheck[t][p] # NoSlot
  /\ cluttered' = TRUE
  /\ UNCHANGED <<now, running, pc, tickVars, config, active, lastCheck, submitted>>

Stop ==
  /\ running' = FALSE
  /\ UNCHANGED <<now, pc, tickVars, tenantVars, lastCheck, submitted>>

Tick == ListTenants \/ TickFails \/ (\E t \in Tenants : CheckTenant(t)) \/ TickEnds \/ Wake

SchedulerNext ==
  \/ Tick
  \/ TimePasses \/ ClockCorrected
  \/ \E t \in Tenants : UpdateConfig(t) \/ DeactivateTenant(t)
  \/ WorkerWrites \/ Stop

SchedulerSpec == SchedulerInit /\ [][SchedulerNext]_schedulerVars
------------------------------------------------------------------------------
SchedulerTypeOK ==
  /\ now \in Moments
  /\ running \in BOOLEAN
  /\ pc \in {"asleep", "awake", "checking", "ended"}
  /\ at \in Moments
  /\ todo \in SUBSET Tenants
  /\ listed \in [Tenants -> Configs]
  /\ config \in [Tenants -> Configs]
  /\ active \in SUBSET Tenants
  /\ cluttered \in BOOLEAN
  /\ lastCheck \in [Tenants -> [Plans -> Slots \cup {NoSlot}]]
  /\ submitted \in [Tenants -> [Plans -> [Slots -> Nat]]]

\* A tenant gets each day's digest, each hour's alert and each weekend or weekly
\* job at most once from a process, however often it changes its schedule and
\* although the clock may repeat a minute: _last_check remembers one key of each
\* plan, and that is enough as long as corrections stay within the hour.
SubmittedOnce ==
  \A t \in Tenants, p \in Plans, s \in Slots : submitted[t][p][s] <= 1

\* A slot counts as served only if its job was enqueued: the remembered key is
\* never of a slot that was skipped, so no failed tick can suppress a job.
MarkedIsSubmitted ==
  \A t \in Tenants, p \in Plans :
    lastCheck[t][p] # NoSlot => submitted[t][p][lastCheck[t][p]] > 0

\* README.md: "queues each tenant's jobs at their configured time": when a tick
\* is over, what was due for an active tenant in its minute has been submitted.
TickServesTheSchedule ==
  [][pc' = "asleep" /\ pc # "asleep" =>
       \A t \in active, p \in Plans :
         IsDue(p, config[t], at') /\ config[t] = listed[t]
           => submitted'[t][p][Slot(p, at')] > 0]_schedulerVars
==============================================================================
