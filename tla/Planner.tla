------------------------------- MODULE Planner -------------------------------
(***************************************************************************)
(* brain/planner.py: scores, the ranking, and the digests built from it.   *)
(* Days are counted from the one a digest is built on.  A digest reads the *)
(* date once for its sections, but score_task reads it again for each task *)
(* so midnight may pass in the middle of a ranking.                        *)
(***************************************************************************)
EXTENDS Integers, Sequences, FiniteSets, SequencesExt, FiniteSetsExt

CONSTANTS SampleTasks,   \* the tasks a list is made of; their ids are their contents' order
          Bookings,      \* minutes booked on Saturday and on Sunday
          MaxTasks,      \* bound: tasks in the list
          TopLimit, OverdueLimit, WeekendLimit, CapacityHours, DefaultMinutes

NoDue == 999             \* sorts like date.max
NoMinutes == 0           \* no duration, or none in the source

ASSUME PlannerAssumption ==
  /\ \A t \in SampleTasks :
       t.id \in Nat /\ t.due \in Int /\ t.priority \in 1..4 /\ t.labels \subseteq {"focus", "weekend"} /\ t.minutes \in Nat
  /\ \A b \in Bookings : b \in Nat \X Nat
  /\ {MaxTasks, TopLimit, OverdueLimit, WeekendLimit, CapacityHours, DefaultMinutes} \subseteq Nat

VARIABLES taskList,   \* the tasks the planner is given
          midnight,   \* the first task that is scored on the next day
          booked      \* the weekend's events

plannerVars == <<taskList, midnight, booked>>

PlannerInit ==
  /\ taskList = <<>>
  /\ midnight \in 1..MaxTasks + 1
  /\ booked \in Bookings

AddTask(t) ==
  /\ Len(taskList) < MaxTasks
  /\ taskList' = Append(taskList, t)
  /\ UNCHANGED <<midnight, booked>>

PlannerNext == \E t \in SampleTasks : AddTask(t)

PlannerSpec == PlannerInit /\ [][PlannerNext]_plannerVars
------------------------------------------------------------------------------
DuePoints(t, day) ==
  LET left == t.due - day
  IN CASE t.due = NoDue -> 0
       [] left < 0 -> 20 * Min({-left, 7})
       [] left = 0 -> 25
       [] left = 1 -> 16
       [] left = 2 -> 8
       [] left = 3 -> 4
       [] OTHER -> 0

Minutes(t) == IF t.minutes = NoMinutes THEN DefaultMinutes ELSE t.minutes

DurationPoints(t) == IF Minutes(t) <= 30 THEN 4 ELSE IF Minutes(t) >= 120 THEN -6 ELSE 0

\* The column of the board; the first word of this order that its name contains.
SectionPoints(t) ==
  CASE t.section = "urgent" -> 12
    [] t.section = "doing" -> 10
    [] t.section = "high" -> 6
    [] t.section = "blocked" -> -20
    [] t.section = "rejected" -> -30
    [] t.section = "backlog" -> IF t.priority >= 3 THEN 5 ELSE -2
    [] OTHER -> 0

Score(t, day, weekend) ==
  DuePoints(t, day) + <<0, 4, 10, 18>>[t.priority] + DurationPoints(t) + SectionPoints(t)
  + (IF "focus" \in t.labels THEN 14 ELSE IF t.due = NoDue THEN -4 ELSE 0)
  + (IF weekend /\ "weekend" \in t.labels THEN 10 ELSE 0)

\* The sort key, negations turned into a comparison; a sort leaves what is equal in the
\* order of the list.
Ahead(a, b) ==
  \/ a.score > b.score
  \/ a.score = b.score /\ a.task.due < b.task.due
  \/ a.score = b.score /\ a.task.due = b.task.due /\ a.task.priority > b.task.priority
  \/ /\ a.score = b.score /\ a.task.due = b.task.due /\ a.task.priority = b.task.priority
     /\ a.task.id < b.task.id \/ (a.task.id = b.task.id /\ a.pos < b.pos)

\* rank_tasks: scored one after the other; the order is Ahead's.
RankTasks(ts, weekend) ==
  {[pos |-> i, task |-> ts[i], score |-> Score(ts[i], IF i < midnight THEN 0 ELSE 1, weekend)] : i \in DOMAIN ts}

\* section[:n] of a section that is sorted.
FirstOf(section, n, before(_, _)) == {s \in section : Cardinality({u \in section : before(u, s)}) < n}
ShownOf(section, n) == FirstOf(section, n, Ahead)
------------------------------------------------------------------------------
\* The sections of build_daily_digest; the date is the one read at its start.
OverdueOf(ranked) == {s \in ranked : s.task.due < 0}
DueTodayOf(ranked) == {s \in ranked : s.task.due = 0}
FocusOf(ranked) == {s \in ranked : "focus" \in s.task.labels} \ (OverdueOf(ranked) \cup DueTodayOf(ranked))

\* Whatever has a later date, for all that the heading speaks of seven days.
UpcomingOf(ranked) == {s \in ranked : s.task.due # NoDue /\ s.task.due > 0} \ FocusOf(ranked)

\* The first of each id.
OnceEach(ranked) == {s \in ranked : \A u \in ranked : Ahead(u, s) => u.task.id # s.task.id}

\* build_daily_digest: the counts of its subject and the tasks of its sections.
DailyDigest(ts) ==
  LET ranked == RankTasks(ts, FALSE)
  IN [overdueCount |-> Cardinality(OverdueOf(ranked)), todayCount |-> Cardinality(DueTodayOf(ranked)),
      top |-> ShownOf(OnceEach(ranked), TopLimit), overdue |-> ShownOf(OverdueOf(ranked), OverdueLimit),
      dueToday |-> DueTodayOf(ranked), focus |-> ShownOf(FocusOf(ranked), 5),
      upcoming |-> ShownOf(UpcomingOf(ranked), 7)]

\* build_weekly_review: what falls behind, the week that comes, the focus tasks.
WeeklyReview(ts) ==
  LET ranked == RankTasks(ts, FALSE)
  IN [overdueCount |-> Cardinality(OverdueOf(ranked)), fallingBehind |-> ShownOf(OverdueOf(ranked), 10),
      nextWeek |-> ShownOf({s \in ranked : s.task.due \in 1..7}, 7),
      focus |-> ShownOf({s \in ranked : "focus" \in s.task.labels}, 5)]

\* build_overdue_alert: the overdue tasks, oldest first, ten of them listed.
Older(a, b) == a.task.due < b.task.due \/ (a.task.due = b.task.due /\ a.pos < b.pos)
AlertOf(ts) == FirstOf({[pos |-> i, task |-> ts[i]] : i \in {j \in DOMAIN ts : ts[j].due < 0}}, 10, Older)

\* Free minutes of a day.
Free(b) == Max({0, CapacityHours * 60 - b})

\* Slip: a focus task takes Saturday if there is any room.
PlaceEagerly(plan, s) ==
  LET n == Minutes(s.task)
  IN IF plan.full THEN plan
     ELSE IF "focus" \in s.task.labels /\ plan.satUsed < Free(booked[1])
     THEN [plan EXCEPT !.sat = Append(@, s), !.satUsed = @ + n]
     ELSE IF plan.sunUsed + n <= Free(booked[2])
     THEN [plan EXCEPT !.sun = Append(@, s), !.sunUsed = @ + n]
     ELSE [plan EXCEPT !.overflow = Append(@, s)]

\* One task of build_weekend_digest's loop: Saturday first for focus tasks, Sunday
\* first for the others; the loop ends when WeekendLimit tasks have a place.
Place(plan, s) ==
  LET n == Minutes(s.task)
      fitsSat == plan.satUsed + n <= Free(booked[1])
      fitsSun == plan.sunUsed + n <= Free(booked[2])
      onSat == [plan EXCEPT !.sat = Append(@, s), !.satUsed = @ + n]
      onSun == [plan EXCEPT !.sun = Append(@, s), !.sunUsed = @ + n]
      placed == IF "focus" \in s.task.labels /\ fitsSat THEN onSat
                ELSE IF fitsSun THEN onSun
                ELSE IF fitsSat THEN onSat
                ELSE [plan EXCEPT !.overflow = Append(@, s)]
  IN IF plan.full THEN plan
     ELSE [placed EXCEPT !.full = Len(placed.sat) + Len(placed.sun) >= WeekendLimit]

NoPlan == [sat |-> <<>>, sun |-> <<>>, overflow |-> <<>>, satUsed |-> 0, sunUsed |-> 0, full |-> FALSE]

\* Of some tasks, the loop comes to this one last.
LastOf(some) == CHOOSE s \in some : \A u \in some : u = s \/ Ahead(u, s)

WeekendPlan(ts) ==
  MapThenFoldSet(LAMBDA s, plan : Place(plan, s), NoPlan, LAMBDA s : s, LastOf,
                 ShownOf(RankTasks(ts, TRUE), 2 * WeekendLimit))
------------------------------------------------------------------------------
\* No task twice in the list, as in the sources' own.
Distinct == \A i, j \in DOMAIN taskList : i # j => taskList[i].id # taskList[j].id

\* n tasks of a section are shown, and they are its first.
Shows(shown, section, n) ==
  /\ shown \subseteq section /\ Cardinality(shown) = Min({n, Cardinality(section)})
  /\ \A s \in shown, u \in section \ shown : Ahead(s, u)

\* build_daily_digest, comment "merged and deduplicated".  Whether or not midnight
\* passes while the tasks are scored, no task is in two sections, a section shows the
\* first of its tasks, and a dated or focus task is in none only if its section is
\* full; the top is that of the ranking; what the review announces for the week is in
\* the digest unless a section is full, its focus tasks unless they are overdue; alert
\* and review list as many tasks, the same if there are ten.
DigestIsConsistent ==
  LET d == DailyDigest(taskList)
      r == WeeklyReview(taskList)
      ranked == RankTasks(taskList, FALSE)
      sections == <<d.overdue, d.dueToday, d.focus, d.upcoming>>
      shown == UNION {sections[i] : i \in 1..4}
  IN /\ \A i, j \in 1..4 : i # j => sections[i] \cap sections[j] = {}
     /\ Shows(d.overdue, OverdueOf(ranked), OverdueLimit)
     /\ Shows(d.focus, FocusOf(ranked), 5) /\ Shows(d.upcoming, UpcomingOf(ranked), 7)
     /\ \A s \in ranked \ shown :
          \/ s.task.due < 0 /\ Cardinality(d.overdue) = OverdueLimit
          \/ s.task.due > 0 /\ "focus" \in s.task.labels /\ Cardinality(d.focus) = 5
          \/ s.task.due > 0 /\ "focus" \notin s.task.labels /\ Cardinality(d.upcoming) = 7
          \/ s.task.due = NoDue /\ "focus" \notin s.task.labels
     /\ Distinct => Shows(d.top, ranked, TopLimit)
     /\ r.nextWeek \subseteq shown \/ Cardinality(d.focus) = 5 \/ Cardinality(d.upcoming) = 7
     /\ r.focus \ OverdueOf(ranked) \subseteq shown
     /\ Cardinality(AlertOf(taskList)) = Cardinality(r.fallingBehind)
     /\ d.overdueCount <= 10 => {s.pos : s \in AlertOf(taskList)} = {s.pos : s \in r.fallingBehind}

\* build_weekend_digest, "Tasks are scheduled around events": neither day holds more
\* than is free, no task is placed twice, and a task is deferred only if it fits on
\* neither day as they are in the end.
WeekendFits ==
  LET plan == WeekendPlan(taskList)
      Total(day) == FoldLeft(LAMBDA x, y : x + y, 0, [k \in DOMAIN day |-> Minutes(day[k].task)])
  IN /\ Total(plan.sat) <= Free(booked[1]) /\ Total(plan.sun) <= Free(booked[2])
     /\ Len(plan.sat) + Len(plan.sun) <= WeekendLimit
     /\ IsInjective(plan.sat \o plan.sun)
     /\ \A s \in ToSet(plan.overflow) :
          /\ Total(plan.sat) + Minutes(s.task) > Free(booked[1])
          /\ Total(plan.sun) + Minutes(s.task) > Free(booked[2])

\* Both digests of a list of tasks, which the command line and the worker send.
PlansAreConsistent == DigestIsConsistent /\ WeekendFits

\* The page the installer lays out for the plan (notion.py): "Hard-capped at
\* {weekend_capacity_hours}h total".
WeekendHardCap ==
  LET plan == WeekendPlan(taskList) IN plan.satUsed + plan.sunUsed <= CapacityHours * 60

\* The heading "COMING UP (next 7 days)".
UpcomingIsNear == \A s \in DailyDigest(taskList).upcoming : s.task.due <= 7
==============================================================================
