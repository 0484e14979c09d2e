------------------------------ MODULE MCData ------------------------------
(* What the program makes of a user's data: the medallion layers, chunks,    *)
(* digests, the tidied board, Notion's copy of it, dashboards and briefings, *)
(* and when it is scheduled.  A behaviour is one of a single component, the  *)
(* focus, while the others stand still.                                      *)
EXTENDS Medallion, MCSilver, SqlMedallion, Chunker, Planner, MCBoard,
        NotionSync, Dashboard, Briefing, MCTenantScheduler

MCFeeds == <<"todoist", "calendar">>

MCTask(id, day, rank, labels, minutes, section) ==
  [id |-> id, due |-> day, priority |-> rank, labels |-> labels, minutes |-> minutes, section |-> section]
MCPlannerTasks ==
  {MCTask(1, -1, 1, {}, 60, "urgent"), MCTask(2, 0, 4, {"focus"}, 0, "high"),
   MCTask(3, NoDue, 2, {"focus"}, 30, ""), MCTask(4, 1, 3, {"weekend"}, 90, "doing"),
   MCTask(5, 9, 1, {}, 120, "blocked"), MCTask(6, NoDue, 3, {}, 0, "backlog"),
   MCTask(7, 0, 1, {}, 15, ""), MCTask(8, -9, 2, {"focus", "weekend"}, 60, "rejected"),
   MCTask(9, 3, 1, {"focus"}, 120, "")}
MCBookings == {<<0, 0>>, <<120, 30>>, <<0, 200>>}

\* Yesterday, today, tomorrow, which is a Saturday, and the week after.
MCDueDays == {-1, 0, 1, 9}
MCWeekendDays == {1}

MCSettings(proxy, demo, models, groq, local) ==
  [proxy |-> proxy, demo |-> demo, models |-> models, groq |-> groq, local |-> local]
MCSampleSettings ==
  {MCSettings("none", TRUE, <<"pro", "flash">>, TRUE, FALSE),
   MCSettings("good", TRUE, <<"pro", "flash">>, TRUE, TRUE),
   MCSettings("refused", TRUE, <<"pro">>, FALSE, FALSE),
   MCSettings("good", FALSE, <<"pro", "flash", "lite">>, TRUE, FALSE),
   MCSettings("refused", FALSE, <<>>, TRUE, TRUE),
   MCSettings("none", FALSE, <<>>, FALSE, FALSE)}
\* The settings with which every day of every task is tried.
MCFullSettings == MCSettings("good", TRUE, <<"pro", "flash">>, TRUE, TRUE)

\* A task without a due date, labels, duration or notes, and one with some.
MCWording(text, extra) == [text |-> text, extra |-> extra]
MCWordings == {MCWording("x", "none"), MCWording("y", "notes")}

\* The processes that sync take the same steps and no set of them is ordered.
MCSymmetry == Permutations(Syncers)

VARIABLE focus

vars == <<medallionVars, silverVars, sqlVars, sentences, plannerVars,
          boardVars, notionVars, dashboardVars, briefVars, schedulerVars,
          focus>>

Foci == {"medallion", "silver", "sql", "chunker", "planner", "board",
         "notion", "dashboard", "briefing", "schedules"}

DataInit ==
  /\ focus \in Foci
  /\ MedallionInit /\ SqlInit /\ ChunkerInit /\ DashboardInit
  /\ SilverInit
  /\ focus # "silver" => source = "todoist"
  /\ PlannerInit
  /\ focus # "planner" => midnight = 1 /\ booked = <<0, 0>>
  /\ BoardInit
  /\ focus # "board" => \A t \in BoardTasks : board[t] = [column |-> NoColumn, labels |-> {}]
  /\ NotionInit
  /\ focus # "notion" => \A t \in TodoIds : todoist[t] = NoTask
  /\ BriefingInit
  /\ focus = "briefing" => settings = MCFullSettings \/ due = [t \in BriefTasks |-> 0]
  /\ focus # "briefing" =>
       due = [t \in BriefTasks |-> 0] /\ settings = MCSettings("none", FALSE, <<>>, FALSE, FALSE)
  /\ SchedulerInit
  /\ focus # "schedules" =>
       now = MinuteOf(4, 17, 0) /\ \A t \in Tenants : config[t] = Busy

DataNext ==
  \/ /\ focus = "medallion" /\ MedallionNext
     /\ UNCHANGED <<silverVars, sqlVars, sentences, plannerVars, boardVars,
                      notionVars, dashboardVars, briefVars, schedulerVars,
                      focus>>
  \/ /\ focus = "silver" /\ SilverNext
     /\ UNCHANGED <<medallionVars, sqlVars, sentences, plannerVars,
                      boardVars, notionVars, dashboardVars, briefVars,
                      schedulerVars, focus>>
  \/ /\ focus = "sql" /\ SqlNext
     /\ UNCHANGED <<medallionVars, silverVars, sentences, plannerVars,
                      boardVars, notionVars, dashboardVars, briefVars,
                      schedulerVars, focus>>
  \/ /\ focus = "chunker" /\ ChunkerNext
     /\ UNCHANGED <<medallionVars, silverVars, sqlVars, plannerVars,
                      boardVars, notionVars, dashboardVars, briefVars,
                      schedulerVars, focus>>
  \/ /\ focus = "planner" /\ PlannerNext
     /\ UNCHANGED <<medallionVars, silverVars, sqlVars, sentences, boardVars,
                      notionVars, dashboardVars, briefVars, schedulerVars,
                      focus>>
  \/ /\ focus = "board" /\ BoardNext
     /\ UNCHANGED <<medallionVars, silverVars, sqlVars, sentences,
                      plannerVars, notionVars, dashboardVars, briefVars,
                      schedulerVars, focus>>
  \/ /\ focus = "notion" /\ NotionNext
     /\ UNCHANGED <<medallionVars, silverVars, sqlVars, sentences,
                      plannerVars, boardVars, dashboardVars, briefVars,
                      schedulerVars, focus>>
  \/ /\ focus = "dashboard" /\ DashboardNext
     /\ UNCHANGED <<medallionVars, silverVars, sqlVars, sentences,
                      plannerVars, boardVars, notionVars, briefVars,
                      schedulerVars, focus>>
  \/ /\ focus = "briefing" /\ BriefingNext
     /\ UNCHANGED <<medallionVars, silverVars, sqlVars, sentences,
                      plannerVars, boardVars, notionVars, dashboardVars,
                      schedulerVars, focus>>
  \/ /\ focus = "schedules" /\ SchedulerNext
     /\ UNCHANGED <<medallionVars, silverVars, sqlVars, sentences,
                      plannerVars, boardVars, notionVars, dashboardVars,
                      briefVars, focus>>

DataSpec == DataInit /\ [][DataNext]_vars
------------------------------------------------------------------------------
\* The types of the data, each stated in its module, when it is in focus.
DataTypeOK ==
  /\ focus = "medallion" => MedallionTypeOK
  /\ focus = "sql" => SqlTypeOK
  /\ focus = "board" => BoardTypeOK
  /\ focus = "notion" => NotionTypeOK
  /\ focus = "dashboard" => DashboardTypeOK
  /\ focus = "briefing" => BriefTypeOK
  /\ focus = "schedules" => SchedulerTypeOK
==============================================================================
