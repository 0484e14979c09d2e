------------------------------ MODULE Dashboard ------------------------------
(***************************************************************************)
(* `brain notion-setup` and `brain notion-rebuild`: the planner sections   *)
(* of the Todoist board, the pages and databases of the Notion dashboard,  *)
(* and the new layout of its root page and command center.  Every step is  *)
(* one request, and when one raises the command ends: what was made stays, *)
(* and its ids are only printed when all of it is there.                   *)
(***************************************************************************)
EXTENDS Integers, Sequences

CONSTANTS MaxSetups, MaxRebuilds   \* bounds: how often the commands are run

ASSUME DashboardAssumption == MaxSetups \in Nat /\ MaxRebuilds \in Nat

Planners == {"Weekend Planner", "Weekly Planner", "Daily Planner"}
WithDatabase == {"daily", "weekly", "weekend", "board"}
Parts == WithDatabase \cup {"command", "blog"}

VARIABLES sections,   \* how many sections of each planner's name the board has
          made,       \* pages and databases: which, and the setup that made it
          content,    \* how many times its layout is on each page
          known,      \* the setup whose ids are in the configuration; 0 for none
          command,    \* the command that is running and the step it is at
          setups, rebuilds

dashboardVars == <<sections, made, content, known, command, setups, rebuilds>>

Setups == 0..MaxSetups
Root == <<"root", 0>>
Pages == {Root} \cup Parts \X Setups

NotRunning == [name |-> "none", at |-> 1, seen |-> {}, failures |-> 0]

DashboardInit ==
  /\ sections = [p \in Planners |-> 0]
  /\ made = {}
  /\ content = [p \in Pages |-> 0]
  /\ known = 0
  /\ command = NotRunning
  /\ setups = 0 /\ rebuilds = 0

Step(do, on) == [do |-> do, on |-> on]

\* _create_planner_page and _create_board_page: the layout, then the database.
PlannerPage(part) == <<Step("page", part), Step("fill", part), Step("database", part)>>
PlainPage(part) == <<Step("page", part), Step("fill", part)>>

\* setup_dashboard: the root page, then the parts in their order.
DashboardSteps ==
  <<Step("fill", "root")>> \o PlainPage("command") \o PlannerPage("daily") \o PlannerPage("weekly")
    \o PlannerPage("weekend") \o PlannerPage("board") \o PlainPage("blog")

\* cmd_notion_setup: the sections that are missing, the dashboard, the ids.
SetupSteps ==
  <<Step("sections", "board"), Step("section", "Weekend Planner"), Step("section", "Weekly Planner"),
    Step("section", "Daily Planner")>>
  \o DashboardSteps \o <<Step("print", "ids")>>

\* rebuild_dashboard of the configured pages.
RebuildSteps ==
  <<Step("archive", "root"), Step("fill", "root"), Step("archive", "command"), Step("fill", "command"),
    Step("stamp", "command")>>

StepsOf(name) ==
  CASE name = "none" -> <<>>
    [] name = "setup" -> SetupSteps
    [] name = "rebuild" -> RebuildSteps
------------------------------------------------------------------------------
Setup ==
  /\ command = NotRunning /\ setups < MaxSetups
  /\ setups' = setups + 1
  /\ command' = [NotRunning EXCEPT !.name = "setup"]
  /\ UNCHANGED <<sections, made, content, known, rebuilds>>

Rebuild ==
  /\ command = NotRunning /\ rebuilds < MaxRebuilds /\ known # 0
  /\ rebuilds' = rebuilds + 1
  /\ command' = [NotRunning EXCEPT !.name = "rebuild"]
  /\ UNCHANGED <<sections, made, content, known, setups>>

Through == command.at > Len(StepsOf(command.name))
Current == StepsOf(command.name)[command.at]
Next_(do) == ~Through /\ Current.do = do
Onwards == [command EXCEPT !.at = @ + 1]

\* The page a step is about: those of the running setup or of the configured one.
Page(part) == IF part = "root" THEN Root ELSE <<part, IF command.name = "setup" THEN setups ELSE known>>

\* Slip: the sections are not looked up.
ForgetSections ==
  /\ Next_("sections")
  /\ command' = Onwards
  /\ UNCHANGED <<sections, made, content, known, setups, rebuilds>>

\* get_sections: the names that exist.
ReadSections ==
  /\ Next_("sections")
  /\ command' = [Onwards EXCEPT !.seen = {p \in Planners : sections[p] > 0}]
  /\ UNCHANGED <<sections, made, content, known, setups, rebuilds>>

\* create_section, if it was not among them.
CreateSection ==
  LET p == Current.on
  IN /\ Next_("section")
     /\ sections' = IF p \in command.seen THEN sections ELSE [sections EXCEPT ![p] = @ + 1]
     /\ command' \in {Onwards, NotRunning}
     /\ UNCHANGED <<made, content, known, setups, rebuilds>>

\* create_page and create_database; the answer with the id may get lost.
CreatePart ==
  /\ Next_("page") \/ Next_("database")
  /\ made' = made \cup {<<Current.do, Current.on, setups>>}
  /\ command' \in {Onwards, NotRunning}
  /\ UNCHANGED <<sections, content, known, setups, rebuilds>>

\* append_blocks: the layout of a page is less than one request's worth of blocks.
Fill ==
  /\ Next_("fill")
  /\ content' = [content EXCEPT ![Page(Current.on)] = @ + 1]
  /\ command' \in {Onwards, NotRunning}
  /\ UNCHANGED <<sections, made, known, setups, rebuilds>>

\* archive_blocks: all but child pages and databases, a block that resists being
\* logged only.
Archive ==
  LET p == Page(Current.on)
  IN /\ Next_("archive")
     /\ \/ content' = [content EXCEPT ![p] = 0] /\ command' = Onwards
        \/ UNCHANGED content /\ command' = [Onwards EXCEPT !.failures = @ + 1]
     /\ UNCHANGED <<sections, made, known, setups, rebuilds>>

\* update_sync_status: best effort.
Stamp ==
  /\ Next_("stamp")
  /\ command' = Onwards
  /\ UNCHANGED <<sections, made, content, known, setups, rebuilds>>

\* The ids are printed, and the user configures them.
PrintIds ==
  /\ Next_("print")
  /\ known' = setups
  /\ command' = Onwards
  /\ UNCHANGED <<sections, made, content, setups, rebuilds>>

\* The command is through, or a request raises before it did anything.
EndCommand ==
  /\ command # NotRunning
  /\ command' = NotRunning
  /\ UNCHANGED <<sections, made, content, known, setups, rebuilds>>

DashboardNext ==
  \/ Setup \/ Rebuild \/ ReadSections \/ CreateSection \/ CreatePart \/ Fill \/ Archive \/ Stamp \/ PrintIds \/ EndCommand

DashboardSpec == DashboardInit /\ [][DashboardNext]_dashboardVars
------------------------------------------------------------------------------
DashboardTypeOK ==
  /\ sections \in [Planners -> 0..MaxSetups]
  /\ made \subseteq {"page", "database"} \X Parts \X Setups
  /\ content \in [Pages -> 0..MaxSetups + MaxRebuilds]
  /\ known \in Setups

\* cmd_notion_setup, "Existing section IDs (preserve if already created)", "SETUP
\* COMPLETE", and rebuild_dashboard, "Safe to run on an existing dashboard": however
\* often a setup fails and is run again the board has each planner's section once;
\* what the configuration names is complete, whatever a rebuild does or leaves half
\* done; and a rebuild that archived everything leaves each layout there once.
DashboardIsWhole ==
  /\ \A p \in Planners : sections[p] <= 1 /\ (known # 0 => sections[p] = 1)
  /\ known # 0 =>
       /\ \A part \in Parts : <<"page", part, known>> \in made
       /\ \A part \in WithDatabase : <<"database", part, known>> \in made /\ content[<<part, known>>] = 1
  /\ command.name = "rebuild" /\ Through /\ command.failures = 0 =>
       content[Root] = 1 /\ content[<<"command", known>>] = 1
==============================================================================
