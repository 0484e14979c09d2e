-------------------------------- MODULE Board --------------------------------
(***************************************************************************)
(* brain/organizer.py and brain/todoist.py: a run of reorganize_board on a *)
(* Kanban board that its user goes on using.  The run fetches the tasks,   *)
(* then the sections, and then moves and labels one task after the other   *)
(* by what it fetched.                                                     *)
(***************************************************************************)
EXTENDS Integers, FiniteSets

CONSTANTS BoardTasks,    \* tasks: id, priority, due, recurring, hints
          Columns,       \* the sections the board has
          ReadOnly,      \* BRAIN_READ_ONLY, which a run never looks at
          LastDate,      \* bound: days that pass
          MaxEdits       \* bound: changes the user makes

NoDate == -99
NoColumn == "(no section)"
Planned == {"Daily Planner", "Weekly Planner", "Weekend Planner"}

ASSUME BoardAssumption ==
  /\ \A t \in BoardTasks : t.priority \in 1..4 /\ t.due \in Int /\ t.recurring \in BOOLEAN
  /\ \A t \in BoardTasks : "blocked" \notin t.hints   \* it is none of _LABEL_KEYWORDS
  /\ NoColumn \notin Columns /\ ReadOnly \in BOOLEAN /\ LastDate \in Nat /\ MaxEdits \in Nat

VARIABLES board,    \* each task's section and labels on the server
          date,     \* what date.today() says
          edits,    \* changes the user has made
          tidyRun   \* the run: what it fetched, where it is, what went wrong

boardVars == <<board, date, edits, tidyRun>>

NoTidyRun == [phase |-> "idle", dry |-> FALSE,
              fetched |-> [t \in BoardTasks |-> [column |-> NoColumn, labels |-> {}]],
              todo |-> {}, at |-> {}, moves |-> {}, labelled |-> {}, errors |-> 0, disturbed |-> FALSE]

BoardInit ==
  /\ board \in [BoardTasks -> [column : Columns \cup {NoColumn}, labels : {{}, {"blocked"}}]]
  /\ date = 0 /\ edits = 0
  /\ tidyRun = NoTidyRun
------------------------------------------------------------------------------
\* The section for a task's priority, 1 to 4.
ByPriority(t) ==
  <<IF t.due # NoDate THEN "To Do - Low" ELSE "Backlog",
    "To Do - Normal", "To Do - High", "To Do - Urgent/Today">>[t.priority]

\* _ideal_section_name, by what was fetched of the task and today's date.
IdealColumn(t, seen) ==
  LET left == t.due - date
      pressing == t.due # NoDate /\ (left <= 0 \/ (left <= 2 /\ t.priority >= 3))
  IN IF "blocked" \in seen.labels THEN "Blocked"
     ELSE IF t.recurring THEN "Ongoing recurring"
     ELSE IF seen.column \in Planned THEN NoColumn
     ELSE IF pressing THEN "To Do - Urgent/Today"
     ELSE ByPriority(t)

\* suggest_section: a move, unless the task is there or the board has no such section.
Misplaced(t, seen) == IdealColumn(t, seen) \in Columns /\ IdealColumn(t, seen) # seen.column

\* infer_labels, for tasks that have no label.
Unlabelled(t, seen) == seen.labels = {} /\ t.hints # {}

\* analyze_board, the part a run acts on and the counts of its summary.
Analysis(tasks) ==
  [perColumn |-> [c \in Columns \cup {NoColumn} |-> Cardinality({t \in BoardTasks : tasks[t].column = c})],
   overdue |-> {t \in BoardTasks : t.due # NoDate /\ t.due < date},
   misplaced |-> {t \in BoardTasks : Misplaced(t, tasks[t])},
   suggestions |-> {t \in BoardTasks : Unlabelled(t, tasks[t])}]
------------------------------------------------------------------------------
During(phase) == tidyRun.phase = phase

\* get_tasks: all pages of tasks, and the project's and section's names.
Fetch(dry) ==
  /\ During("idle")
  /\ tidyRun' = [NoTidyRun EXCEPT !.phase = IF BoardTasks = {} THEN "done" ELSE "move",
                                  !.dry = dry, !.fetched = board, !.todo = BoardTasks]
  /\ UNCHANGED <<board, date, edits>>

\* On to labelling task t, and from there to the next task.
After(r, t) ==
  IF r.phase = "move" THEN [r EXCEPT !.phase = "label", !.at = {t}]
  ELSE [r EXCEPT !.todo = @ \ {t}, !.at = {}, !.phase = IF r.todo = {t} THEN "done" ELSE "move"]

\* Slip: a request that fails is not noted.
RequestSilently(r, t, effect) ==
  (board' = (IF r.dry THEN board ELSE effect) \/ UNCHANGED board) /\ tidyRun' = After(r, t)

\* A dry run only lists the change; else the request to Todoist succeeds, or
\* raises and is noted among the errors.
Request(r, t, effect) ==
  \/ r.dry /\ UNCHANGED board /\ tidyRun' = After(r, t)
  \/ ~r.dry /\ board' = effect /\ tidyRun' = After(r, t)
  \/ ~r.dry /\ UNCHANGED board /\ tidyRun' = After([r EXCEPT !.errors = @ + 1], t)

\* The tasks come in the order of the server's answer, which may be any.
MoveTask(t) ==
  LET seen == tidyRun.fetched[t]
      column == IdealColumn(t, seen)
  IN /\ During("move") /\ t \in tidyRun.todo
     /\ IF Misplaced(t, seen)
        THEN Request([tidyRun EXCEPT !.moves = @ \cup {t}], t, [board EXCEPT ![t].column = column])
        ELSE UNCHANGED board /\ tidyRun' = After(tidyRun, t)
     /\ UNCHANGED <<date, edits>>

LabelTask(t) ==
  /\ During("label") /\ t \in tidyRun.at
  /\ IF Unlabelled(t, tidyRun.fetched[t])
     THEN Request([tidyRun EXCEPT !.labelled = @ \cup {t}], t, [board EXCEPT ![t].labels = t.hints])
     ELSE UNCHANGED board /\ tidyRun' = After(tidyRun, t)
  /\ UNCHANGED <<date, edits>>

\* The report is sent and the process ends.
Report ==
  /\ During("done")
  /\ tidyRun' = NoTidyRun
  /\ UNCHANGED <<board, date, edits>>

\* The user moves or relabels a task while the run is at it, or between runs.
Edit(t) ==
  /\ edits < MaxEdits
  /\ edits' = edits + 1
  /\ \E c \in Columns, ls \in {{}, {"blocked"}, t.hints} : board' = [board EXCEPT ![t] = [column |-> c, labels |-> ls]]
  /\ tidyRun' = [tidyRun EXCEPT !.disturbed = TRUE]
  /\ UNCHANGED date

NextDate ==
  /\ date < LastDate
  /\ date' = date + 1
  /\ tidyRun' = [tidyRun EXCEPT !.disturbed = TRUE]
  /\ UNCHANGED <<board, edits>>
------------------------------------------------------------------------------
BoardNext ==
  \/ \E dry \in BOOLEAN : Fetch(dry)
  \/ Report \/ NextDate
  \/ \E t \in BoardTasks : MoveTask(t) \/ LabelTask(t) \/ Edit(t)

BoardSpec == BoardInit /\ [][BoardNext]_boardVars
------------------------------------------------------------------------------
BoardTypeOK ==
  /\ \A t \in BoardTasks : board[t].column \in Columns \cup {NoColumn} /\ board[t].labels \subseteq t.hints \cup {"blocked"}
  /\ date \in 0..LastDate /\ edits \in 0..MaxEdits
  /\ tidyRun.phase \in {"idle", "move", "label", "done"} /\ tidyRun.at \subseteq tidyRun.todo

\* format_reorganize_report, "Board is already well-organized": a run that applies
\* its changes and reports no error, while nobody edited and the date stayed, leaves
\* a board an analysis has nothing to say of: labelling a task moves it nowhere
\* else, and the section a task is moved to does not suggest another.  What a dry
\* run lists is what the analysis of the untouched board finds.
LeavesItTidy ==
  During("done") /\ tidyRun.errors = 0 /\ ~tidyRun.disturbed =>
    LET found == Analysis(board)
    IN IF tidyRun.dry
       THEN board = tidyRun.fetched /\ found.misplaced = tidyRun.moves /\ found.suggestions = tidyRun.labelled
       ELSE found.misplaced = {} /\ found.suggestions = {}

\* config.py, "brain_read_only: True -> no writes back to Todoist", and docs/velaflow-book.md,
\* "Blocks all write operations to Todoist (move, update, create)": a run leaves the
\* board as it fetched it, unless the user changed it.
ReadOnlyLeavesBoard ==
  ReadOnly /\ ~During("idle") /\ ~tidyRun.disturbed => board = tidyRun.fetched
==============================================================================
