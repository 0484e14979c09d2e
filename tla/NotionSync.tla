------------------------------ MODULE NotionSync ------------------------------
(***************************************************************************)
(* `brain notion-sync --full`: cmd_notion_sync of brain/cli.py with the    *)
(* requests of brain/notion.py and brain/todoist.py it makes.  Todoist's   *)
(* tasks go to the database of one planner section and to that of the      *)
(* whole board, then the planner's items without a Todoist id go the other *)
(* way.  The user goes on using both; the answer to a request may get lost *)
(* although the server did it; cron and the user may start syncs at once.  *)
(***************************************************************************)
EXTENDS Integers, FiniteSets

CONSTANTS Syncers,      \* processes that run the command
          TodoIds,      \* bound: the ids of tasks
          PageIds,      \* bound: the ids of Notion items, in the order they are given
          Texts,        \* what a task always has: name, priority, URL
          Extras,       \* what it may lack: due date, labels, duration, notes
          Wordings,     \* bound: the texts and extras the user gives together
          MaxSyncs, MaxChanges   \* bounds: syncs begun, changes of the user

NoId == "no Todoist id"
NoExtra == "none"
Nowhere == "nowhere"

ASSUME NotionSyncAssumption ==
  /\ NoId \notin TodoIds /\ PageIds \subseteq Nat
  /\ NoExtra \notin Extras /\ Wordings \subseteq [text : Texts, extra : Extras \cup {NoExtra}]
  /\ MaxSyncs \in Nat /\ MaxChanges \in Nat

VARIABLES todoist,    \* Todoist: each task's section, text and extra
          page,       \* Notion: each item's database, Todoist id, text, extra and status
          typed,      \* what the user typed in an item last, until the task is edited
          syncer,     \* what each process has read and still has to do
          syncs, changes,
          overlapped  \* two syncs have run at once

notionVars == <<todoist, page, typed, syncer, syncs, changes, overlapped>>
servers == <<todoist, page, typed>>

NoTask == [section |-> Nowhere, text |-> Nowhere, extra |-> NoExtra]
NoPage == [db |-> Nowhere, tid |-> NoId, text |-> Nowhere, extra |-> NoExtra, done |-> FALSE]
TaskIn(section, w) == [section |-> section, text |-> w.text, extra |-> w.extra]

\* phase; tasks: the tasks fetched, by id; found: the item existing_map has for a
\* task; left: ids or items still to go through; clean: nothing failed or changed.
AtRest == [phase |-> "idle", tasks |-> [t \in TodoIds |-> NoTask], found |-> {}, left |-> {},
           stale |-> {}, pushed |-> NoId, clean |-> TRUE]

NotionInit ==
  /\ todoist \in [TodoIds -> {NoTask} \cup {TaskIn("planner", w) : w \in Wordings}]
  /\ page = [p \in PageIds |-> NoPage]
  /\ typed = [p \in PageIds |-> Nowhere]
  /\ syncer = [s \in Syncers |-> AtRest]
  /\ syncs = 0 /\ changes = 0 /\ overlapped = FALSE

In(s, phase) == syncer[s].phase = phase
Set(s, r) == syncer' = [syncer EXCEPT ![s] = r]

\* Whatever the user changes may be between what a running sync read.
Disturbed == syncer' = [s \in Syncers |-> [syncer[s] EXCEPT !.clean = FALSE]]

\* The id the server gives a new item, if the bound leaves one.
NewPage == {p \in PageIds : page[p] = NoPage /\ \A q \in PageIds : page[q] = NoPage => p <= q}

Items(db) == {p \in PageIds : page[p].db = db}
------------------------------------------------------------------------------
StartSync(s) ==
  /\ In(s, "idle") /\ syncs < MaxSyncs
  /\ syncs' = syncs + 1
  /\ Set(s, [AtRest EXCEPT !.phase = "planner"])
  /\ overlapped' = (overlapped \/ \E r \in Syncers \ {s} : ~In(r, "idle"))
  /\ UNCHANGED <<servers, changes>>

\* get_tasks: the planner's section, or the whole board and its section names.
FetchTasks(s) ==
  LET db == syncer[s].phase
      wanted == {t \in TodoIds : todoist[t] # NoTask /\ (db = "planner" => todoist[t].section = "planner")}
  IN /\ db \in {"planner", "board"}
     /\ Set(s, [syncer[s] EXCEPT !.phase = IF db = "planner" THEN "query planner" ELSE "query board",
                                 !.tasks = [t \in TodoIds |-> IF t \in wanted THEN todoist[t] ELSE NoTask]])
     /\ UNCHANGED <<servers, syncs, changes, overlapped>>

Fetched(s) == {t \in TodoIds : syncer[s].tasks[t] # NoTask}

\* Slip: only the first page of the answer is read.
ExistingFirst(db) ==
  {<<page[p].tid, p>> : p \in {q \in Items(db) : page[q].tid # NoId /\ \A x \in Items(db) : q <= x}}

\* existing_map, for items that have a Todoist id.
Existing(db) == {<<page[p].tid, p>> : p \in {q \in Items(db) : page[q].tid # NoId}}

\* With mark_stale_done, the items whose task was not fetched.
Stale(db, fetched) == IF db = "board" THEN {e[2] : e \in {x \in Existing(db) : x[1] \notin fetched}} ELSE {}

\* sync_tasks_to_database reads the items there are; without a task there is nothing
\* to do in a planner's database, whereas the board's marks what has gone.
QueryDatabase(s) ==
  LET r == syncer[s]
      db == IF r.phase = "query planner" THEN "planner" ELSE "board"
  IN /\ r.phase \in {"query planner", "query board"}
     /\ Set(s, IF db = "planner" /\ Fetched(s) = {}
               THEN [r EXCEPT !.phase = "board"]
               ELSE [r EXCEPT !.phase = IF db = "planner" THEN "write planner" ELSE "write board",
                              !.found = Existing(db), !.left = Fetched(s), !.stale = Stale(db, Fetched(s))])
     /\ UNCHANGED <<servers, syncs, changes, overlapped>>

\* A request: it is done and answered, or it fails, and may be done all the same.
Ask(s, done, after) ==
  \/ page' = done /\ Set(s, after)
  \/ page' \in {done, page} /\ Set(s, [after EXCEPT !.clean = FALSE])

\* _task_to_properties, which includes the status: what the task lacks is left out,
\* and stays as it is in the item.
Properties(db, t, task, old) ==
  [db |-> db, tid |-> t, text |-> task.text, done |-> FALSE,
   extra |-> IF task.extra = NoExtra THEN old.extra ELSE task.extra]

\* One task of the loop: its item is updated, or one is created.
WriteTask(s) ==
  LET r == syncer[s]
      db == IF r.phase = "write planner" THEN "planner" ELSE "board"
      t == CHOOSE x \in r.left : TRUE
      own == {e[2] : e \in {x \in r.found : x[1] = t}}
  IN /\ r.phase \in {"write planner", "write board"} /\ r.left # {}
     /\ \E p \in IF own # {} THEN own ELSE NewPage :
          Ask(s, [page EXCEPT ![p] = Properties(db, t, r.tasks[t], page[p])], [r EXCEPT !.left = @ \ {t}])
     /\ UNCHANGED <<todoist, typed, syncs, changes, overlapped>>

\* mark_stale_done: an item whose task is no longer on the board.
MarkStale(s) ==
  LET r == syncer[s]
      p == CHOOSE x \in r.stale : TRUE
  IN /\ In(s, "write board") /\ r.left = {} /\ r.stale # {}
     /\ Ask(s, [page EXCEPT ![p].done = TRUE], [r EXCEPT !.stale = @ \ {p}])
     /\ UNCHANGED <<todoist, typed, syncs, changes, overlapped>>

DatabaseDone(s) ==
  LET r == syncer[s]
  IN /\ r.phase \in {"write planner", "write board"} /\ r.left = {} /\ r.stale = {}
     /\ Set(s, [r EXCEPT !.phase = IF r.phase = "write planner" THEN "board" ELSE "push"])
     /\ UNCHANGED <<servers, syncs, changes, overlapped>>

\* get_notion_only_tasks.
FindNotionOnly(s) ==
  /\ In(s, "push")
  /\ Set(s, [syncer[s] EXCEPT !.phase = "create", !.left = {p \in Items("planner") : page[p].tid = NoId}])
  /\ UNCHANGED <<servers, syncs, changes, overlapped>>

\* notion_item_to_task_fields: the text of the item and the extras it has, whatever
\* its status, in the planner's section.
TaskOf(item) == TaskIn("planner", item)

\* The task of an item is created in the planner's section; when the answer is lost
\* the item stays without its id.
CreateTask(s) ==
  LET r == syncer[s]
      p == CHOOSE x \in r.left : TRUE
  IN /\ In(s, "create") /\ r.left # {}
     /\ \/ \E t \in {x \in TodoIds : todoist[x] = NoTask /\ \A q \in PageIds : page[q].tid # x} :
             /\ todoist' = [todoist EXCEPT ![t] = TaskOf(page[p])]
             /\ \/ Set(s, [r EXCEPT !.phase = "link", !.pushed = t])
                \/ Set(s, [r EXCEPT !.left = @ \ {p}, !.clean = FALSE])
        \/ Set(s, [r EXCEPT !.left = @ \ {p}, !.clean = FALSE]) /\ UNCHANGED todoist
     /\ UNCHANGED <<page, typed, syncs, changes, overlapped>>

\* The item gets the id of its task.
LinkPage(s) ==
  LET r == syncer[s]
      p == CHOOSE x \in r.left : TRUE
  IN /\ In(s, "link")
     /\ Ask(s, [page EXCEPT ![p].tid = r.pushed], [r EXCEPT !.phase = "create", !.left = @ \ {p}, !.pushed = NoId])
     /\ UNCHANGED <<todoist, typed, syncs, changes, overlapped>>

\* The time of the sync is written to the command center, and the command ends.
FinishSync(s) ==
  /\ In(s, "create") /\ syncer[s].left = {}
  /\ Set(s, AtRest)
  /\ UNCHANGED <<servers, syncs, changes, overlapped>>

\* A read that fails leaves out the rest of its database; in the end the exit code
\* tells.
ReadFails(s) ==
  LET r == syncer[s]
  IN /\ r.phase \in {"planner", "query planner", "board", "query board", "push"}
     /\ Set(s, [r EXCEPT !.clean = FALSE, !.left = {},
                         !.phase = CASE r.phase \in {"planner", "query planner"} -> "board"
                                     [] r.phase \in {"board", "query board"} -> "push"
                                     [] OTHER -> "create"])
     /\ UNCHANGED <<servers, syncs, changes, overlapped>>

SyncerDies(s) ==
  /\ ~In(s, "idle")
  /\ Set(s, AtRest)
  /\ UNCHANGED <<servers, syncs, changes, overlapped>>
------------------------------------------------------------------------------
\* The user adds, edits, moves, completes or reopens a task in Todoist, ...
ChangeTask(t) ==
  /\ changes < MaxChanges
  /\ changes' = changes + 1
  /\ todoist' \in {[todoist EXCEPT ![t] = x] : x \in {NoTask} \cup {TaskIn(c, w) : c \in {"planner", "other"}, w \in Wordings}}
  /\ typed' = [p \in PageIds |-> IF page[p].tid = t THEN Nowhere ELSE typed[p]]
  /\ Disturbed
  /\ UNCHANGED <<page, syncs, overlapped>>

\* ... or adds or edits an item of the planner in Notion.
ChangeItem(p, w) ==
  /\ changes < MaxChanges
  /\ changes' = changes + 1
  /\ p \in Items("planner") \cup NewPage
  /\ page' = [page EXCEPT ![p] = [@ EXCEPT !.db = "planner", !.text = w.text, !.extra = w.extra]]
  /\ typed' = [typed EXCEPT ![p] = w.text]
  /\ Disturbed
  /\ UNCHANGED <<todoist, syncs, overlapped>>
------------------------------------------------------------------------------
NotionNext ==
  \/ \E s \in Syncers :
       \/ StartSync(s) \/ FetchTasks(s) \/ QueryDatabase(s) \/ WriteTask(s) \/ MarkStale(s) \/ DatabaseDone(s)
       \/ FindNotionOnly(s) \/ CreateTask(s) \/ LinkPage(s) \/ FinishSync(s) \/ ReadFails(s) \/ SyncerDies(s)
  \/ \E t \in TodoIds : ChangeTask(t)
  \/ \E p \in PageIds, w \in Wordings : ChangeItem(p, w)

NotionSpec == NotionInit /\ [][NotionNext]_notionVars
------------------------------------------------------------------------------
NotionTypeOK ==
  /\ todoist \in [TodoIds -> {NoTask} \cup [section : {"planner", "other"}, text : Texts, extra : Extras \cup {NoExtra}]]
  /\ page \in [PageIds -> {NoPage} \cup [db : {"planner", "board"}, tid : TodoIds \cup {NoId}, text : Texts,
                                       extra : Extras \cup {NoExtra}, done : BOOLEAN]]
  /\ \A s \in Syncers : syncer[s].left \subseteq TodoIds \cup PageIds /\ syncer[s].stale \subseteq PageIds

ActiveItems == {p \in Items("board") : ~page[p].done}
ActiveTasks == {t \in TodoIds : todoist[t] # NoTask}

\* sync_tasks_to_database, "Build a map of existing items by Todoist ID": as long as
\* syncs do not overlap, no database ever has two items of one task, although answers
\* get lost, syncs die half-way and tasks leave and come back; and once the board has
\* been written, nothing having failed or been changed meanwhile, its items that are
\* not done are the active tasks, with the text and every extra a task has.  An extra
\* the task has no more may still be there: ExactMirror.
BoardMirrors ==
  ~overlapped =>
    /\ \A p, q \in PageIds : page[p].db = page[q].db /\ page[p].tid = page[q].tid /\ page[p].tid # NoId => p = q
    /\ \A s \in Syncers :
         In(s, "push") /\ syncer[s].clean =>
           /\ {<<page[p].tid, page[p].text>> : p \in ActiveItems} = {<<t, todoist[t].text>> : t \in ActiveTasks}
           /\ \A p \in ActiveItems :
                todoist[page[p].tid].extra # NoExtra => page[p].extra = todoist[page[p].tid].extra

\* "This keeps Notion an exact mirror of the Todoist active board" (notion.py:1000):
\* not kept.  _task_to_properties sends a due date, labels, a duration or notes only
\* of a task that has them (notion.py:396-410), so what the user cleared in Todoist
\* stays in Notion, however often an undisturbed sync is run.
ExactMirror ==
  ~overlapped => \A s \in Syncers : In(s, "push") /\ syncer[s].clean =>
    \A p \in ActiveItems : page[p].extra = todoist[page[p].tid].extra

\* The text of the planner page (notion.py), "Edit freely here - changes sync back to
\* Todoist automatically": what the user typed in an item is there until it is in
\* the task.
EditsSyncBack ==
  \A p \in PageIds :
    typed[p] # Nowhere /\ page[p].tid # NoId =>
      page[p].text = typed[p] \/ todoist[page[p].tid].text = typed[p]
==============================================================================
