------------------------------ MODULE MCBoard ------------------------------
(* A board without some of the sections the organizer knows, with a task of  *)
(* low priority and no date and one that falls due.                          *)
EXTENDS Board

MCBoardTask(id, day, rank, recurring, hints) ==
  [id |-> id, due |-> day, priority |-> rank, recurring |-> recurring, hints |-> hints]
MCBoardTasks == {MCBoardTask(1, NoDate, 1, FALSE, {"home"}), MCBoardTask(2, 2, 3, FALSE, {})}
MCColumns == {"Blocked", "To Do - Urgent/Today", "Backlog", "Daily Planner"}
==============================================================================
