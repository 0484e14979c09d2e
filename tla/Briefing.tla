------------------------------- MODULE Briefing -------------------------------
(***************************************************************************)
(* The commands of brain/cli.py that tell the user something - daily,      *)
(* weekend, weekly, alerts, analyze - with the requests of brain/todoist.py*)
(* they make, the chain of language models, and the delivery by mail and   *)
(* WhatsApp; and the worker's llm_generate, which uses the same chain.     *)
(* The user goes on changing tasks between the requests.                   *)
(***************************************************************************)
EXTENDS Integers, Sequences, FiniteSets, SequencesExt, LanguageModels

CONSTANTS BriefTasks,       \* the tasks there are
          DueDays,          \* the days a task may be due, from today = 0
          WeekendDays,      \* those of them that are a Saturday or a Sunday
          FilterLimit,      \* tasks a filter answers with at most: 200
          SampleSettings,   \* settings of LanguageModels, with local: Ollama can be used
          MaxReschedules    \* bound: changes of the user

Completed == 1000           \* the due day of a task that is not active any more

ASSUME BriefingAssumption ==
  /\ IsFiniteSet(BriefTasks) /\ FilterLimit \in Nat
  /\ DueDays \subseteq Int \ {Completed} /\ WeekendDays \subseteq DueDays /\ MaxReschedules \in Nat
  /\ \A s \in SampleSettings : s.models \in Seq(STRING)

VARIABLES due,       \* Todoist: when each task is due
          settings,
          brief,     \* the command that is running
          steady,    \* the tasks the user has not touched since it began
          reschedules

briefVars == <<due, settings, brief, steady, reschedules>>

Commands == {"daily", "weekend", "weekly", "alerts", "analyze", "generate"}

\* The requests each command makes; the filters swallow an error, get_tasks does not.
Queries(command) ==
  CASE command = "daily" -> <<"today | overdue", "7 days">>
    [] command = "weekend" -> <<"saturday | sunday", "overdue">>
    [] command \in {"weekly", "analyze"} -> <<"tasks">>
    [] command = "alerts" -> <<"overdue">>
    [] command = "generate" -> <<>>

Matches(query, d) ==
  /\ d # Completed
  /\ CASE query = "today | overdue" -> d <= 0
       [] query = "7 days" -> d \in 0..6
       [] query = "saturday | sunday" -> d \in WeekendDays
       [] query = "overdue" -> d < 0
       [] query = "tasks" -> TRUE

NoCommand == [phase |-> "none", name |-> "none", queries |-> <<>>, listed |-> <<>>, complete |-> TRUE,
              chain |-> <<>>, asked |-> <<>>, text |-> Raw, print |-> FALSE, llm |-> FALSE, mailed |-> FALSE,
              code |-> -1]

BriefingInit ==
  /\ due \in [BriefTasks -> DueDays]
  /\ settings \in SampleSettings
  /\ brief = NoCommand
  /\ steady = BriefTasks
  /\ reschedules = 0

InPhase(phase) == brief.phase = phase
Becomes(b) == brief' = b
Ends(code) == [brief EXCEPT !.phase = "ended", !.code = code]
------------------------------------------------------------------------------
\* The command line: --stdout and --no-llm (alerts has no text to polish).
RunCommand(name, print, llm) ==
  /\ InPhase("none")
  /\ name \in {"generate"} => llm /\ ~print
  /\ name = "alerts" => ~llm
  /\ Becomes([NoCommand EXCEPT !.phase = IF Queries(name) = <<>> THEN "built" ELSE "fetch", !.name = name,
                               !.queries = Queries(name), !.print = print, !.llm = llm])
  /\ steady' = BriefTasks
  /\ UNCHANGED <<due, settings, reschedules>>

\* Slip: seen is not consulted.
MergedTwice(listed, answer) == listed \o SetToSeq(answer)

\* "Merge without duplicates": the answer that came first is the one that stays.
Merged(listed, answer) ==
  LET seen == {listed[i][1] : i \in DOMAIN listed}
  IN listed \o SetToSeq({a \in answer : a[1] \notin seen})

\* get_tasks goes from page to page; get_filtered_tasks asks for one page and leaves
\* its next_cursor alone, so that what is beyond it is not there.
Answers(query, matching) ==
  IF query = "tasks" \/ Cardinality(matching) <= FilterLimit THEN {matching} ELSE kSubset(FilterLimit, matching)

\* A filter answers, or its failure looks like an answer without tasks; get_tasks,
\* and the projects that come after a filter, end the command.
FetchList ==
  LET query == Head(brief.queries)
      matching == {t \in BriefTasks : Matches(query, due[t])}
      rest == Tail(brief.queries)
      next == [brief EXCEPT !.queries = rest, !.phase = IF rest = <<>> THEN "built" ELSE "fetch"]
  IN /\ InPhase("fetch")
     /\ \/ \E got \in Answers(query, matching) :
             Becomes([next EXCEPT !.listed = Merged(@, {<<t, due[t]>> : t \in got})])
        \/ query # "tasks" /\ Becomes([next EXCEPT !.complete = FALSE])
        \/ Becomes(Ends(1))
     /\ UNCHANGED <<due, settings, steady, reschedules>>

\* The digest is built; calendar and mail only add to it, or not.
BuildText ==
  /\ InPhase("built")
  /\ IF brief.name = "alerts" /\ brief.listed = <<>>
     THEN Becomes(Ends(0))
     ELSE Becomes([brief EXCEPT
            !.phase = "ask",
            !.chain = IF ~brief.llm THEN <<>>
                      ELSE IF brief.name = "generate" THEN GenerateChain(settings, TRUE)
                      ELSE CloudChain(settings, TRUE)])
  /\ UNCHANGED <<due, settings, steady, reschedules>>

\* The next provider of the chain answers or not.
AskProvider ==
  LET provider == Head(brief.chain)
      texts == Returns(settings, provider)
      asked == IF texts = {NoText} THEN brief.asked ELSE Append(brief.asked, provider)
  IN /\ InPhase("ask") /\ brief.chain # <<>>
     /\ \E text \in texts :
          Becomes(IF text = NoText
                  THEN [brief EXCEPT !.asked = asked, !.chain = Tail(@)]
                  ELSE [brief EXCEPT !.asked = asked, !.chain = <<>>, !.text = text])
     /\ UNCHANGED <<due, settings, steady, reschedules>>

\* The text goes to the terminal, by mail, to WhatsApp only, or into a job's result.
Deliver ==
  /\ InPhase("ask") /\ brief.chain = <<>>
  /\ IF brief.print \/ brief.name \in {"alerts", "analyze", "generate"}
     THEN Becomes(Ends(0))
     ELSE \E sent \in BOOLEAN : Becomes([Ends(IF sent THEN 0 ELSE 1) EXCEPT !.mailed = sent])
  /\ UNCHANGED <<due, settings, steady, reschedules>>

NextRun ==
  /\ InPhase("ended")
  /\ Becomes(NoCommand)
  /\ UNCHANGED <<due, settings, steady, reschedules>>

\* The user completes a task or plans it for another day.
Reschedule(t, d) ==
  /\ reschedules < MaxReschedules /\ due[t] # d
  /\ reschedules' = reschedules + 1
  /\ due' = [due EXCEPT ![t] = d]
  /\ steady' = steady \ {t}
  /\ UNCHANGED <<settings, brief>>

BriefingNext ==
  \/ \E name \in Commands, print \in BOOLEAN, llm \in BOOLEAN : RunCommand(name, print, llm)
  \/ FetchList \/ BuildText \/ AskProvider \/ Deliver \/ NextRun
  \/ \E t \in BriefTasks, d \in DueDays \cup {Completed} : Reschedule(t, d)

BriefingSpec == BriefingInit /\ [][BriefingNext]_briefVars
------------------------------------------------------------------------------
BriefTypeOK ==
  /\ due \in [BriefTasks -> DueDays \cup {Completed}]
  /\ brief.name \in Commands \cup {"none"} /\ brief.code \in -1..1
  /\ ToSet(brief.listed) \subseteq BriefTasks \X DueDays

About(command, d) == \E i \in DOMAIN Queries(command) : Matches(Queries(command)[i], d)

\* cmd_daily and cmd_weekend, "Merge without duplicates", with tasks changing
\* between their requests: a text that is given out without a failed request has
\* every task at most once, and, as it is, every task the command is about that the
\* user left alone, unless a filter was used and a full page of tasks is told
\* already; and in demo mode behind a proxy it was shown to nobody else.
BriefingHoldsTheDay ==
  InPhase("ended") /\ brief.code = 0 =>
    /\ \A i, j \in DOMAIN brief.listed : brief.listed[i][1] = brief.listed[j][1] => i = j
    /\ brief.complete =>
         \A t \in steady : About(brief.name, due[t]) =>
           \/ <<t, due[t]>> \in ToSet(brief.listed)
           \/ Queries(brief.name) # <<"tasks">> /\ Len(brief.listed) >= FilterLimit
    /\ settings.demo /\ ProxyConfigured(settings) => ToSet(brief.asked) \subseteq {Proxy, Local}

\* "Fetch tasks due today (includes overdue)" (todoist.py:133), and its siblings for
\* the days to come and for what is overdue: not kept.  One page of 200 tasks is all
\* that is read (todoist.py:118-121), no request fails, and the command ends well
\* without the rest.
EveryTaskIsFetched ==
  InPhase("ended") /\ brief.code = 0 /\ brief.complete =>
    \A t \in steady : About(brief.name, due[t]) => <<t, due[t]>> \in ToSet(brief.listed)

\* config.py, "demo_mode: True -> proxy required, real keys ignored".
DemoIgnoresRealKeys == settings.demo => ToSet(brief.asked) \subseteq {Proxy, Local}
==============================================================================
