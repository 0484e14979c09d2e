------------------------------ MODULE BanManager ------------------------------
(***************************************************************************)
(* brain/security/ban.py and its use by google_login: failed sign-ins of a *)
(* client raise its ban stage, and with it the length of its ban.  Clients *)
(* are independent, so this is one of them.                                *)
(***************************************************************************)
EXTENDS Integers, FiniteSets

CONSTANTS LastStage,     \* HARD, after SOFT and MEDIUM
          Threshold,     \* failures, window and ban of each stage (_ESCALATION_RULES)
          FailWindow,
          BanTime,
          PermanentLast, \* permanent_stage3
          Persisted,     \* whether there is a persist_path; google_login has none
          BanClockMax,   \* bound: the clock runs from 0 to this
          MaxFailures    \* bound: failures remembered

Stages == 1..LastStage

ASSUME BanAssumption ==
  /\ LastStage \in Nat
  /\ Threshold \in [Stages -> Nat \ {0}] /\ FailWindow \in [Stages -> Nat] /\ BanTime \in [Stages -> Nat]
  /\ PermanentLast \in BOOLEAN /\ Persisted \in BOOLEAN /\ BanClockMax \in Nat /\ MaxFailures \in Nat

VARIABLES banClock,   \* time.monotonic()
          failed,   \* times of the failures, each with its number
          banStage, bannedUntil, isPermanent,     \* the client's record
          permanent,  \* the client is among _permanent_bans
          sentence    \* history: the latest end of any ban given and not lifted

banVars == <<banClock, failed, banStage, bannedUntil, isPermanent, permanent, sentence>>
banRecord == <<failed, banStage, bannedUntil, isPermanent>>

Forever == BanClockMax + 1

BanInit ==
  /\ banClock = 0
  /\ failed = {} /\ banStage = 0 /\ bannedUntil = 0 /\ isPermanent = FALSE
  /\ permanent = FALSE
  /\ sentence = 0

IsBanned == permanent \/ isPermanent \/ banClock < bannedUntil

RecentFailures(s, times) == {f \in times : f[1] > banClock - FailWindow[s]}

\* Slip: a stage is reached by more failures than its threshold.
ReachedLate(s, times) == s > banStage /\ Cardinality(RecentFailures(s, times)) > Threshold[s]

\* A stage not reached before, with its threshold met within its window.
Reached(s, times) == s > banStage /\ Cardinality(RecentFailures(s, times)) >= Threshold[s]

\* google_login with a bad token: refused if banned, else record_failure and
\* _evaluate_escalation, whose loop lets the last stage reached decide.
AuthFails ==
  LET times == failed \cup {<<banClock, Cardinality(failed)>>}
      reached == {s \in Stages : Reached(s, times)}
      last == CHOOSE s \in reached : \A s2 \in reached : s2 <= s
      forever == PermanentLast /\ LastStage \in reached
  IN /\ ~IsBanned
     /\ Cardinality(failed) < MaxFailures
     /\ failed' = times
     /\ banStage' = IF reached = {} THEN banStage ELSE last
     /\ bannedUntil' = IF reached = {} THEN bannedUntil ELSE IF forever THEN 0 ELSE banClock + BanTime[last]
     /\ isPermanent' = (isPermanent \/ forever)
     /\ permanent' = (permanent \/ forever)
     /\ sentence' = IF reached = {} THEN sentence ELSE IF forever THEN Forever ELSE banClock + BanTime[last]
     /\ UNCHANGED banClock

\* google_login with a good one: record_success drops the record.
AuthSucceeds ==
  /\ ~IsBanned
  /\ failed' = {} /\ banStage' = 0 /\ bannedUntil' = 0
  /\ UNCHANGED <<banClock, isPermanent, permanent, sentence>>

\* An administrator's ban_permanent and unban.
BanForGood == permanent' = TRUE /\ sentence' = Forever /\ UNCHANGED <<banClock, banRecord>>

Unban ==
  /\ permanent' = FALSE
  /\ failed' = {} /\ banStage' = 0 /\ bannedUntil' = 0 /\ isPermanent' = FALSE
  /\ sentence' = 0
  /\ UNCHANGED banClock

\* The process restarts: only what _load_persistent_bans finds is left.
RestartBans ==
  /\ permanent' = (Persisted /\ permanent)
  /\ failed' = {} /\ banStage' = 0 /\ bannedUntil' = 0 /\ isPermanent' = FALSE
  /\ sentence' = IF Persisted /\ permanent THEN Forever ELSE 0
  /\ UNCHANGED banClock

BanTick == banClock < BanClockMax /\ banClock' = banClock + 1 /\ UNCHANGED <<banRecord, permanent, sentence>>

BanNext == AuthFails \/ AuthSucceeds \/ BanForGood \/ Unban \/ RestartBans \/ BanTick

BanSpec == BanInit /\ [][BanNext]_banVars
------------------------------------------------------------------------------
BanTypeOK ==
  /\ banStage \in Stages \cup {0}
  /\ bannedUntil \in Nat /\ isPermanent \in BOOLEAN /\ permanent \in BOOLEAN
  /\ \A f \in failed : f[1] \in 0..banClock

\* With failure f, numbered after those before it, stage s has its threshold met
\* within its window.
StageDue(s, f, times) ==
  Cardinality({g \in times : g[2] <= f[2] /\ g[1] > f[1] - FailWindow[s]}) >= Threshold[s]

\* ... and neither s nor a later stage had been due before.
FirstDue(s, f, times) ==
  /\ StageDue(s, f, times)
  /\ \A r \in s..LastStage, g \in times : g[2] <= f[2] /\ StageDue(r, g, times) => r = s /\ g = f

\* _evaluate_escalation: a ban that was given is served to its end, unless an
\* administrator lifts it; and the failure with which a stage is due for the first
\* time, as the highest, brings the ban of that stage in full, however the later
\* failures fall.  A stage that has been due before brings nothing: FailuresAreBanned.
BansAreServed ==
  /\ banClock < sentence => IsBanned
  /\ \A s \in Stages, f \in failed : FirstDue(s, f, failed) =>
       IsBanned \/ (banClock >= f[1] + BanTime[s] /\ ~(PermanentLast /\ s = LastStage))

\* "5 failures in 5 min -> 5 min ban" (ban.py:8): not kept.  The stage of a client
\* outlives its ban, and a stage it is already on is passed over (ban.py:195-196), so
\* after the first ban five more failures in five minutes bring none.
FailuresAreBanned ==
  \A s \in Stages, f \in failed : StageDue(s, f, failed) => IsBanned \/ banClock >= f[1] + BanTime[s]
==============================================================================
