--------------------------- MODULE CircuitBreaker ---------------------------
(***************************************************************************)
(* brain/security/circuit_breaker.py: one named breaker, shared by threads *)
(* that call a remote service through retry_with_backoff.  Each operation  *)
(* of the breaker runs under its lock; a call is admitted in one state of  *)
(* the breaker and may report in another.                                  *)
(***************************************************************************)
EXTENDS Integers, FiniteSets

CONSTANTS Callers,            \* threads inside retry_with_backoff
          FailureThreshold,   \* failures before opening
          HalfOpenMax,        \* half_open_max_calls
          SuccessThreshold,   \* successes to close from half-open
          RetryMax            \* max_retries of retry_with_backoff

ASSUME BreakerAssumption ==
  /\ IsFiniteSet(Callers)
  /\ FailureThreshold \in Nat \ {0}
  /\ HalfOpenMax \in Nat \ {0}
  /\ SuccessThreshold \in Nat \ {0}
  /\ RetryMax \in Nat

VARIABLES state,          \* _state
          failureCount,   \* _failure_count, of which only "threshold reached" matters
          successCount,   \* _success_count
          halfOpenCalls,  \* _half_open_calls
          cooled,         \* recovery_timeout has passed since _last_failure_time
          phase,          \* where each caller is in retry_with_backoff
          attempt,        \* its loop variable
          probes,         \* history: calls admitted in this half-open period
          up              \* the service answers

circuitVars == <<state, failureCount, successCount, halfOpenCalls, cooled>>
callerVars == <<phase, attempt>>
breakerVars == <<circuitVars, callerVars, probes, up>>

BreakerInit ==
  /\ state = "closed"
  /\ failureCount = 0
  /\ successCount = 0
  /\ halfOpenCalls = 0
  /\ cooled = TRUE
  /\ phase = [c \in Callers |-> "idle"]
  /\ attempt = [c \in Callers |-> 0]
  /\ probes = {}
  /\ up \in BOOLEAN

Move(c, label) == phase' = [phase EXCEPT ![c] = label]

\* One more failure; the code compares the count with the threshold only.
OneMore(n) == IF n < FailureThreshold THEN n + 1 ELSE n

Recovering == state = "open" /\ cooled

\* The state after _check_recovery, which starts a half-open period afresh.
Checked == IF Recovering THEN "half_open" ELSE state
CallsKept == halfOpenCalls \* Slip: the calls of the period before still count.
CallsChecked == IF Recovering THEN 0 ELSE halfOpenCalls
SuccessesChecked == IF Recovering THEN 0 ELSE successCount
ProbesChecked == IF Recovering THEN {} ELSE probes
------------------------------------------------------------------------------
\* A thread calls retry_with_backoff.
BeginCall(c) ==
  /\ phase[c] = "idle"
  /\ Move(c, "attempt")
  /\ attempt' = [attempt EXCEPT ![c] = 0]
  /\ UNCHANGED <<circuitVars, probes, up>>

\* Slips: nothing is probed; the limit is compared after the call was counted.
MayPassClosed == Checked = "closed"

MayPassInclusive == Checked = "closed" \/ (Checked = "half_open" /\ CallsChecked <= HalfOpenMax)

\* can_execute: the verdict.
MayPass == Checked = "closed" \/ (Checked = "half_open" /\ CallsChecked < HalfOpenMax)

\* can_execute() is true, and counts a half-open call.
Admit(c) ==
  /\ phase[c] = "attempt"
  /\ MayPass
  /\ state' = Checked
  /\ successCount' = SuccessesChecked
  /\ halfOpenCalls' = IF Checked = "half_open" THEN CallsChecked + 1 ELSE CallsChecked
  /\ probes' = IF Checked = "half_open" THEN ProbesChecked \cup {c} ELSE ProbesChecked
  /\ Move(c, "calling")
  /\ UNCHANGED <<failureCount, cooled, attempt, up>>

\* can_execute() is false: the loop is left for the fallback.
Reject(c) ==
  /\ phase[c] = "attempt"
  /\ ~MayPass
  /\ state' = Checked
  /\ successCount' = SuccessesChecked
  /\ halfOpenCalls' = CallsChecked
  /\ probes' = ProbesChecked
  /\ Move(c, "exhausted")
  /\ UNCHANGED <<failureCount, cooled, attempt, up>>

\* Slip: the failures of the outage are remembered.
CloseKeepingFailures ==
  /\ state = "half_open"
  /\ successCount + 1 >= SuccessThreshold
  /\ state' = "closed"
  /\ successCount' = 0
  /\ UNCHANGED failureCount

\* record_success in the half-open state, with enough successes to close ...
Close ==
  /\ state = "half_open"
  /\ successCount + 1 >= SuccessThreshold
  /\ state' = "closed"
  /\ failureCount' = 0
  /\ successCount' = 0

\* ... or not yet, and in the other states, a late answer in "open" included.
CountSuccess ==
  \/ /\ state = "half_open"
     /\ successCount + 1 < SuccessThreshold
     /\ successCount' = successCount + 1
     /\ UNCHANGED <<state, failureCount>>
  \/ /\ state # "half_open"
     /\ failureCount' = 0
     /\ UNCHANGED <<state, successCount>>

\* fn() returned; record_success.
Succeed(c) ==
  /\ phase[c] = "calling"
  /\ up
  /\ Close \/ CountSuccess
  /\ probes' = probes \ {c}
  /\ Move(c, "idle")
  /\ UNCHANGED <<halfOpenCalls, cooled, attempt, up>>

\* record_failure.
RecordFailure ==
  /\ failureCount' = OneMore(failureCount)
  /\ cooled' = FALSE
  /\ \/ /\ state = "half_open"
        /\ state' = "open"
        /\ halfOpenCalls' = 0
        /\ successCount' = 0
     \/ /\ state # "half_open"
        /\ state' = IF failureCount' >= FailureThreshold THEN "open" ELSE state
        /\ UNCHANGED <<halfOpenCalls, successCount>>

\* Slip: a caller that has no retries left sleeps once more.
NextTryAlways(c) == Move(c, "backoff") /\ attempt' = [attempt EXCEPT ![c] = RetryMax]

\* Where the loop of retry_with_backoff goes after a failure.
NextTry(c) ==
  IF attempt[c] < RetryMax
  THEN Move(c, "backoff") /\ attempt' = [attempt EXCEPT ![c] = @ + 1]
  ELSE Move(c, "exhausted") /\ UNCHANGED attempt

\* fn() raised; record_failure, and the delay before the next attempt.
Fail(c) ==
  /\ phase[c] = "calling"
  /\ ~up
  /\ RecordFailure
  /\ probes' = probes \ {c}
  /\ NextTry(c)
  /\ UNCHANGED up

\* time.sleep(delay) is over.
TryAgain(c) ==
  /\ phase[c] = "backoff"
  /\ Move(c, "attempt")
  /\ UNCHANGED <<circuitVars, attempt, probes, up>>

\* The fallback is called, or the last error is raised.
GiveUp(c) ==
  /\ phase[c] = "exhausted"
  /\ Move(c, "idle")
  /\ UNCHANGED <<circuitVars, attempt, probes, up>>

\* The state property and get_status() look for recovery too.
ReadStatus ==
  /\ Recovering
  /\ state' = Checked
  /\ halfOpenCalls' = CallsChecked
  /\ successCount' = SuccessesChecked
  /\ probes' = ProbesChecked
  /\ UNCHANGED <<failureCount, cooled, callerVars, up>>
------------------------------------------------------------------------------
CoolDown ==
  /\ ~cooled
  /\ cooled' = TRUE
  /\ UNCHANGED <<state, failureCount, successCount, halfOpenCalls, callerVars, probes, up>>

ServiceChanges ==
  /\ up' = ~up
  /\ UNCHANGED <<circuitVars, callerVars, probes>>

CallStep(c) ==
  Admit(c) \/ Reject(c) \/ Succeed(c) \/ Fail(c) \/ TryAgain(c) \/ GiveUp(c)

BreakerNext ==
  \/ \E c \in Callers : BeginCall(c) \/ CallStep(c)
  \/ ReadStatus \/ CoolDown \/ ServiceChanges

BreakerSpec == BreakerInit /\ [][BreakerNext]_breakerVars

\* Every call has a timeout and every delay an end; time passes; and somebody
\* keeps calling.
BreakerFairness ==
  /\ \A c \in Callers : WF_breakerVars(BeginCall(c)) /\ WF_breakerVars(CallStep(c))
  /\ WF_breakerVars(CoolDown)

FairBreakerSpec == BreakerSpec /\ BreakerFairness
------------------------------------------------------------------------------
Calling == {c \in Callers : phase[c] = "calling"}

BreakerTypeOK ==
  /\ state \in {"closed", "open", "half_open"}
  /\ failureCount \in 0..FailureThreshold
  /\ successCount \in 0..(SuccessThreshold - 1)
  /\ halfOpenCalls \in 0..HalfOpenMax
  /\ cooled \in BOOLEAN
  /\ phase \in [Callers -> {"idle", "attempt", "calling", "backoff", "exhausted"}]
  /\ attempt \in [Callers -> 0..RetryMax]
  /\ probes \in SUBSET Callers
  /\ up \in BOOLEAN

\* A closed breaker still has failures to count, whatever the outage before it
\* left behind and whichever calls of that time report late: the first failure
\* after a recovery does not open it again (record_success resets the count).
ClosedIsTolerant == state = "closed" => failureCount < FailureThreshold

\* While it tests recovery the breaker lets no more than half_open_max_calls
\* calls of that period reach the service at once.
ProbeLimit == state = "half_open" => Cardinality(probes) <= HalfOpenMax

\* A half-open breaker always admits a call or waits for one: otherwise it would
\* reject every call forever, as only a call's answer takes it out of that state.
\* It needs as many half-open calls as successes.
NeverWedged ==
  SuccessThreshold <= HalfOpenMax =>
    (state = "half_open" => halfOpenCalls < HalfOpenMax \/ Calling # {})

\* Documents: "automatic recovery".  Once the service answers for good, a breaker
\* that is still called closes, again and again.
Recovers == <>[]up => []<>(state = "closed")

\* retry_with_backoff returns, falls back or raises after its last attempt.
CallsEnd == \A c \in Callers : phase[c] # "idle" ~> phase[c] = "idle"
==============================================================================
