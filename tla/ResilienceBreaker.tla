------------------------- MODULE ResilienceBreaker -------------------------
(***************************************************************************)
(* brain/security/resilience.py: the other breaker, whose call() runs the  *)
(* function between two critical sections, here a function that the        *)
(* decorator retry_with_backoff makes persistent.                          *)
(***************************************************************************)
EXTENDS Integers

CONSTANTS Clients,        \* threads inside call()
          OpenAfter,      \* failure_threshold
          TryMax          \* max_retries of the decorator

ASSUME CircuitAssumption ==
  /\ OpenAfter \in Nat \ {0}
  /\ TryMax \in Nat

VARIABLES circuit,      \* _state
          failures,     \* _failure_count, of which only "threshold reached" matters
          rested,       \* reset_timeout has passed since _last_failure_time
          stage,        \* where each client is in call()
          tries,        \* the decorator's loop variable
          responsive    \* the service answers

stageVars == <<stage, tries>>
resilienceVars == <<circuit, failures, rested, stageVars, responsive>>

ResilienceInit ==
  /\ circuit = "closed"
  /\ failures = 0
  /\ rested = TRUE
  /\ stage = [c \in Clients |-> "outside"]
  /\ tries = [c \in Clients |-> 0]
  /\ responsive \in BOOLEAN

Proceed(c, label) == stage' = [stage EXCEPT ![c] = label]

BeginProtectedCall(c) ==
  /\ stage[c] = "outside"
  /\ Proceed(c, "entering")
  /\ tries' = [tries EXCEPT ![c] = 0]
  /\ UNCHANGED <<circuit, failures, rested, responsive>>

\* Slip: an open circuit is never probed.
EnterIfClosed(c) ==
  /\ stage[c] = "entering"
  /\ circuit # "open"
  /\ Proceed(c, "trying")
  /\ UNCHANGED <<circuit, failures, rested, tries, responsive>>

\* call(): an open circuit becomes half-open once reset_timeout is over.
Enter(c) ==
  /\ stage[c] = "entering"
  /\ circuit = "open" => rested
  /\ circuit' = IF circuit = "open" THEN "half_open" ELSE circuit
  /\ Proceed(c, "trying")
  /\ UNCHANGED <<failures, rested, tries, responsive>>

\* Otherwise CircuitOpenError.
RejectCall(c) ==
  /\ stage[c] = "entering"
  /\ circuit = "open"
  /\ ~rested
  /\ Proceed(c, "outside")
  /\ UNCHANGED <<circuit, failures, rested, tries, responsive>>

\* The function returned: _record_success.
CallSucceeds(c) ==
  /\ stage[c] = "trying"
  /\ responsive
  /\ failures' = 0
  /\ circuit' = IF circuit = "half_open" THEN "closed" ELSE circuit
  /\ Proceed(c, "outside")
  /\ UNCHANGED <<rested, tries, responsive>>

\* One attempt of the decorated function raised, and it sleeps.
TryFails(c) ==
  /\ stage[c] = "trying"
  /\ ~responsive
  /\ tries[c] < TryMax
  /\ tries' = [tries EXCEPT ![c] = @ + 1]
  /\ Proceed(c, "sleeping")
  /\ UNCHANGED <<circuit, failures, rested, responsive>>

TryOnceMore(c) ==
  /\ stage[c] = "sleeping"
  /\ Proceed(c, "trying")
  /\ UNCHANGED <<circuit, failures, rested, tries, responsive>>

\* The last attempt raised: _record_failure, in whatever state the circuit is.
CallFails(c) ==
  /\ stage[c] = "trying"
  /\ ~responsive
  /\ tries[c] = TryMax
  /\ failures' = IF failures < OpenAfter THEN failures + 1 ELSE failures
  /\ rested' = FALSE
  /\ circuit' = IF failures' >= OpenAfter THEN "open" ELSE circuit
  /\ Proceed(c, "outside")
  /\ UNCHANGED <<tries, responsive>>

\* reset(): an operator closes the circuit.
ResetCircuit ==
  /\ circuit' = "closed"
  /\ failures' = 0
  /\ rested' = TRUE
  /\ UNCHANGED <<stageVars, responsive>>

TimeoutPasses ==
  /\ ~rested
  /\ rested' = TRUE
  /\ UNCHANGED <<circuit, failures, stageVars, responsive>>

ServiceFlips ==
  /\ responsive' = ~responsive
  /\ UNCHANGED <<circuit, failures, rested, stageVars>>

ClientStep(c) ==
  \/ Enter(c) \/ RejectCall(c) \/ CallSucceeds(c)
  \/ TryFails(c) \/ TryOnceMore(c) \/ CallFails(c)

ResilienceNext ==
  \/ \E c \in Clients : BeginProtectedCall(c) \/ ClientStep(c)
  \/ ResetCircuit \/ TimeoutPasses \/ ServiceFlips

ResilienceSpec == ResilienceInit /\ [][ResilienceNext]_resilienceVars

\* As for the other breaker: calls return, time passes, somebody keeps calling.
ResilienceFairness ==
  /\ \A c \in Clients : /\ WF_resilienceVars(BeginProtectedCall(c))
                        /\ WF_resilienceVars(ClientStep(c))
  /\ WF_resilienceVars(TimeoutPasses)

FairResilienceSpec == ResilienceSpec /\ ResilienceFairness
------------------------------------------------------------------------------
CircuitTypeOK ==
  /\ circuit \in {"closed", "open", "half_open"}
  /\ failures \in 0..OpenAfter
  /\ rested \in BOOLEAN
  /\ stage \in [Clients -> {"outside", "entering", "trying", "sleeping"}]
  /\ tries \in [Clients -> 0..TryMax]
  /\ responsive \in BOOLEAN

\* call() recovers by itself: once the service answers for good, the circuit is
\* closed again and again, whatever the calls of the outage still report.
Recloses == <>[]responsive => []<>(circuit = "closed")
==============================================================================
