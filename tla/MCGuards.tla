------------------------------ MODULE MCGuards ------------------------------
(* Both breakers and the rate limiter, which share nothing: a behaviour is  *)
(* one of a single component, the focus, while the others stand still.      *)
EXTENDS CircuitBreaker, ResilienceBreaker, RateLimiter

CONSTANTS c1, c2, c3, k1, k2

MCCallers == {c1, c2, c3}
MCClients == {c1, c2}
MCKeys == {k1, k2}

VARIABLE focus

vars == <<breakerVars, resilienceVars, limiterVars, focus>>

Foci == {"breaker", "resilience", "limiter"}

GuardsInit ==
  /\ focus \in Foci
  /\ LimiterInit
  /\ BreakerInit
  /\ focus # "breaker" => up
  /\ ResilienceInit
  /\ focus # "resilience" => responsive

GuardsNext ==
  \/ /\ focus = "breaker" /\ BreakerNext
     /\ UNCHANGED <<resilienceVars, limiterVars, focus>>
  \/ /\ focus = "resilience" /\ ResilienceNext
     /\ UNCHANGED <<breakerVars, limiterVars, focus>>
  \/ /\ focus = "limiter" /\ LimiterNext
     /\ UNCHANGED <<breakerVars, resilienceVars, focus>>

\* The fairness of the component in focus; the others have nothing to do.
GuardsFairness ==
  /\ focus = "breaker" => BreakerFairness
  /\ focus = "resilience" => ResilienceFairness

GuardsSpec == GuardsInit /\ [][GuardsNext]_vars /\ GuardsFairness
------------------------------------------------------------------------------
\* The types of the guards, each stated in its module, when it is in focus.
GuardsTypeOK ==
  /\ focus = "breaker" => BreakerTypeOK
  /\ focus = "resilience" => CircuitTypeOK
  /\ focus = "limiter" => LimiterTypeOK

\* Both breakers close again once the service they guard answers for good, whatever
\* the calls of the outage still report.
BreakersRecover == Recovers /\ Recloses
==============================================================================
