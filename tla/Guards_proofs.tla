---------------------------- MODULE Guards_proofs ----------------------------
(***************************************************************************)
(* Proofs about what stands between a caller and the services: the two     *)
(* circuit breakers and the rate limiter, for any callers, thresholds,     *)
(* failures, windows and clocks, and all of them as they are checked.      *)
(***************************************************************************)
EXTENDS MCGuards, FiniteSetTheorems, WellFoundedInduction, TLAPS

------------------------------------------------------------------------------
(***************************************************************************)
(* brain/security/circuit_breaker.py: any callers, thresholds and half-    *)
(* open limit.                                                             *)
(***************************************************************************)

\* The breaker's counters stay within their limits, whichever calls report in
\* whichever state: can_execute compares before it counts.
THEOREM BreakerTypeCorrect == BreakerSpec => []BreakerTypeOK
<1>1. BreakerInit => BreakerTypeOK
  BY BreakerAssumption DEF BreakerInit, BreakerTypeOK
<1>2. BreakerTypeOK /\ [BreakerNext]_breakerVars => BreakerTypeOK'
  <2> SUFFICES ASSUME BreakerTypeOK, [BreakerNext]_breakerVars
               PROVE  BreakerTypeOK'
    OBVIOUS
  <2> USE BreakerAssumption DEF BreakerTypeOK, Move, circuitVars, callerVars
  <2>1. ASSUME NEW c \in Callers, BeginCall(c) PROVE BreakerTypeOK'
    BY <2>1 DEF BeginCall
  <2>2. ASSUME NEW c \in Callers, Admit(c) PROVE BreakerTypeOK'
    BY <2>2 DEF Admit, MayPass, Checked, CallsChecked, SuccessesChecked, ProbesChecked
  <2>3. ASSUME NEW c \in Callers, Reject(c) PROVE BreakerTypeOK'
    BY <2>3 DEF Reject, Checked, CallsChecked, SuccessesChecked, ProbesChecked
  <2>4. ASSUME NEW c \in Callers, Succeed(c) PROVE BreakerTypeOK'
    BY <2>4 DEF Succeed, Close, CountSuccess
  <2>5. ASSUME NEW c \in Callers, Fail(c) PROVE BreakerTypeOK'
    <3>1. OneMore(failureCount) \in 0..FailureThreshold
      BY DEF OneMore
    <3>2. failureCount' = OneMore(failureCount)
      BY <2>5 DEF Fail, RecordFailure
    <3>3. failureCount' \in 0..FailureThreshold
      BY <3>1, <3>2
    <3>4. /\ cooled' = FALSE /\ up' = up /\ probes' = probes \ {c}
          /\ state' \in {"closed", "open", "half_open"}
      BY <2>5 DEF Fail, RecordFailure
    <3>5. /\ successCount' \in 0..(SuccessThreshold - 1)
          /\ halfOpenCalls' \in 0..HalfOpenMax
      BY <2>5 DEF Fail, RecordFailure
    <3>6. phase' \in [Callers -> {"idle", "attempt", "calling", "backoff", "exhausted"}]
          /\ attempt' \in [Callers -> 0..RetryMax]
      BY <2>5 DEF Fail, NextTry
    <3>7. QED
      BY <3>3, <3>4, <3>5, <3>6
  <2>6. ASSUME NEW c \in Callers, TryAgain(c) \/ GiveUp(c) PROVE BreakerTypeOK'
    BY <2>6 DEF TryAgain, GiveUp
  <2>7. CASE ReadStatus
    BY <2>7 DEF ReadStatus, Checked, CallsChecked, SuccessesChecked, ProbesChecked
  <2>8. CASE CoolDown \/ ServiceChanges
    BY <2>8 DEF CoolDown, ServiceChanges
  <2>9. CASE UNCHANGED breakerVars
    BY <2>9 DEF breakerVars
  <2>10. QED
    BY <2>1, <2>2, <2>3, <2>4, <2>5, <2>6, <2>7, <2>8, <2>9 DEF BreakerNext, CallStep
<1>3. QED
  BY <1>1, <1>2, PTL DEF BreakerSpec
------------------------------------------------------------------------------
\* A breaker closes with no failures counted, and opens as soon as it counts
\* failure_threshold of them.
THEOREM ClosedAlwaysTolerant == BreakerSpec => []ClosedIsTolerant
<1>1. BreakerInit => ClosedIsTolerant
  BY BreakerAssumption DEF BreakerInit, ClosedIsTolerant
<1>2. BreakerTypeOK /\ ClosedIsTolerant /\ [BreakerNext]_breakerVars => ClosedIsTolerant'
  <2> SUFFICES ASSUME BreakerTypeOK, ClosedIsTolerant, [BreakerNext]_breakerVars
               PROVE  ClosedIsTolerant'
    OBVIOUS
  <2> USE BreakerAssumption DEF ClosedIsTolerant, circuitVars
  <2>1. ASSUME NEW c \in Callers, Admit(c) \/ Reject(c) PROVE ClosedIsTolerant'
    BY <2>1 DEF Admit, Reject, Checked
  <2>2. ASSUME NEW c \in Callers, Succeed(c) PROVE ClosedIsTolerant'
    BY <2>2 DEF Succeed, Close, CountSuccess
  <2>3. ASSUME NEW c \in Callers, Fail(c) PROVE ClosedIsTolerant'
    BY <2>3 DEF Fail, RecordFailure, OneMore, BreakerTypeOK
  <2>4. ASSUME NEW c \in Callers, BeginCall(c) \/ TryAgain(c) \/ GiveUp(c) PROVE ClosedIsTolerant'
    BY <2>4 DEF BeginCall, TryAgain, GiveUp
  <2>5. CASE ReadStatus \/ CoolDown \/ ServiceChanges \/ UNCHANGED breakerVars
    BY <2>5 DEF ReadStatus, Checked, CoolDown, ServiceChanges, breakerVars
  <2>6. QED
    BY <2>1, <2>2, <2>3, <2>4, <2>5 DEF BreakerNext, CallStep
<1>3. QED
  BY <1>1, <1>2, BreakerTypeCorrect, PTL DEF BreakerSpec
------------------------------------------------------------------------------
\* The calls of a half-open period and those under way can be counted.
LEMMA CallersFinite ==
  ASSUME BreakerTypeOK
  PROVE  /\ IsFiniteSet(probes) /\ Cardinality(probes) \in Nat
         /\ IsFiniteSet(Calling) /\ Cardinality(Calling) \in Nat
<1>1. probes \in SUBSET Callers /\ Calling \in SUBSET Callers
  BY DEF BreakerTypeOK, Calling
<1>2. QED
  BY <1>1, BreakerAssumption, FS_Subset, FS_CardinalityType

\* Every half-open call was counted when it was admitted, and is under way, or
\* succeeded: a failed one ends the half-open period.
ProbesCounted ==
  state = "half_open" =>
    /\ Cardinality(probes) <= halfOpenCalls
    /\ halfOpenCalls <= successCount + Cardinality(Calling)

\* An admitted call is one more under way, in a period that may just begin.
LEMMA AdmitCounts ==
  ASSUME BreakerTypeOK, ProbesCounted, NEW c \in Callers, Admit(c)
  PROVE  ProbesCounted'
<1> SUFFICES ASSUME state' = "half_open" PROVE ProbesCounted'
  BY DEF ProbesCounted
<1>1. /\ Checked = "half_open"
      /\ halfOpenCalls' = CallsChecked + 1
      /\ successCount' = SuccessesChecked
      /\ probes' = ProbesChecked \cup {c}
  BY DEF Admit
<1>2. Calling' = Calling \cup {c} /\ c \notin Calling
  BY DEF Admit, Move, Calling, BreakerTypeOK
<1>3. Cardinality(Calling') = Cardinality(Calling) + 1
  BY <1>2, CallersFinite, FS_AddElement
<1>4. CASE Recovering
  <2>1. halfOpenCalls' = 1 /\ successCount' = 0 /\ probes' = {c}
    BY <1>1, <1>4 DEF CallsChecked, SuccessesChecked, ProbesChecked
  <2>2. Cardinality(probes') = 1
    BY <2>1, FS_Singleton
  <2>3. QED
    BY <1>3, <2>1, <2>2, CallersFinite DEF ProbesCounted
<1>5. CASE ~Recovering
  <2>1. /\ state = "half_open" /\ halfOpenCalls' = halfOpenCalls + 1
        /\ successCount' = successCount /\ probes' = probes \cup {c}
    BY <1>1, <1>5 DEF Checked, CallsChecked, SuccessesChecked, ProbesChecked
  <2>2. Cardinality(probes') = IF c \in probes THEN Cardinality(probes)
                                              ELSE Cardinality(probes) + 1
    BY <2>1, CallersFinite, FS_AddElement
  <2>3. Cardinality(probes') \in Nat /\ Cardinality(probes') <= Cardinality(probes) + 1
    BY <2>2, CallersFinite
  <2>4. QED
    BY <1>3, <2>1, <2>2, <2>3, CallersFinite DEF ProbesCounted, BreakerTypeOK
<1>6. QED
  BY <1>4, <1>5

\* A success moves a call from those under way to those that succeeded.
LEMMA SuccessCounts ==
  ASSUME BreakerTypeOK, ProbesCounted, NEW c \in Callers, Succeed(c)
  PROVE  ProbesCounted'
<1> SUFFICES ASSUME state' = "half_open" PROVE ProbesCounted'
  BY DEF ProbesCounted
<1>1. /\ state = "half_open" /\ successCount' = successCount + 1
      /\ halfOpenCalls' = halfOpenCalls /\ probes' = probes \ {c}
  BY DEF Succeed, Close, CountSuccess
<1>2. Calling' = Calling \ {c} /\ c \in Calling
  BY DEF Succeed, Move, Calling, BreakerTypeOK
<1>3. Cardinality(Calling') = Cardinality(Calling) - 1
  BY <1>2, CallersFinite, FS_RemoveElement
<1>4. Cardinality(probes') = IF c \in probes THEN Cardinality(probes) - 1
                                            ELSE Cardinality(probes)
  BY <1>1, CallersFinite, FS_RemoveElement
<1>5. QED
  BY <1>1, <1>3, <1>4, CallersFinite DEF ProbesCounted, BreakerTypeOK

\* A step that neither begins nor ends a call under way.
LEMMA OthersCount ==
  ASSUME BreakerTypeOK, ProbesCounted, Calling' = Calling,
         \/ UNCHANGED <<state, successCount, halfOpenCalls, probes>>
         \/ state' = Checked /\ successCount' = SuccessesChecked
            /\ halfOpenCalls' = CallsChecked /\ probes' = ProbesChecked
  PROVE  ProbesCounted'
<1>1. CASE UNCHANGED <<state, successCount, halfOpenCalls, probes>>
  BY <1>1 DEF ProbesCounted
<1>2. CASE /\ state' = Checked /\ successCount' = SuccessesChecked
           /\ halfOpenCalls' = CallsChecked /\ probes' = ProbesChecked
  <2>1. CASE Recovering
    <3>1. halfOpenCalls' = 0 /\ successCount' = 0 /\ probes' = {}
      BY <1>2, <2>1 DEF CallsChecked, SuccessesChecked, ProbesChecked
    <3>2. QED
      BY <3>1, FS_EmptySet, CallersFinite DEF ProbesCounted
  <2>2. CASE ~Recovering
    BY <1>2, <2>2 DEF Checked, CallsChecked, SuccessesChecked, ProbesChecked, ProbesCounted
  <2>3. QED
    BY <2>1, <2>2
<1>3. QED
  BY <1>1, <1>2

\* can_execute, record_success and record_failure keep the half-open count right.
LEMMA ProbesAlwaysCounted == BreakerSpec => []ProbesCounted
<1>1. BreakerInit => ProbesCounted
  BY DEF BreakerInit, ProbesCounted
<1>2. BreakerTypeOK /\ ProbesCounted /\ [BreakerNext]_breakerVars => ProbesCounted'
  <2> SUFFICES ASSUME BreakerTypeOK, ProbesCounted, [BreakerNext]_breakerVars
               PROVE  ProbesCounted'
    OBVIOUS
  <2>1. ASSUME NEW c \in Callers, BeginCall(c) \/ TryAgain(c) \/ GiveUp(c) PROVE ProbesCounted'
    <3>1. Calling' = Calling
      BY <2>1 DEF BeginCall, TryAgain, GiveUp, Move, Calling, BreakerTypeOK
    <3>2. QED
      BY <2>1, <3>1, OthersCount DEF BeginCall, TryAgain, GiveUp, circuitVars
  <2>2. ASSUME NEW c \in Callers, Reject(c) PROVE ProbesCounted'
    <3>1. Calling' = Calling
      BY <2>2 DEF Reject, Move, Calling, BreakerTypeOK
    <3>2. QED
      BY <2>2, <3>1, OthersCount DEF Reject
  <2>3. ASSUME NEW c \in Callers, Fail(c) PROVE ProbesCounted'
    BY <2>3 DEF Fail, RecordFailure, ProbesCounted
  <2>4. CASE ReadStatus
    BY <2>4, OthersCount DEF ReadStatus, Calling, callerVars
  <2>5. CASE CoolDown \/ ServiceChanges \/ UNCHANGED breakerVars
    BY <2>5, OthersCount
       DEF CoolDown, ServiceChanges, breakerVars, circuitVars, callerVars, Calling
  <2>6. QED
    BY <2>1, <2>2, <2>3, <2>4, <2>5, AdmitCounts, SuccessCounts DEF BreakerNext, CallStep
<1>3. QED
  BY <1>1, <1>2, BreakerTypeCorrect, PTL DEF BreakerSpec

\* In a half-open period no more than half_open_max_calls of its calls are out.
THEOREM ProbesLimited == BreakerSpec => []ProbeLimit
<1>1. BreakerTypeOK /\ ProbesCounted => ProbeLimit
  BY CallersFinite, BreakerAssumption DEF BreakerTypeOK, ProbesCounted, ProbeLimit
<1>2. QED
  BY <1>1, BreakerTypeCorrect, ProbesAlwaysCounted, PTL

\* With at least as many half-open calls as successes to close, no sequence of
\* results, late ones of earlier periods included, leaves a half-open breaker
\* that neither admits a call nor waits for one.
THEOREM NeverWedgedAlways == BreakerSpec => []NeverWedged
<1>1. BreakerTypeOK /\ ProbesCounted => NeverWedged
  <2> SUFFICES ASSUME BreakerTypeOK, ProbesCounted, SuccessThreshold <= HalfOpenMax,
                      state = "half_open", ~(halfOpenCalls < HalfOpenMax), Calling = {}
               PROVE  FALSE
    BY DEF NeverWedged
  <2>1. Cardinality(Calling) = 0
    BY FS_EmptySet
  <2>2. halfOpenCalls <= successCount
    BY <2>1 DEF ProbesCounted, BreakerTypeOK
  <2>3. QED
    BY <2>2, BreakerAssumption DEF BreakerTypeOK
<1>2. QED
  BY <1>1, BreakerTypeCorrect, ProbesAlwaysCounted, PTL

------------------------------------------------------------------------------
(***************************************************************************)
(* The rate limiter of brain/security/resilience.py: no window holds more  *)
(* grants than the limit, for any threads, keys, limits and times.         *)
(***************************************************************************)

Stamps == 0..MaxTime \cup {NoTime}

LimiterShapes ==
  /\ clock \in 0..MaxTime /\ lastPrune \in 0..MaxTime
  /\ stamp \in [Requesters -> Stamps]
  /\ requests \in [Keys -> SUBSET Entries]
  /\ grants \in [Keys -> SUBSET Entries]

\* A thread that holds a time it has read has not waited for longer than Lag.
StampsAreFresh ==
  \A r \in Requesters : stamp[r] # NoTime => stamp[r] <= clock /\ clock <= stamp[r] + Lag

\* Entries are numbered as they were made, and each was made within Lag of the time
\* it carries.
GrantsInOrder ==
  \A k \in Keys :
    /\ IsFiniteSet(grants[k])
    /\ \A e \in grants[k] : e.no <= Cardinality(grants[k]) /\ e.granted <= e.at + Lag /\ e.granted <= clock
    /\ \A d \in grants[k], e \in grants[k] : d.no <= e.no => d.granted <= e.granted

\* A key's list holds every request that still counts, and no more than it may.
ListIsEnough ==
  \A k \in Keys :
    /\ requests[k] \subseteq grants[k]
    /\ GrantedSince(k, clock - (Window - Lag)) \subseteq requests[k]
    /\ Cardinality(requests[k]) <= MaxRequests

LimiterInv == LimiterShapes /\ StampsAreFresh /\ GrantsInOrder /\ ListIsEnough

\* The limits are numbers.
LEMMA LimiterNats ==
  /\ MaxRequests \in Nat \ {0} /\ Window \in Nat \ {0} /\ PruneEvery \in Nat \ {0}
  /\ MaxTime \in Nat /\ Lag \in Nat
BY LimiterAssumption DEF LimiterAssumption

\* No request has been made at first.
LEMMA LimiterInvInit == LimiterInit => LimiterInv
<1> SUFFICES ASSUME LimiterInit PROVE LimiterInv
  OBVIOUS
<1>1. LimiterShapes
  BY LimiterNats DEF LimiterInit, LimiterShapes, Stamps
<1>2. StampsAreFresh
  BY DEF LimiterInit, StampsAreFresh
<1>3. IsFiniteSet({}) /\ Cardinality({}) = 0
  BY FS_EmptySet
<1>4. GrantsInOrder
  BY <1>3 DEF LimiterInit, GrantsInOrder
<1>5. ListIsEnough
  BY <1>3, LimiterNats DEF LimiterInit, ListIsEnough, GrantedSince
<1>6. QED
  BY <1>1, <1>2, <1>4, <1>5 DEF LimiterInv

\* What the sweep and the window drop no longer counts, although the thread looks at
\* a time it read before it had the lock, and the sweep at the last entry only.
LEMMA DroppedIsOver ==
  ASSUME LimiterInv, NEW k \in Keys, NEW now \in 0..MaxTime, now <= clock, clock <= now + Lag
  PROVE  /\ Swept(now)[k] \subseteq requests[k]
         /\ Recent(now, k) \subseteq Swept(now)[k]
         /\ \A e \in requests[k] \ Recent(now, k) : e.granted <= clock - (Window - Lag)
<1>1. /\ requests[k] \subseteq Entries /\ requests[k] \subseteq grants[k] /\ clock \in Int /\ now \in Int
      /\ \A e \in grants[k] : e.granted <= e.at + Lag
      /\ \A d \in grants[k], e \in grants[k] : d.no <= e.no => d.granted <= e.granted
  BY DEF LimiterInv, LimiterShapes, GrantsInOrder, ListIsEnough
<1>2. Window \in Int /\ Lag \in Int
  BY LimiterNats
<1>3. \A e \in requests[k] : e.at \in Int /\ e.granted \in Int /\ e.no \in Int /\ e \in grants[k]
  BY <1>1 DEF Entries
<1>4. \A e \in requests[k] : e.at <= now - Window => e.granted <= clock - (Window - Lag)
  BY <1>1, <1>2, <1>3
<1>5. Swept(now)[k] = IF SweepDue(now) /\ Idle(requests[k], now - Window) THEN {} ELSE requests[k]
  BY DEF Swept
<1>6. Recent(now, k) = {e \in Swept(now)[k] : e.at > now - Window}
  BY DEF Recent
<1>7. CASE Swept(now)[k] = requests[k]
  BY <1>2, <1>3, <1>4, <1>6, <1>7, <1>1
<1>8. CASE Swept(now)[k] # requests[k]
  <2>1. Swept(now)[k] = {} /\ Recent(now, k) = {}
    BY <1>5, <1>6, <1>8
  <2>2. requests[k] # {} /\ Idle(requests[k], now - Window)
    BY <1>5, <1>8
  <2>3. PICK last \in requests[k] : last.at <= now - Window /\ \A e \in requests[k] : e.no <= last.no
    BY <2>2 DEF Idle
  <2>4. last.granted <= clock - (Window - Lag)
    BY <1>4, <2>3
  <2>5. \A e \in requests[k] : e.granted <= last.granted
    BY <1>1, <1>3, <2>3
  <2>6. \A e \in requests[k] : e.granted <= clock - (Window - Lag)
    BY <1>1, <1>2, <1>3, <2>3, <2>4, <2>5
  <2>7. QED
    BY <2>1, <2>6
<1>9. QED
  BY <1>7, <1>8

\* A thread reads the time: what it holds is no older than now.
LEMMA ReadTimeKeeps ==
  ASSUME LimiterInv, NEW r \in Requesters, ReadTime(r)
  PROVE  LimiterInv'
<1>1. stamp' = [stamp EXCEPT ![r] = clock] /\ UNCHANGED <<clock, requests, lastPrune, grants>>
  BY DEF ReadTime
<1>2. LimiterShapes'
  BY <1>1 DEF LimiterInv, LimiterShapes, Stamps
<1>3. StampsAreFresh'
  BY <1>1, LimiterNats DEF LimiterInv, LimiterShapes, StampsAreFresh, Stamps
<1>4. GrantsInOrder' /\ ListIsEnough'
  BY <1>1 DEF LimiterInv, GrantsInOrder, ListIsEnough, GrantedSince
<1>5. QED
  BY <1>2, <1>3, <1>4 DEF LimiterInv

\* The clock goes on while no thread has waited for longer than Lag.
LEMMA ClockTicksKeeps ==
  ASSUME LimiterInv, ClockTicks
  PROVE  LimiterInv'
<1>1. /\ clock < MaxTime /\ clock' = clock + 1 /\ UNCHANGED <<stamp, requests, lastPrune, grants>>
      /\ \A r \in Requesters : stamp[r] # NoTime => clock < stamp[r] + Lag
  BY DEF ClockTicks
<1>2. clock \in 0..MaxTime /\ clock' \in 0..MaxTime
  BY <1>1, LimiterNats DEF LimiterInv, LimiterShapes
<1>3. LimiterShapes'
  BY <1>1, <1>2 DEF LimiterInv, LimiterShapes
<1>4. StampsAreFresh'
  <2> SUFFICES ASSUME NEW r \in Requesters, stamp[r] # NoTime
               PROVE stamp[r] <= clock + 1 /\ clock + 1 <= stamp[r] + Lag
    BY <1>1 DEF StampsAreFresh
  <2>1. stamp[r] \in 0..MaxTime /\ stamp[r] <= clock /\ clock < stamp[r] + Lag
    BY <1>1 DEF LimiterInv, LimiterShapes, StampsAreFresh, Stamps
  <2>2. QED
    BY <1>2, <2>1, LimiterNats
<1>5. \A k \in Keys : \A e \in grants[k] : e.granted \in 0..MaxTime
  BY DEF LimiterInv, LimiterShapes, Entries
<1>6. GrantsInOrder'
  <2>1. \A k \in Keys : \A e \in grants[k] : e.granted <= clock => e.granted <= clock'
    BY <1>1, <1>2, <1>5
  <2>2. QED
    BY <1>1, <2>1 DEF LimiterInv, GrantsInOrder
<1>7. ListIsEnough'
  <2> SUFFICES ASSUME NEW k \in Keys
               PROVE /\ requests[k] \subseteq grants[k]
                     /\ \A e \in grants[k] : e.granted > clock' - (Window - Lag) => e \in requests[k]
                     /\ Cardinality(requests[k]) <= MaxRequests
    BY <1>1 DEF ListIsEnough, GrantedSince
  <2>1. \A e \in grants[k] : e.granted > clock' - (Window - Lag) => e.granted > clock - (Window - Lag)
    BY <1>1, <1>2, <1>5, LimiterNats
  <2>2. QED
    BY <2>1 DEF LimiterInv, ListIsEnough, GrantedSince
<1>8. QED
  BY <1>3, <1>4, <1>6, <1>7 DEF LimiterInv

\* One request is decided; every key may be swept.
LEMMA AllowKeeps ==
  ASSUME LimiterInv, NEW r \in Requesters, NEW k \in Keys, Allow(r, k)
  PROVE  LimiterInv'
<1>1. PICK now, recent, new :
        now = stamp[r] /\ recent = Recent(now, k) /\ new = Entry(now, k)
  OBVIOUS
<1>2. PICK granted \in BOOLEAN : granted <=> HasRoom(recent)
  BY DEF HasRoom
<1>3. /\ now # NoTime /\ clock' = clock
      /\ lastPrune' = (IF SweepDue(now) THEN now ELSE lastPrune)
      /\ stamp' = [stamp EXCEPT ![r] = NoTime]
      /\ requests' = [Swept(now) EXCEPT ![k] = recent \cup (IF granted THEN {new} ELSE {})]
      /\ grants' = (IF granted THEN [grants EXCEPT ![k] = grants[k] \cup {new}] ELSE grants)
  BY <1>1, <1>2 DEF Allow
<1>4. now \in 0..MaxTime /\ now <= clock /\ clock <= now + Lag /\ clock \in 0..MaxTime
  BY <1>1, <1>3 DEF LimiterInv, LimiterShapes, Stamps, StampsAreFresh
<1>5. \A j \in Keys : /\ requests[j] \subseteq Entries /\ grants[j] \subseteq Entries
                      /\ IsFiniteSet(grants[j]) /\ requests[j] \subseteq grants[j] /\ Cardinality(grants[j]) \in Nat
                      /\ IsFiniteSet(requests[j]) /\ Cardinality(requests[j]) \in Nat
  BY FS_Subset, FS_CardinalityType DEF LimiterInv, LimiterShapes, GrantsInOrder, ListIsEnough
<1>6. new \in Entries /\ new.no = Cardinality(grants[k]) + 1 /\ new.at = now /\ new.granted = clock
  BY <1>1, <1>4, <1>5 DEF Entry, Entries
<1>7. new \notin grants[k] /\ new \notin requests[k]
  BY <1>5, <1>6 DEF LimiterInv, GrantsInOrder
<1>8. \A j \in Keys : /\ grants'[j] = IF granted /\ j = k THEN grants[j] \cup {new} ELSE grants[j]
                      /\ requests'[j] = IF j # k THEN Swept(now)[j]
                                        ELSE recent \cup (IF granted THEN {new} ELSE {})
  <2>1. DOMAIN Swept(now) = Keys /\ DOMAIN grants = Keys
    BY DEF Swept, LimiterInv, LimiterShapes
  <2>2. QED
    BY <1>3, <2>1 DEF Swept
<1>9. \A j \in Keys : /\ Swept(now)[j] \subseteq requests[j]
                      /\ Recent(now, j) \subseteq Swept(now)[j]
                      /\ \A e \in requests[j] \ Recent(now, j) : e.granted <= clock - (Window - Lag)
  BY <1>4, DroppedIsOver
<1>10. LimiterShapes'
  <2>1. lastPrune' \in 0..MaxTime /\ stamp' \in [Requesters -> Stamps] /\ clock' \in 0..MaxTime
    BY <1>3, <1>4 DEF LimiterInv, LimiterShapes, Stamps
  <2>2. grants' \in [Keys -> SUBSET Entries]
    BY <1>3, <1>5, <1>6 DEF LimiterInv, LimiterShapes
  <2>3. requests' \in [Keys -> SUBSET Entries]
    <3>1. \A j \in Keys : requests'[j] \subseteq Entries
      <4>1. recent \subseteq Entries
        BY <1>1, <1>5, <1>9
      <4>2. \A j \in Keys : Swept(now)[j] \subseteq Entries
        BY <1>5, <1>9
      <4>3. recent \cup (IF granted THEN {new} ELSE {}) \subseteq Entries
        BY <4>1, <1>6
      <4> QED BY <1>8, <4>2, <4>3, Zenon
    <3>2. DOMAIN requests' = Keys /\ requests' = [j \in DOMAIN requests' |-> requests'[j]]
      BY <1>3 DEF Swept
    <3>3. QED
      BY <3>1, <3>2
  <2>4. QED
    BY <2>1, <2>2, <2>3 DEF LimiterShapes
<1>11. StampsAreFresh'
  BY <1>3 DEF LimiterInv, LimiterShapes, StampsAreFresh, Stamps
<1>12. ASSUME NEW j \in Keys
       PROVE  /\ IsFiniteSet(grants'[j])
              /\ \A e \in grants'[j] : e.no <= Cardinality(grants'[j]) /\ e.granted <= e.at + Lag /\ e.granted <= clock
              /\ \A d \in grants'[j], e \in grants'[j] : d.no <= e.no => d.granted <= e.granted
  <2>1. /\ \A e \in grants[j] : e.no <= Cardinality(grants[j]) /\ e.granted <= e.at + Lag /\ e.granted <= clock
        /\ \A d \in grants[j], e \in grants[j] : d.no <= e.no => d.granted <= e.granted
    BY DEF LimiterInv, GrantsInOrder
  <2>2. CASE ~(granted /\ j = k)
    BY <1>5, <1>8, <2>1, <2>2
  <2>3. CASE granted /\ j = k
    <3>1. grants'[j] = grants[k] \cup {new}
      BY <1>8, <2>3
    <3>2. PICK many \in Nat : many = Cardinality(grants[k])
      BY <1>5
    <3>3. IsFiniteSet(grants'[j]) /\ Cardinality(grants'[j]) = many + 1
      BY <1>5, <1>7, <3>1, <3>2, FS_AddElement
    <3>4. \A e \in grants[k] : /\ e.no \in Nat /\ e.granted \in Nat /\ e.at \in Nat
                               /\ e.no <= many /\ e.granted <= e.at + Lag /\ e.granted <= clock
      BY <1>5, <2>1, <2>3, <3>2 DEF Entries
    <3>5. new.no = many + 1 /\ new.granted = clock /\ new.at = now /\ clock <= now + Lag
      BY <1>4, <1>6, <3>2
    <3>6. \A e \in grants'[j] : e.no <= many + 1 /\ e.granted <= e.at + Lag /\ e.granted <= clock
      BY <1>4, <3>1, <3>4, <3>5
    <3>7. \A d \in grants'[j], e \in grants'[j] : d.no <= e.no => d.granted <= e.granted
      BY <1>4, <2>1, <2>3, <3>1, <3>4, <3>5
    <3>8. QED
      BY <3>3, <3>6, <3>7
  <2>4. QED
    BY <2>2, <2>3
<1>13. ASSUME NEW j \in Keys
       PROVE  /\ requests'[j] \subseteq grants'[j]
              /\ \A e \in grants'[j] : e.granted > clock - (Window - Lag) => e \in requests'[j]
              /\ Cardinality(requests'[j]) <= MaxRequests
  <2>1. /\ \A e \in grants[j] : e.granted > clock - (Window - Lag) => e \in requests[j]
        /\ Cardinality(requests[j]) <= MaxRequests
    BY DEF LimiterInv, ListIsEnough, GrantedSince
  <2>2. \A e \in grants[j] : e.granted > clock - (Window - Lag) => e \in Recent(now, j)
    <3>1. \A e \in grants[j] : e.granted \in Int /\ clock - (Window - Lag) \in Int
      BY <1>4, <1>5, LimiterNats DEF Entries
    <3>2. QED
      BY <1>9, <2>1, <3>1
  <2>3. IsFiniteSet(requests[j]) /\ Cardinality(requests[j]) \in Nat
    BY <1>5
  <2>4. /\ IsFiniteSet(Swept(now)[j]) /\ Cardinality(Swept(now)[j]) \in Nat
        /\ Cardinality(Swept(now)[j]) <= Cardinality(requests[j])
    BY <1>9, <2>3, FS_Subset, FS_CardinalityType
  <2>5. CASE j # k
    <3>1. requests'[j] = Swept(now)[j] /\ grants'[j] = grants[j]
      BY <1>8, <2>5
    <3>2. Cardinality(Swept(now)[j]) <= MaxRequests
      BY <2>1, <2>3, <2>4, LimiterNats
    <3>3. Swept(now)[j] \subseteq grants[j]
      BY <1>5, <1>9
    <3>4. \A e \in grants[j] : e.granted > clock - (Window - Lag) => e \in Swept(now)[j]
      BY <1>9, <2>2
    <3>5. QED
      BY <3>1, <3>2, <3>3, <3>4
  <2>6. CASE j = k /\ ~granted
    <3>1. requests'[j] = recent /\ grants'[j] = grants[j] /\ recent = Recent(now, j)
      BY <1>1, <1>8, <2>6
    <3>2. Cardinality(recent) \in Nat /\ Cardinality(recent) <= Cardinality(Swept(now)[j])
      BY <1>9, <2>4, <3>1, FS_Subset, FS_CardinalityType
    <3>3. Cardinality(recent) <= MaxRequests
      BY <2>1, <2>3, <2>4, <3>2, LimiterNats
    <3>4. QED
      BY <1>5, <1>9, <2>2, <3>1, <3>3
  <2>7. CASE j = k /\ granted
    <3>1. requests'[j] = recent \cup {new} /\ grants'[j] = grants[j] \cup {new} /\ recent = Recent(now, j)
      BY <1>1, <1>8, <2>7
    <3>2. IsFiniteSet(recent) /\ Cardinality(recent) \in Nat
      BY <1>9, <2>4, <3>1, FS_Subset, FS_CardinalityType
    <3>3. Cardinality(recent) < MaxRequests
      BY <1>2, <2>7 DEF HasRoom
    <3>4. new \notin recent
      BY <1>7, <1>9, <2>7, <3>1
    <3>5. Cardinality(recent \cup {new}) = Cardinality(recent) + 1
      BY <3>2, <3>4, FS_AddElement
    <3>6. Cardinality(requests'[j]) <= MaxRequests
      BY <3>1, <3>2, <3>3, <3>5, LimiterNats
    <3>7. QED
      BY <1>5, <1>9, <2>2, <3>1, <3>6
  <2>8. QED
    BY <2>5, <2>6, <2>7
<1>14. GrantsInOrder'
  BY <1>3, <1>12 DEF GrantsInOrder
<1>15. ListIsEnough'
  BY <1>3, <1>13 DEF ListIsEnough, GrantedSince
<1>16. QED
  BY <1>10, <1>11, <1>14, <1>15 DEF LimiterInv

\* The invariant of the rate limiter holds in every reachable state.
LEMMA LimiterInvAlways == LimiterSpec => []LimiterInv
<1>1. LimiterInv /\ [LimiterNext]_limiterVars => LimiterInv'
  <2> SUFFICES ASSUME LimiterInv, [LimiterNext]_limiterVars PROVE LimiterInv'
    OBVIOUS
  <2>1. CASE LimiterNext
    BY <2>1, ReadTimeKeeps, AllowKeeps, ClockTicksKeeps DEF LimiterNext
  <2>2. CASE UNCHANGED limiterVars
    BY <2>2 DEF limiterVars, LimiterInv, LimiterShapes, StampsAreFresh, GrantsInOrder, ListIsEnough, GrantedSince
  <2>3. QED
    BY <2>1, <2>2
<1>2. QED
  BY <1>1, LimiterInvInit, PTL DEF LimiterSpec

\* allow(): no key gets more than max_requests within a window, less the time a
\* thread may wait for the lock, for any number of threads and any interval between
\* two sweeps.
THEOREM WindowAlwaysKept == LimiterSpec => []WindowKept
<1>1. LimiterInv => WindowKept
  <2> SUFFICES ASSUME LimiterInv, NEW k \in Keys
               PROVE Cardinality(GrantedSince(k, clock - (Window - Lag))) <= MaxRequests
    BY DEF WindowKept
  <2>1. /\ IsFiniteSet(grants[k]) /\ requests[k] \subseteq grants[k] /\ Cardinality(requests[k]) <= MaxRequests
        /\ GrantedSince(k, clock - (Window - Lag)) \subseteq requests[k]
    BY DEF LimiterInv, GrantsInOrder, ListIsEnough
  <2>2. IsFiniteSet(requests[k])
    BY <2>1, FS_Subset
  <2>3. Cardinality(GrantedSince(k, clock - (Window - Lag))) <= Cardinality(requests[k])
    BY <2>1, <2>2, FS_Subset
  <2>4. /\ Cardinality(requests[k]) \in Nat
        /\ Cardinality(GrantedSince(k, clock - (Window - Lag))) \in Nat
    BY <2>1, <2>2, FS_Subset, FS_CardinalityType
  <2>5. QED
    BY <2>1, <2>3, <2>4, LimiterNats
<1>2. QED
  BY <1>1, LimiterInvAlways, PTL

\* The types of the limiter's state.
THEOREM LimiterTypeCorrect == LimiterSpec => []LimiterTypeOK
<1>1. LimiterInv => LimiterTypeOK
  BY DEF LimiterInv, LimiterShapes, ListIsEnough, LimiterTypeOK, Stamps
<1>2. QED
  BY <1>1, LimiterInvAlways, PTL

------------------------------------------------------------------------------
(***************************************************************************)
(* brain/security/resilience.py, and all the guards as they are checked.   *)
(***************************************************************************)

\* The other breaker's count stops at its threshold although call() counts a failure
\* in whatever state the circuit is by then.
THEOREM CircuitTypeCorrect == ResilienceSpec => []CircuitTypeOK
<1>1. ResilienceInit => CircuitTypeOK
  BY CircuitAssumption DEF ResilienceInit, CircuitTypeOK
<1>2. CircuitTypeOK /\ [ResilienceNext]_resilienceVars => CircuitTypeOK'
  <2> SUFFICES ASSUME CircuitTypeOK, [ResilienceNext]_resilienceVars
               PROVE  CircuitTypeOK'
    OBVIOUS
  <2> USE CircuitAssumption DEF CircuitTypeOK, Proceed, stageVars
  <2>1. ASSUME NEW c \in Clients, BeginProtectedCall(c) PROVE CircuitTypeOK'
    BY <2>1 DEF BeginProtectedCall
  <2>2. ASSUME NEW c \in Clients, Enter(c) \/ RejectCall(c) PROVE CircuitTypeOK'
    BY <2>2 DEF Enter, RejectCall
  <2>3. ASSUME NEW c \in Clients, CallSucceeds(c) PROVE CircuitTypeOK'
    BY <2>3 DEF CallSucceeds
  <2>4. ASSUME NEW c \in Clients, TryFails(c) \/ TryOnceMore(c) PROVE CircuitTypeOK'
    BY <2>4 DEF TryFails, TryOnceMore
  <2>5. ASSUME NEW c \in Clients, CallFails(c) PROVE CircuitTypeOK'
    <3>1. failures' = (IF failures < OpenAfter THEN failures + 1 ELSE failures) /\ UNCHANGED <<tries, responsive>>
      BY <2>5 DEF CallFails
    <3>2. circuit' \in {circuit, "open"} /\ rested' = FALSE /\ stage' = [stage EXCEPT ![c] = "outside"]
      BY <2>5 DEF CallFails
    <3>3. failures' \in 0..OpenAfter
      BY <3>1
    <3>4. QED
      BY <3>1, <3>2, <3>3
  <2>6. CASE ResetCircuit \/ TimeoutPasses \/ ServiceFlips
    <3>1. UNCHANGED <<stage, tries>> BY <2>6 DEF ResetCircuit, TimeoutPasses, ServiceFlips
    <3>2. circuit' \in {circuit, "closed"} /\ failures' \in {failures, 0}
      BY <2>6 DEF ResetCircuit, TimeoutPasses, ServiceFlips
    <3>3. rested' \in BOOLEAN /\ responsive' \in BOOLEAN
      BY <2>6 DEF ResetCircuit, TimeoutPasses, ServiceFlips
    <3>4. QED
      BY <3>1, <3>2, <3>3
  <2>7. CASE UNCHANGED resilienceVars
    BY <2>7, Zenon DEF resilienceVars
  <2>8. QED
    BY <2>1, <2>2, <2>3, <2>4, <2>5, <2>6, <2>7 DEF ResilienceNext, ClientStep
<1>3. QED
  BY <1>1, <1>2, PTL DEF ResilienceSpec

\* A behaviour of the run over all guards is one of each of them, so that what is
\* proved of a guard holds there too.
LEMMA GuardsRunEach == GuardsSpec => BreakerSpec /\ ResilienceSpec /\ LimiterSpec
<1>1. GuardsInit => BreakerInit /\ ResilienceInit /\ LimiterInit
  BY DEF GuardsInit
<1>2. [GuardsNext]_vars => [BreakerNext]_breakerVars /\ [ResilienceNext]_resilienceVars /\ [LimiterNext]_limiterVars
  BY DEF GuardsNext, vars
<1>3. QED
  BY <1>1, <1>2, PTL DEF GuardsSpec, BreakerSpec, ResilienceSpec, LimiterSpec

\* circuit_breaker.py, resilience.py: the types of every guard, whichever is in focus.
THEOREM GuardsTypesAlways == GuardsSpec => []GuardsTypeOK
<1>1. BreakerTypeOK /\ CircuitTypeOK /\ LimiterTypeOK => GuardsTypeOK
  BY DEF GuardsTypeOK
<1>2. QED
  BY <1>1, GuardsRunEach, BreakerTypeCorrect, CircuitTypeCorrect, LimiterTypeCorrect, PTL
==============================================================================
