----------------------------- MODULE RateLimiter -----------------------------
(***************************************************************************)
(* brain/security/resilience.py, RateLimiter: a sliding window of request  *)
(* times for each key.  allow() reads the clock before it takes the lock,  *)
(* so times may be entered out of order.                                   *)
(***************************************************************************)
EXTENDS Integers, FiniteSets

CONSTANTS Requesters,   \* threads that call allow()
          Keys,
          MaxRequests,  \* max_requests
          Window,       \* window_seconds
          PruneEvery,   \* windows between two sweeps of idle keys
          MaxTime,      \* bound: the clock stops here
          Lag           \* bound: how long a thread waits for the lock

NoTime == -1

ASSUME LimiterAssumption ==
  /\ {MaxRequests, Window, PruneEvery} \subseteq Nat \ {0}
  /\ MaxTime \in Nat /\ Lag \in Nat

VARIABLES clock,       \* time.monotonic()
          stamp,       \* the time each thread has read for its request, or none
          requests,    \* _requests: the entries of each key; one not in the dict has none
          lastPrune,   \* _last_prune
          grants       \* history: every entry that was made

limiterVars == <<clock, stamp, requests, lastPrune, grants>>

\* An entry of a key's list: its place in the order they were appended in, the time
\* its thread had read and, as history, that at which the request was granted.
Entries == [no : Nat \ {0}, at : 0..MaxTime, granted : 0..MaxTime]

LimiterInit ==
  /\ clock = 0
  /\ stamp = [r \in Requesters |-> NoTime]
  /\ requests = [k \in Keys |-> {}]
  /\ lastPrune = 0
  /\ grants = [k \in Keys |-> {}]

\* now = time.monotonic(), outside the lock.
ReadTime(r) ==
  /\ stamp[r] = NoTime
  /\ stamp' = [stamp EXCEPT ![r] = clock]
  /\ UNCHANGED <<clock, requests, lastPrune, grants>>

SweepDue(now) == now - lastPrune >= PruneEvery * Window

\* No entry, or the last one is too old.
Idle(entries, cutoff) ==
  entries # {} => \E last \in entries : last.at <= cutoff /\ \A e \in entries : e.no <= last.no

\* Slip: the first, not the last request decides whether a key is idle.
SweptByFirst(now) ==
  [k \in Keys |-> IF SweepDue(now) /\ \E first \in requests[k] :
                       first.at <= now - Window /\ \A e \in requests[k] : e.no >= first.no
                  THEN {} ELSE requests[k]]

\* _prune_idle_keys: the requests that are left.
Swept(now) ==
  [k \in Keys |-> IF SweepDue(now) /\ Idle(requests[k], now - Window) THEN {} ELSE requests[k]]

\* The requests of a key that are still inside the window.
Recent(now, k) == {e \in Swept(now)[k] : e.at > now - Window}

HasRoom(recent) == Cardinality(recent) < MaxRequests

Entry(now, k) == [no |-> Cardinality(grants[k]) + 1, at |-> now, granted |-> clock]

\* allow(), from the lock on.
Allow(r, k) ==
  LET now == stamp[r]
      recent == Recent(now, k)
      granted == HasRoom(recent)
  IN /\ now # NoTime
     /\ lastPrune' = IF SweepDue(now) THEN now ELSE lastPrune
     /\ requests' = [Swept(now) EXCEPT ![k] = recent \cup (IF granted THEN {Entry(now, k)} ELSE {})]
     /\ grants' = IF granted THEN [grants EXCEPT ![k] = @ \cup {Entry(now, k)}] ELSE grants
     /\ stamp' = [stamp EXCEPT ![r] = NoTime]
     /\ UNCHANGED clock

ClockTicks ==
  /\ clock < MaxTime
  /\ \A r \in Requesters : stamp[r] # NoTime => clock < stamp[r] + Lag
  /\ clock' = clock + 1
  /\ UNCHANGED <<stamp, requests, lastPrune, grants>>

LimiterNext ==
  \/ \E r \in Requesters : ReadTime(r) \/ \E k \in Keys : Allow(r, k)
  \/ ClockTicks

LimiterSpec == LimiterInit /\ [][LimiterNext]_limiterVars
------------------------------------------------------------------------------
LimiterTypeOK ==
  /\ clock \in 0..MaxTime
  /\ stamp \in [Requesters -> 0..MaxTime \cup {NoTime}]
  /\ \A k \in Keys : /\ requests[k] \subseteq Entries
                     /\ Cardinality(requests[k]) <= MaxRequests
  /\ lastPrune \in 0..MaxTime

GrantedSince(k, first) == {e \in grants[k] : e.granted > first}

\* No key gets more than max_requests within a window, less the time a thread
\* may wait for the lock: neither requests entered out of order nor the sweep of
\* idle keys, which looks at the last entry only, let a crowd through.
WindowKept ==
  \A k \in Keys : Cardinality(GrantedSince(k, clock - (Window - Lag))) <= MaxRequests
==============================================================================
