----------------------------- MODULE BreakerSpec -----------------------------
(***************************************************************************)
(* What the backend's Redis circuit breaker promises its callers, without  *)
(* saying how health is measured: how many calls may be outstanding, when  *)
(* a probe may go out after the breaker opened, how many probes one        *)
(* opening may spend, and what it takes to close again.  RedisBreaker      *)
(* implements it.                                                          *)
(***************************************************************************)
EXTENDS Naturals

CONSTANTS
  MaxInflight,        \* outstanding calls while closed
  HalfOpenProbes,     \* probes of one half-open period
  RecoverySuccesses,  \* successes a half-open period needs to close
  OpenCooldown        \* the shortest time between opening and the first probe

VARIABLES
  mode,    \* "CLOSED", "OPEN" or "HALF_OPEN"
  load,    \* calls outstanding
  since,   \* time since the breaker opened
  spent,   \* probes spent in this half-open period
  good     \* successes of this half-open period, up to RecoverySuccesses

specVars == <<mode, load, since, spent, good>>

Init == mode = "CLOSED" /\ load = 0 /\ since = 0 /\ spent = 0 /\ good = 0

LetThrough ==
  /\ mode = "CLOSED" /\ load < MaxInflight
  /\ load' = load + 1
  /\ UNCHANGED <<mode, since, spent, good>>

Probe ==
  /\ mode = "HALF_OPEN" /\ spent < HalfOpenProbes /\ load < HalfOpenProbes
  /\ load' = load + 1 /\ spent' = spent + 1
  /\ UNCHANGED <<mode, since, good>>

\* The first caller after the cooldown probes at once if there is room.
HalfOpen ==
  /\ mode = "OPEN" /\ since >= OpenCooldown
  /\ mode' = "HALF_OPEN" /\ good' = 0 /\ since' = 0
  /\ \/ load < HalfOpenProbes /\ load' = load + 1 /\ spent' = 1
     \/ load >= HalfOpenProbes /\ load' = load /\ spent' = 0

Open == mode' = "OPEN" /\ since' = 0 /\ UNCHANGED <<spent, good>>

\* A success: it can close a half-open breaker, or reveal a bad window.
Succeed ==
  /\ load > 0 /\ load' = load - 1
  /\ \/ mode = "HALF_OPEN" /\ UNCHANGED <<since, spent>>
        /\ \/ good < RecoverySuccesses /\ good' = good + 1
           \/ good = RecoverySuccesses /\ good' = good
        /\ \/ mode' = mode
           \/ good' = RecoverySuccesses /\ mode' = "CLOSED"
     \/ mode # "HALF_OPEN" /\ UNCHANGED <<mode, since, spent, good>>
     \/ mode = "CLOSED" /\ Open

\* A failure: it always ends a half-open period.
Fail ==
  /\ load > 0 /\ load' = load - 1
  /\ \/ mode # "OPEN" /\ Open
     \/ mode # "HALF_OPEN" /\ UNCHANGED <<mode, since, spent, good>>

GiveUp == mode = "HALF_OPEN" /\ Open /\ UNCHANGED load

Wait == since' = since + 1 /\ UNCHANGED <<mode, load, spent, good>>

Next ==
  \/ LetThrough \/ Probe \/ HalfOpen
  \/ Succeed \/ Fail \/ GiveUp \/ Wait

Spec == Init /\ [][Next]_specVars
=============================================================================
