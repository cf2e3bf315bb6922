---------------------------- MODULE RedisBreaker ----------------------------
(***************************************************************************)
(* The circuit breaker every Redis command of the identity backend goes    *)
(* through (uam-backend, config/redisCircuitBreaker.ts) and the client     *)
(* that uses it (config/redis.ts).  Node runs one callback at a time, so   *)
(* acquire, release and the timer each are one step; what interleaves are  *)
(* the calls, the timers, the connection events and the clock.             *)
(*                                                                         *)
(* One tick is one second, the breaker's bucket size.  Times are kept as   *)
(* ages, which stop growing where they no longer matter; the counters stop *)
(* at the threshold they are compared with.  A latency is its histogram    *)
(* band, a rate a percentage.                                              *)
(***************************************************************************)
EXTENDS Naturals, FiniteSets, Functions, FiniteSetsExt

CONSTANTS
  Calls,                   \* slots for calls that were let through
  WindowSecs, MinSamples, ConsecutiveFailOpen, ConsecutiveTimeoutOpen,
  ErrorRateOpen, TimeoutRateOpen, ErrorRateRecovery,
  OpenCooldown, CooldownJitter, HalfOpenProbes, RecoverySuccesses,
  MaxInflight, HalfOpenMax, OperationTimeout,
  HistBands,               \* number of histogram bands
  P99Open, P99Recovery,    \* the bands the p99 thresholds fall in
  Settlements,             \* how a command can settle: [outcome, band]
  MaxPerTick,              \* bound: cache commands issued in one tick
  MaxLate                  \* bound: commands outstanding after their timer

Bands == 1..HistBands

\* What clampConfig enforces.
ASSUME ClampAssumption ==
  /\ WindowSecs \in Nat \ {0} /\ MinSamples \in Nat /\ MinSamples >= 5
  /\ {ConsecutiveFailOpen, ConsecutiveTimeoutOpen, MaxInflight} \subseteq Nat \ {0}
  /\ {ErrorRateOpen, TimeoutRateOpen, ErrorRateRecovery} \subseteq 0..100
  /\ {OpenCooldown, CooldownJitter} \subseteq Nat
  /\ HalfOpenProbes \in Nat \ {0} /\ RecoverySuccesses \in 1..HalfOpenProbes
  /\ {HalfOpenMax, OperationTimeout} \subseteq Nat \ {0}

ASSUME BandAssumption ==
  /\ HistBands \in Nat \ {0}
  /\ P99Open \in Bands /\ P99Recovery \in Bands
  /\ Settlements \subseteq [outcome : {"SUCCESS", "TIMEOUT", "REDIS_ERROR"}, band : Bands]
  /\ [outcome |-> "SUCCESS", band |-> 1] \in Settlements

\* What clampConfig only warns about: without it there is no hysteresis.
ASSUME HysteresisAssumption ==
  /\ P99Recovery < P99Open
  /\ ErrorRateRecovery < ErrorRateOpen

\* The bounds on commands are numbers.
ASSUME BoundAssumption == MaxPerTick \in Nat /\ MaxLate \in Nat

\* A call that is let through finds a slot.
ASSUME CallsAssumption ==
  /\ IsFiniteSet(Calls)
  /\ Cardinality(Calls) >= MaxInflight /\ Cardinality(Calls) >= HalfOpenProbes

VARIABLES
  state, openedAge, cooldown, consecutiveFail, consecutiveTimeout,
  probesDispatched, halfOpenSuccesses, halfOpenAge, inflight,
  window,   \* window[a]: the bucket of the second a seconds ago
  call,     \* call[c]: the age of the call in slot c, Idle without one
  late,     \* commands still outstanding after their timer settled the call
  up,       \* Redis answers at once (environment)
  sent,     \* calls started in this tick
  pinged    \* the readiness probe of this tick has called /ready

breakerVars == <<state, openedAge, cooldown, probesDispatched, halfOpenSuccesses, halfOpenAge>>
healthVars == <<consecutiveFail, consecutiveTimeout, window>>
envVars == <<up, sent, pinged>>
vars == <<breakerVars, healthVars, inflight, call, late, envVars>>

CLOSED == "CLOSED"
OPEN == "OPEN"
HALF_OPEN == "HALF_OPEN"

Idle == OperationTimeout + 1
Running == {c \in Calls : call[c] # Idle}

Least(m, n) == IF m < n THEN m ELSE n

-----------------------------------------------------------------------------
(* RollingWindow *)

EmptyBucket == [errors |-> 0, timeouts |-> 0, hist |-> [b \in Bands |-> 0]]

\* There are WindowSecs buckets, found by second modulo WindowSecs: recording
\* in this second wipes the bucket of WindowSecs seconds ago.
Record(w, outcome, band) ==
  [w EXCEPT ![WindowSecs] = EmptyBucket,
            ![0].errors = @ + (IF outcome = "REDIS_ERROR" THEN 1 ELSE 0),
            ![0].timeouts = @ + (IF outcome = "TIMEOUT" THEN 1 ELSE 0),
            ![0].hist[band] = @ + 1]

Shifted(w) == [a \in 0..WindowSecs |-> IF a = 0 THEN EmptyBucket ELSE w[a - 1]]

Histogram(w) == [b \in Bands |-> SumFunction([a \in DOMAIN w |-> w[a].hist[b]])]
Total(w) == SumFunction(Histogram(w))
Errors(w) == SumFunction([a \in DOMAIN w |-> w[a].errors])
Timeouts(w) == SumFunction([a \in DOMAIN w |-> w[a].timeouts])

\* percentileUs(stats, 99): the first band at which the running count reaches
\* ceil(99% of the samples); 0 without samples.
P99(w) ==
  LET h == Histogram(w)
      target == (Total(w) * 99 + 99) \div 100
      Reached(b) == SumFunction([i \in 1..b |-> h[i]]) >= target
  IN IF Total(w) = 0 THEN 0 ELSE Min({b \in Bands : Reached(b)})

RateAtLeast(n, w, percent) == n * 100 >= percent * Total(w)

\* checkStatisticalOpen
Condemned(w) ==
  /\ Total(w) >= MinSamples
  /\ \/ RateAtLeast(Errors(w), w, ErrorRateOpen)
     \/ RateAtLeast(Timeouts(w), w, TimeoutRateOpen)
     \/ P99(w) >= P99Open

\* Mutant: recovery looks at the error rate alone.
RecoveredByErrorRate(w) == Errors(w) * 100 <= ErrorRateRecovery * Total(w)

Recovered(w) ==
  /\ P99(w) <= P99Recovery
  /\ Errors(w) * 100 <= ErrorRateRecovery * Total(w)

-----------------------------------------------------------------------------
Init ==
  /\ state = CLOSED /\ openedAge = 0 /\ cooldown = 0
  /\ consecutiveFail = 0 /\ consecutiveTimeout = 0
  /\ probesDispatched = 0 /\ halfOpenSuccesses = 0 /\ halfOpenAge = 0
  /\ inflight = 0
  /\ window = [a \in 0..WindowSecs |-> EmptyBucket]
  /\ call = [c \in Calls |-> Idle] /\ late = 0
  /\ up \in BOOLEAN /\ sent = 0 /\ pinged = FALSE

Jitters == IF CooldownJitter > 0 THEN 0..(CooldownJitter - 1) ELSE {0}

\* Mutant: a failure while open starts the cooldown again.
TripOpenAgain ==
  /\ state' = OPEN
  /\ openedAge' = 0 /\ \E j \in Jitters : cooldown' = OpenCooldown + j
  /\ halfOpenAge' = 0
  /\ UNCHANGED <<probesDispatched, halfOpenSuccesses>>

\* tripOpen; an open breaker keeps its first opening and cooldown.
TripOpen ==
  /\ state' = OPEN
  /\ IF state = OPEN THEN UNCHANGED <<openedAge, cooldown>>
     ELSE openedAge' = 0 /\ \E j \in Jitters : cooldown' = OpenCooldown + j
  /\ halfOpenAge' = 0
  /\ UNCHANGED <<probesDispatched, halfOpenSuccesses>>

Stay == UNCHANGED breakerVars

-----------------------------------------------------------------------------
(* acquire *)

Admit ==
  /\ inflight' = inflight + 1
  /\ \E c \in Calls \ Running : call' = [call EXCEPT ![c] = 0]

Refuse == UNCHANGED <<call, inflight>>

AcquireClosed ==
  /\ state = CLOSED
  /\ IF inflight >= MaxInflight THEN Refuse ELSE Admit
  /\ Stay

\* Mutant: probes are limited by what is in flight only.
TryProbeUnbudgeted(probes) ==
  IF inflight >= HalfOpenProbes
  THEN probesDispatched' = probes /\ Refuse
  ELSE probesDispatched' = probes + 1 /\ Admit

\* The probe part of acquireHalfOpen, given the probes already dispatched.
TryProbe(probes) ==
  IF probes >= HalfOpenProbes \/ inflight >= HalfOpenProbes
  THEN probesDispatched' = probes /\ Refuse
  ELSE probesDispatched' = probes + 1 /\ Admit

\* Mutant: a half-open period has no deadline.
AcquireHalfOpenNoDeadline ==
  /\ state = HALF_OPEN
  /\ TryProbe(probesDispatched)
  /\ UNCHANGED <<state, openedAge, cooldown, halfOpenSuccesses, halfOpenAge>>

AcquireHalfOpen ==
  /\ state = HALF_OPEN
  /\ IF halfOpenAge >= HalfOpenMax THEN TripOpen /\ Refuse
     ELSE /\ TryProbe(probesDispatched)
          /\ UNCHANGED <<state, openedAge, cooldown, halfOpenSuccesses, halfOpenAge>>

\* Mutant: a new half-open period goes on with the probes of the last one.
AcquireOpenKeepingProbes ==
  /\ state = OPEN
  /\ IF openedAge < cooldown THEN Stay /\ Refuse
     ELSE /\ state' = HALF_OPEN /\ halfOpenSuccesses' = 0 /\ halfOpenAge' = 0
          /\ TryProbe(probesDispatched)
          /\ openedAge' = 0 /\ UNCHANGED cooldown

AcquireOpen ==
  /\ state = OPEN
  /\ IF openedAge < cooldown THEN Stay /\ Refuse
     ELSE /\ state' = HALF_OPEN /\ halfOpenSuccesses' = 0 /\ halfOpenAge' = 0
          /\ TryProbe(0)
          /\ openedAge' = 0 /\ UNCHANGED cooldown

Acquire ==
  /\ AcquireClosed \/ AcquireOpen \/ AcquireHalfOpen
  /\ UNCHANGED <<healthVars, late>>

\* cacheSet, cacheGet, cacheDel, runRateLimitCommand: issued when a request
\* needs one and the connection has reported ready, so possibly never.
CacheCommand ==
  /\ sent < MaxPerTick
  /\ Acquire
  /\ sent' = sent + 1 /\ UNCHANGED <<up, pinged>>

\* pingRedisCache, once per tick: it does not ask whether the connection is ready.
Ping ==
  /\ ~pinged
  /\ Acquire
  /\ pinged' = TRUE /\ UNCHANGED <<up, sent>>

-----------------------------------------------------------------------------
(* release *)

ReleaseSuccess(w) ==
  /\ consecutiveFail' = 0 /\ consecutiveTimeout' = 0
  /\ IF state = HALF_OPEN
     THEN /\ halfOpenSuccesses' = Least(halfOpenSuccesses + 1, RecoverySuccesses)
          /\ state' = IF halfOpenSuccesses' = RecoverySuccesses /\ Recovered(w)
                      THEN CLOSED ELSE HALF_OPEN
          /\ halfOpenAge' = IF state' = CLOSED THEN 0 ELSE halfOpenAge
          /\ UNCHANGED <<openedAge, cooldown, probesDispatched>>
     ELSE IF Condemned(w) THEN TripOpen ELSE Stay

ReleaseTimeout(w) ==
  /\ consecutiveFail' = Least(consecutiveFail + 1, ConsecutiveFailOpen)
  /\ consecutiveTimeout' = Least(consecutiveTimeout + 1, ConsecutiveTimeoutOpen)
  /\ IF \/ state = HALF_OPEN
        \/ consecutiveTimeout' = ConsecutiveTimeoutOpen
        \/ consecutiveFail' = ConsecutiveFailOpen
        \/ Condemned(w)
     THEN TripOpen ELSE Stay

ReleaseError(w) ==
  /\ consecutiveFail' = Least(consecutiveFail + 1, ConsecutiveFailOpen)
  /\ UNCHANGED consecutiveTimeout
  /\ IF \/ state = HALF_OPEN
        \/ consecutiveFail' = ConsecutiveFailOpen
        \/ Condemned(w)
     THEN TripOpen ELSE Stay

Release(outcome, band) ==
  /\ inflight' = IF inflight > 0 THEN inflight - 1 ELSE 0
  /\ window' = Record(window, outcome, band)
  /\ \/ outcome = "SUCCESS" /\ ReleaseSuccess(window')
     \/ outcome = "TIMEOUT" /\ ReleaseTimeout(window')
     \/ outcome = "REDIS_ERROR" /\ ReleaseError(window')

-----------------------------------------------------------------------------
(* withCircuitBreaker: the command and its timer settle the call once *)

Freed(c) == call' = [call EXCEPT ![c] = Idle]

\* The command settles first; while Redis is up it answers at once.
Answer(c, how) ==
  /\ c \in Running
  /\ up => how.outcome = "SUCCESS" /\ how.band = 1
  /\ Release(how.outcome, how.band)
  /\ Freed(c)
  /\ UNCHANGED <<late, envVars>>

\* The timer fires first: the call is settled, the command goes on.
Timer(c) ==
  /\ call[c] = OperationTimeout
  /\ Release("TIMEOUT", HistBands)
  /\ Freed(c)
  /\ late' = Least(late + 1, MaxLate)
  /\ UNCHANGED envVars

\* Mutant: a command that settles after its timer releases again.
LateAnswerReleases ==
  /\ late > 0 /\ late' = late - 1
  /\ Release("SUCCESS", HistBands)
  /\ UNCHANGED <<call, envVars>>

LateAnswer ==
  /\ late > 0 /\ late' = late - 1
  /\ UNCHANGED <<breakerVars, healthVars, inflight, call, envVars>>

-----------------------------------------------------------------------------
(* The clock, and Redis *)

\* No second passes with a call a healthy Redis has yet to answer, with a
\* timer that is due, or without the readiness probe.  Redis goes up and down
\* from one second to the next.
Tick ==
  /\ pinged
  /\ \A c \in Running : ~up /\ call[c] < OperationTimeout
  /\ openedAge' = IF state = OPEN THEN Least(openedAge + 1, cooldown) ELSE openedAge
  /\ halfOpenAge' = IF state = HALF_OPEN THEN Least(halfOpenAge + 1, HalfOpenMax)
                    ELSE halfOpenAge
  /\ window' = Shifted(window)
  /\ call' = [c \in Calls |-> IF c \in Running THEN call[c] + 1 ELSE Idle]
  /\ sent' = 0 /\ pinged' = FALSE /\ up' \in BOOLEAN
  /\ UNCHANGED <<state, cooldown, probesDispatched, halfOpenSuccesses, late,
                 consecutiveFail, consecutiveTimeout, inflight>>

Next ==
  \/ CacheCommand \/ Ping
  \/ \E c \in Calls, how \in Settlements : Answer(c, how)
  \/ \E c \in Calls : Timer(c)
  \/ LateAnswer
  \/ Tick

Spec == Init /\ [][Next]_vars

Healthy(c) == up /\ Answer(c, [outcome |-> "SUCCESS", band |-> 1])

FairSpec ==
  /\ Spec
  /\ WF_vars(Tick) /\ WF_vars(Ping)
  /\ \A c \in Calls : WF_vars(Healthy(c)) /\ WF_vars(Timer(c))

-----------------------------------------------------------------------------
\* Every field keeps its type and every bounded counter its bound.
TypeOK ==
  /\ state \in {CLOSED, OPEN, HALF_OPEN}
  /\ openedAge \in Nat /\ cooldown \in Nat
  /\ consecutiveFail \in 0..ConsecutiveFailOpen
  /\ consecutiveTimeout \in 0..ConsecutiveTimeoutOpen
  /\ probesDispatched \in 0..HalfOpenProbes
  /\ halfOpenSuccesses \in 0..RecoverySuccesses
  /\ halfOpenAge \in 0..HalfOpenMax
  /\ inflight \in Nat
  /\ call \in [Calls -> 0..Idle] /\ late \in 0..MaxLate
  /\ window \in [0..WindowSecs -> [errors : Nat, timeouts : Nat, hist : [Bands -> Nat]]]
  /\ up \in BOOLEAN /\ sent \in Nat /\ pinged \in BOOLEAN

\* The inflight counter is the number of calls that were let through and not
\* yet settled, whichever of command and timer settles first: no slot leaks
\* and none is given back twice (the settle-once flag of withCircuitBreaker).
InflightExact == inflight = Cardinality(Running)

\* The breaker implements BreakerSpec: never more calls outstanding than
\* allowed, no probe before the shortest cooldown, no more probes per
\* half-open period than configured, no closing without enough successes.
Abs == INSTANCE BreakerSpec WITH
  mode <- state, load <- inflight, since <- openedAge,
  spent <- probesDispatched, good <- halfOpenSuccesses

ImplementsBreaker == Abs!Spec

\* A breaker closes only over a window in which its own error-rate and p99
\* detectors are quiet, so these do not reopen it at the next sample.
ClosesOverQuietWindow ==
  [][state = HALF_OPEN /\ state' = CLOSED =>
       /\ P99(window') < P99Open
       /\ ~RateAtLeast(Errors(window'), window', ErrorRateOpen)]_vars

\* "HALF_OPEN must never wedge": with the readiness probe calling, every
\* half-open period ends, whatever Redis does.
HalfOpenEnds == state = HALF_OPEN ~> state # HALF_OPEN

\* Once Redis stays healthy the breaker closes and stays closed.
ClosesAgain == <>[]up => <>[](state = CLOSED)
=============================================================================
