------------------------- MODULE RedisBreakerProofs -------------------------
(***************************************************************************)
(* Proofs about RedisBreaker, for every window, every set of thresholds    *)
(* and every number of callers: the fields keep their types, the inflight  *)
(* counter is exact, the breaker implements BreakerSpec, and it closes     *)
(* only over a window that does not condemn it.                            *)
(*                                                                         *)
(* The inductive invariant says that inflight counts the running calls and *)
(* that an open breaker has drawn a cooldown of at least OpenCooldown and  *)
(* has not waited longer than that cooldown.  Up to the refinement the     *)
(* judgement of a window plays no part.  The last theorem opens it: the    *)
(* sums over a window are natural numbers by induction on the size of a    *)
(* set, so its p99 is a band and the gap between the thresholds decides.   *)
(***************************************************************************)
EXTENDS RedisBreaker, ListProofs, FiniteSetTheorems

\* The part of the type invariant the proofs need, without the window.
Fields ==
  /\ state \in {CLOSED, OPEN, HALF_OPEN}
  /\ openedAge \in Nat /\ cooldown \in Nat
  /\ probesDispatched \in Nat /\ halfOpenSuccesses \in 0..RecoverySuccesses
  /\ inflight \in Nat
  /\ call \in [Calls -> 0..Idle]

IInv ==
  /\ Fields
  /\ InflightExact
  /\ state = OPEN => cooldown >= OpenCooldown /\ openedAge <= cooldown

-----------------------------------------------------------------------------
(* Arithmetic and counting *)

\* Capping a number never raises it.
LEMMA LeastBounds ==
  ASSUME NEW m \in Nat, NEW n \in Nat
  PROVE  Least(m, n) \in Nat /\ Least(m, n) <= m /\ Least(m, n) <= n
                             /\ (m <= n => Least(m, n) = m) /\ (m >= n => Least(m, n) = n)
  BY DEF Least

\* The jitter is a natural number.
LEMMA JittersAreNat == Jitters \subseteq Nat
  BY ClampAssumption DEF Jitters

\* The constants are natural numbers.
LEMMA ConstantTypes ==
  /\ OpenCooldown \in Nat /\ OperationTimeout \in Nat /\ Idle \in Nat
  /\ HalfOpenProbes \in Nat /\ RecoverySuccesses \in Nat /\ MaxInflight \in Nat
  /\ HalfOpenProbes > 0 /\ RecoverySuccesses > 0
  BY ClampAssumption DEF Idle

\* The running calls are a finite set.
LEMMA RunningFinite ==
  IsFiniteSet(Running) /\ Cardinality(Running) \in Nat
  <1>1. IsFiniteSet(Calls)
    BY CallsAssumption
  <1>2. Running \subseteq Calls
    BY DEF Running
  <1> QED
    BY <1>1, <1>2, FS_Subset, FS_CardinalityType

\* Occupying an idle slot adds one running call.
LEMMA AdmitCounts ==
  ASSUME IInv, Admit
  PROVE  inflight' \in Nat /\ call' \in [Calls -> 0..Idle] /\ InflightExact'
  <1>1. PICK c \in Calls \ Running : call' = [call EXCEPT ![c] = 0]
    BY ZenonT(30) DEF Admit
  <1>2. 0 \in 0..Idle /\ 0 # Idle
    BY ConstantTypes DEF Idle
  <1>3. call \in [Calls -> 0..Idle] /\ inflight \in Nat /\ inflight = Cardinality(Running)
    BY DEF IInv, Fields, InflightExact
  <1>4. Running' = Running \cup {c}
    BY <1>1, <1>2, <1>3 DEF Running
  <1>5. Cardinality(Running') = Cardinality(Running) + 1
    BY <1>1, <1>4, RunningFinite, FS_AddElement
  <1>6. call' \in [Calls -> 0..Idle]
    BY <1>1, <1>2, <1>3
  <1> QED
    BY <1>3, <1>5, <1>6 DEF Admit, InflightExact

\* Settling a running call takes it off the count.
LEMMA FreedCounts ==
  ASSUME IInv, NEW c \in Running, Freed(c),
         inflight' = IF inflight > 0 THEN inflight - 1 ELSE 0
  PROVE  inflight > 0 /\ inflight' = inflight - 1 /\ inflight' \in Nat
         /\ call' \in [Calls -> 0..Idle] /\ InflightExact'
  <1>1. c \in Calls /\ call' = [call EXCEPT ![c] = Idle]
    BY DEF Running, Freed
  <1>2. Idle \in 0..Idle
    BY ConstantTypes
  <1>3. call \in [Calls -> 0..Idle] /\ inflight \in Nat /\ inflight = Cardinality(Running)
    BY DEF IInv, Fields, InflightExact
  <1>4. Running' = Running \ {c}
    BY <1>1, <1>2, <1>3 DEF Running
  <1>5. Cardinality(Running') = Cardinality(Running) - 1
    BY <1>4, RunningFinite, FS_RemoveElement
  <1>6. Running # {}
    OBVIOUS
  <1>7. Cardinality(Running) # 0
    BY <1>6, RunningFinite, FS_EmptySet
  <1>8. call' \in [Calls -> 0..Idle]
    BY <1>1, <1>2, <1>3
  <1> QED
    BY <1>3, <1>5, <1>7, <1>8 DEF InflightExact

-----------------------------------------------------------------------------
(* What the pieces of acquire and release do to the fields *)

\* TripOpen opens the breaker, or leaves an open one as it is.
LEMMA TripOpens ==
  ASSUME IInv, TripOpen
  PROVE  /\ state' = OPEN
         /\ openedAge' \in Nat /\ cooldown' \in Nat /\ cooldown' >= OpenCooldown
         /\ openedAge' <= cooldown'
         /\ state = OPEN => openedAge' = openedAge
         /\ state # OPEN => openedAge' = 0
         /\ probesDispatched' = probesDispatched
         /\ halfOpenSuccesses' = halfOpenSuccesses
  <1>1. CASE state = OPEN
    BY <1>1 DEF TripOpen, IInv, Fields
  <1>2. CASE state # OPEN
    <2>1. PICK j \in Jitters : cooldown' = OpenCooldown + j
      BY <1>2 DEF TripOpen
    <2>2. cooldown' \in Nat /\ cooldown' >= OpenCooldown
      BY <2>1, JittersAreNat, ConstantTypes
    <2> QED
      BY <1>2, <2>2 DEF TripOpen
  <1> QED
    BY <1>1, <1>2

\* What one call of acquire can do: refuse, admit while closed, probe, start
\* a half-open period, or end one at its deadline.
AcquireEffect ==
  \/ Refuse /\ UNCHANGED breakerVars
  \/ state = CLOSED /\ inflight < MaxInflight /\ Admit /\ UNCHANGED breakerVars
  \/ /\ state = HALF_OPEN /\ state' = HALF_OPEN
     /\ probesDispatched < HalfOpenProbes /\ inflight < HalfOpenProbes
     /\ probesDispatched' = probesDispatched + 1 /\ Admit
     /\ openedAge' = openedAge /\ cooldown' = cooldown
     /\ halfOpenSuccesses' = halfOpenSuccesses
  \/ /\ state = OPEN /\ openedAge >= cooldown /\ state' = HALF_OPEN
     /\ openedAge' = 0 /\ cooldown' = cooldown /\ halfOpenSuccesses' = 0
     /\ \/ inflight < HalfOpenProbes /\ probesDispatched' = 1 /\ Admit
        \/ inflight >= HalfOpenProbes /\ probesDispatched' = 0 /\ Refuse
  \/ state = HALF_OPEN /\ TripOpen /\ Refuse

\* acquire has no other effect.
LEMMA AcquireDoes ==
  ASSUME IInv, Acquire
  PROVE  AcquireEffect
  <1> USE DEF AcquireEffect
  <1>0. /\ inflight \in Nat /\ probesDispatched \in Nat /\ openedAge \in Nat
        /\ cooldown \in Nat
    BY DEF IInv, Fields
  <1>1. CASE AcquireClosed
    BY <1>0, <1>1, ConstantTypes DEF AcquireClosed, Stay
  <1>2. CASE AcquireHalfOpen
    <2>1. CASE halfOpenAge >= HalfOpenMax
      BY <1>2, <2>1 DEF AcquireHalfOpen
    <2>2. CASE ~(halfOpenAge >= HalfOpenMax)
      <3>1. /\ state = HALF_OPEN /\ state' = HALF_OPEN /\ TryProbe(probesDispatched)
            /\ openedAge' = openedAge /\ cooldown' = cooldown
            /\ halfOpenSuccesses' = halfOpenSuccesses /\ halfOpenAge' = halfOpenAge
        BY <1>2, <2>2 DEF AcquireHalfOpen
      <3>2. CASE probesDispatched >= HalfOpenProbes \/ inflight >= HalfOpenProbes
        BY <3>1, <3>2 DEF TryProbe, breakerVars
      <3>3. CASE ~(probesDispatched >= HalfOpenProbes \/ inflight >= HalfOpenProbes)
        <4>1. probesDispatched < HalfOpenProbes /\ inflight < HalfOpenProbes
          BY <3>3, <1>0, ConstantTypes
        <4>2. probesDispatched' = probesDispatched + 1 /\ Admit
          BY <3>1, <3>3 DEF TryProbe
        <4> QED
          BY <3>1, <4>1, <4>2
      <3> QED
        BY <3>2, <3>3
    <2> QED
      BY <2>1, <2>2
  <1>3. CASE AcquireOpen
    <2>1. CASE openedAge < cooldown
      BY <1>3, <2>1 DEF AcquireOpen, Stay
    <2>2. CASE ~(openedAge < cooldown)
      <3>1. /\ state = OPEN /\ state' = HALF_OPEN /\ halfOpenSuccesses' = 0
            /\ TryProbe(0) /\ openedAge' = 0 /\ cooldown' = cooldown
        BY <1>3, <2>2 DEF AcquireOpen
      <3>2. openedAge >= cooldown
        BY <1>0, <2>2
      <3>3. CASE inflight >= HalfOpenProbes
        BY <3>1, <3>2, <3>3 DEF TryProbe
      <3>4. CASE ~(inflight >= HalfOpenProbes)
        <4>1. ~(0 >= HalfOpenProbes) /\ inflight < HalfOpenProbes
          BY <1>0, <3>4, ConstantTypes
        <4>2. probesDispatched' = 1 /\ Admit
          BY <3>1, <3>4, <4>1 DEF TryProbe
        <4> QED
          BY <3>1, <3>2, <4>1, <4>2
      <3> QED
        BY <3>3, <3>4
    <2> QED
      BY <2>1, <2>2
  <1> QED
    BY <1>1, <1>2, <1>3 DEF Acquire

\* What settling a call can do to the breaker: nothing, a trip, or a success
\* of a half-open period, which closes the breaker only when there are enough.
ReleaseEffect ==
  \/ state # HALF_OPEN /\ UNCHANGED breakerVars
  \/ TripOpen
  \/ /\ state = HALF_OPEN
     /\ halfOpenSuccesses' = Least(halfOpenSuccesses + 1, RecoverySuccesses)
     /\ \/ state' = HALF_OPEN
        \/ state' = CLOSED /\ halfOpenSuccesses' = RecoverySuccesses
     /\ openedAge' = openedAge /\ cooldown' = cooldown
     /\ probesDispatched' = probesDispatched

\* release has no other effect.
LEMMA ReleaseDoes ==
  ASSUME NEW outcome, NEW band, Release(outcome, band)
  PROVE  ReleaseEffect /\ inflight' = IF inflight > 0 THEN inflight - 1 ELSE 0
  <1>0. inflight' = IF inflight > 0 THEN inflight - 1 ELSE 0
    BY DEF Release
  <1> SUFFICES ReleaseEffect
    BY <1>0
  <1>1. CASE ReleaseSuccess(window')
    <2>1. CASE state = HALF_OPEN
      BY <1>1, <2>1 DEF ReleaseSuccess, ReleaseEffect
    <2>2. CASE state # HALF_OPEN
      BY <1>1, <2>2 DEF ReleaseSuccess, ReleaseEffect, Stay
    <2> QED
      BY <2>1, <2>2
  <1>2. CASE ReleaseTimeout(window')
    BY <1>2 DEF ReleaseTimeout, ReleaseEffect, Stay
  <1>3. CASE ReleaseError(window')
    BY <1>3 DEF ReleaseError, ReleaseEffect, Stay
  <1> QED
    BY <1>1, <1>2, <1>3 DEF Release

\* Every step of the breaker is an acquire, a settled call, time passing, or nothing.
LEMMA StepCases ==
  ASSUME IInv, [Next]_vars
  PROVE  \/ Acquire
         \/ \E c \in Running : ReleaseEffect /\ Freed(c)
              /\ inflight' = IF inflight > 0 THEN inflight - 1 ELSE 0
         \/ UNCHANGED <<breakerVars, inflight, call>>
         \/ Tick
  <1>1. CASE CacheCommand \/ Ping
    BY <1>1 DEF CacheCommand, Ping
  <1>2. CASE \E c \in Calls, how \in Settlements : Answer(c, how)
    <2>1. PICK c \in Calls, how \in Settlements : Answer(c, how)
      BY <1>2
    <2>2. c \in Running /\ Release(how.outcome, how.band) /\ Freed(c)
      BY <2>1 DEF Answer
    <2> QED
      BY <2>2, ReleaseDoes
  <1>3. CASE \E c \in Calls : Timer(c)
    <2>1. PICK c \in Calls : Timer(c)
      BY <1>3
    <2>2. c \in Running /\ Release("TIMEOUT", HistBands) /\ Freed(c)
      BY <2>1, ConstantTypes DEF Timer, Running, Idle
    <2> QED
      BY <2>2, ReleaseDoes
  <1>4. CASE LateAnswer
    BY <1>4 DEF LateAnswer
  <1>5. CASE UNCHANGED vars
    BY <1>5 DEF vars
  <1> QED
    BY <1>1, <1>2, <1>3, <1>4, <1>5 DEF Next

-----------------------------------------------------------------------------
(* The inductive invariant *)

\* Refusing a call keeps the count.
LEMMA RefuseCounts ==
  ASSUME IInv, UNCHANGED <<call, inflight>>
  PROVE  inflight' \in Nat /\ call' \in [Calls -> 0..Idle] /\ InflightExact'
  <1>1. Running' = Running
    BY DEF Running
  <1> QED
    BY <1>1 DEF IInv, Fields, InflightExact

\* A new breaker is closed and has no call in flight.
LEMMA InitInv ==
  ASSUME Init
  PROVE  IInv
  <1>1. Running = {}
    BY ConstantTypes DEF Init, Running
  <1>2. Cardinality(Running) = 0
    BY <1>1, FS_EmptySet
  <1> QED
    BY <1>2, ConstantTypes DEF Init, IInv, Fields, InflightExact, CLOSED, OPEN, HALF_OPEN

\* acquire preserves the invariant.
LEMMA AcquireInv ==
  ASSUME IInv, Acquire
  PROVE  IInv'
  <1>0. AcquireEffect
    BY AcquireDoes
  <1>1. CASE Refuse /\ UNCHANGED breakerVars
    BY <1>1, RefuseCounts DEF Refuse, breakerVars, IInv, Fields
  <1>2. CASE state = CLOSED /\ inflight < MaxInflight /\ Admit /\ UNCHANGED breakerVars
    BY <1>2, AdmitCounts DEF breakerVars, IInv, Fields
  <1>3. CASE /\ state = HALF_OPEN /\ state' = HALF_OPEN
             /\ probesDispatched < HalfOpenProbes /\ inflight < HalfOpenProbes
             /\ probesDispatched' = probesDispatched + 1 /\ Admit
             /\ openedAge' = openedAge /\ cooldown' = cooldown
             /\ halfOpenSuccesses' = halfOpenSuccesses
    BY <1>3, AdmitCounts DEF IInv, Fields, HALF_OPEN, OPEN
  <1>4. CASE /\ state = OPEN /\ openedAge >= cooldown /\ state' = HALF_OPEN
             /\ openedAge' = 0 /\ cooldown' = cooldown /\ halfOpenSuccesses' = 0
             /\ \/ inflight < HalfOpenProbes /\ probesDispatched' = 1 /\ Admit
                \/ inflight >= HalfOpenProbes /\ probesDispatched' = 0 /\ Refuse
    <2>1. inflight' \in Nat /\ call' \in [Calls -> 0..Idle] /\ InflightExact'
      BY <1>4, AdmitCounts, RefuseCounts DEF Refuse
    <2>2. probesDispatched' \in Nat /\ openedAge' \in Nat /\ cooldown' \in Nat
          /\ halfOpenSuccesses' \in 0..RecoverySuccesses
      BY <1>4, ConstantTypes DEF IInv, Fields
    <2> QED
      BY <1>4, <2>1, <2>2 DEF IInv, Fields, HALF_OPEN, OPEN
  <1>5. CASE state = HALF_OPEN /\ TripOpen /\ Refuse
    BY <1>5, TripOpens, RefuseCounts DEF Refuse, IInv, Fields
  <1> QED
    BY <1>0, <1>1, <1>2, <1>3, <1>4, <1>5 DEF AcquireEffect

\* Settling a call preserves the invariant.
LEMMA SettleInv ==
  ASSUME IInv, NEW c \in Running, ReleaseEffect, Freed(c),
         inflight' = IF inflight > 0 THEN inflight - 1 ELSE 0
  PROVE  IInv'
  <1>0. inflight' \in Nat /\ call' \in [Calls -> 0..Idle] /\ InflightExact'
    BY FreedCounts
  <1>1. CASE state # HALF_OPEN /\ UNCHANGED breakerVars
    BY <1>0, <1>1 DEF breakerVars, IInv, Fields
  <1>2. CASE TripOpen
    BY <1>0, <1>2, TripOpens DEF IInv, Fields
  <1>3. CASE /\ state = HALF_OPEN
             /\ halfOpenSuccesses' = Least(halfOpenSuccesses + 1, RecoverySuccesses)
             /\ \/ state' = HALF_OPEN
                \/ state' = CLOSED /\ halfOpenSuccesses' = RecoverySuccesses
             /\ openedAge' = openedAge /\ cooldown' = cooldown
             /\ probesDispatched' = probesDispatched
    <2>1. halfOpenSuccesses + 1 \in Nat
      BY ConstantTypes DEF IInv, Fields
    <2>2. halfOpenSuccesses' \in 0..RecoverySuccesses
      BY <1>3, <2>1, LeastBounds, ConstantTypes
    <2> QED
      BY <1>0, <1>3, <2>2 DEF IInv, Fields, HALF_OPEN, OPEN, CLOSED
  <1> QED
    BY <1>1, <1>2, <1>3 DEF ReleaseEffect

\* The passing of a second preserves the invariant.
LEMMA TickInv ==
  ASSUME IInv, Tick
  PROVE  IInv'
  <1>1. call' \in [Calls -> 0..Idle] /\ Running' = Running
    <2>1. \A c \in Running : call[c] < OperationTimeout /\ call[c] \in Nat
      BY DEF Tick, IInv, Fields, Running
    <2>2. \A c \in Running : call[c] + 1 \in 0..Idle /\ call[c] + 1 # Idle
      BY <2>1, ConstantTypes DEF Idle
    <2>3. call' = [c \in Calls |-> IF c \in Running THEN call[c] + 1 ELSE Idle]
      BY DEF Tick
    <2>4. Idle \in 0..Idle
      BY ConstantTypes
    <2> QED
      BY <2>2, <2>3, <2>4 DEF Running
  <1>2. openedAge' \in Nat /\ (state = OPEN => openedAge' <= cooldown)
    BY LeastBounds DEF Tick, IInv, Fields
  <1> QED
    BY <1>1, <1>2 DEF Tick, IInv, Fields, InflightExact

\* Every step preserves the invariant.
LEMMA NextInv ==
  ASSUME IInv, [Next]_vars
  PROVE  IInv'
  <1>1. CASE Acquire
    BY <1>1, AcquireInv
  <1>2. CASE \E c \in Running : ReleaseEffect /\ Freed(c)
               /\ inflight' = IF inflight > 0 THEN inflight - 1 ELSE 0
    BY <1>2, SettleInv
  <1>3. CASE UNCHANGED <<breakerVars, inflight, call>>
    BY <1>3, RefuseCounts DEF breakerVars, IInv, Fields
  <1>4. CASE Tick
    BY <1>4, TickInv
  <1> QED
    BY <1>1, <1>2, <1>3, <1>4, StepCases

\* The inflight counter equals the number of calls let through and not yet
\* settled, however commands and their timers race (withCircuitBreaker).
THEOREM InflightIsExact == Spec => []InflightExact
  <1>1. Init => IInv
    BY InitInv
  <1>2. IInv /\ [Next]_vars => IInv'
    BY NextInv
  <1>3. IInv => InflightExact
    BY DEF IInv
  <1> QED
    BY <1>1, <1>2, <1>3, PTL DEF Spec

-----------------------------------------------------------------------------
(* Refinement *)

\* acquire is a step of BreakerSpec or changes nothing there.
LEMMA AcquireRefines ==
  ASSUME IInv, Acquire
  PROVE  [Abs!Next]_(Abs!specVars)
  <1>0. AcquireEffect
    BY AcquireDoes
  <1> USE DEF CLOSED, OPEN, HALF_OPEN
  <1>1. CASE Refuse /\ UNCHANGED breakerVars
    BY <1>1 DEF Refuse, breakerVars, Abs!specVars
  <1>2. CASE state = CLOSED /\ inflight < MaxInflight /\ Admit /\ UNCHANGED breakerVars
    <2>1. Abs!LetThrough
      BY <1>2 DEF Admit, breakerVars, Abs!LetThrough
    <2> QED
      BY <2>1 DEF Abs!Next
  <1>3. CASE /\ state = HALF_OPEN /\ state' = HALF_OPEN
             /\ probesDispatched < HalfOpenProbes /\ inflight < HalfOpenProbes
             /\ probesDispatched' = probesDispatched + 1 /\ Admit
             /\ openedAge' = openedAge /\ cooldown' = cooldown
             /\ halfOpenSuccesses' = halfOpenSuccesses
    <2>1. Abs!Probe
      BY <1>3 DEF Admit, Abs!Probe
    <2> QED
      BY <2>1 DEF Abs!Next
  <1>4. CASE /\ state = OPEN /\ openedAge >= cooldown /\ state' = HALF_OPEN
             /\ openedAge' = 0 /\ cooldown' = cooldown /\ halfOpenSuccesses' = 0
             /\ \/ inflight < HalfOpenProbes /\ probesDispatched' = 1 /\ Admit
                \/ inflight >= HalfOpenProbes /\ probesDispatched' = 0 /\ Refuse
    <2>1. openedAge >= OpenCooldown
      BY <1>4, ConstantTypes DEF IInv, Fields
    <2>2. Abs!HalfOpen
      BY <1>4, <2>1 DEF Admit, Refuse, Abs!HalfOpen
    <2> QED
      BY <2>2 DEF Abs!Next
  <1>5. CASE state = HALF_OPEN /\ TripOpen /\ Refuse
    <2>1. Abs!GiveUp
      BY <1>5, TripOpens DEF Refuse, Abs!GiveUp, Abs!Open
    <2> QED
      BY <2>1 DEF Abs!Next
  <1> QED
    BY <1>0, <1>1, <1>2, <1>3, <1>4, <1>5, ZenonT(30) DEF AcquireEffect

\* A settled call is a success or a failure of BreakerSpec.
LEMMA SettleRefines ==
  ASSUME IInv, NEW c \in Running, ReleaseEffect, Freed(c),
         inflight' = IF inflight > 0 THEN inflight - 1 ELSE 0
  PROVE  Abs!Next
  <1>0. inflight > 0 /\ inflight' = inflight - 1
    BY FreedCounts
  <1> USE DEF CLOSED, OPEN, HALF_OPEN
  <1>1. CASE state # HALF_OPEN /\ UNCHANGED breakerVars
    <2>1. Abs!Succeed
      BY <1>0, <1>1 DEF breakerVars, Abs!Succeed
    <2> QED
      BY <2>1 DEF Abs!Next
  <1>2. CASE TripOpen
    <2>1. Abs!Fail
      BY <1>0, <1>2, TripOpens DEF Abs!Fail, Abs!Open
    <2> QED
      BY <2>1 DEF Abs!Next
  <1>3. CASE /\ state = HALF_OPEN
             /\ halfOpenSuccesses' = Least(halfOpenSuccesses + 1, RecoverySuccesses)
             /\ \/ state' = HALF_OPEN
                \/ state' = CLOSED /\ halfOpenSuccesses' = RecoverySuccesses
             /\ openedAge' = openedAge /\ cooldown' = cooldown
             /\ probesDispatched' = probesDispatched
    <2>1. halfOpenSuccesses \in Nat /\ halfOpenSuccesses <= RecoverySuccesses
      BY ConstantTypes DEF IInv, Fields
    <2>2. \/ halfOpenSuccesses < RecoverySuccesses
             /\ halfOpenSuccesses' = halfOpenSuccesses + 1
          \/ halfOpenSuccesses = RecoverySuccesses
             /\ halfOpenSuccesses' = halfOpenSuccesses
      BY <1>3, <2>1, ConstantTypes DEF Least
    <2>3. Abs!Succeed
      BY <1>0, <1>3, <2>2 DEF Abs!Succeed
    <2> QED
      BY <2>3 DEF Abs!Next
  <1> QED
    BY <1>1, <1>2, <1>3 DEF ReleaseEffect

\* A passing second lets BreakerSpec wait, or is not seen there.
LEMMA TickRefines ==
  ASSUME IInv, Tick
  PROVE  [Abs!Next]_(Abs!specVars)
  <1>1. /\ state' = state /\ inflight' = inflight
        /\ probesDispatched' = probesDispatched /\ halfOpenSuccesses' = halfOpenSuccesses
        /\ openedAge' = IF state = OPEN THEN Least(openedAge + 1, cooldown) ELSE openedAge
    BY DEF Tick
  <1>2. CASE openedAge' = openedAge
    BY <1>1, <1>2 DEF Abs!specVars
  <1>3. CASE openedAge' = openedAge + 1
    BY <1>1, <1>3 DEF Abs!Next, Abs!Wait
  <1>4. openedAge' = openedAge \/ openedAge' = openedAge + 1
    BY <1>1 DEF Least, IInv, Fields
  <1> QED
    BY <1>2, <1>3, <1>4

\* The breaker implements BreakerSpec: every behaviour of acquire, release,
\* the timers and the clock is one the abstract breaker allows.
THEOREM Implements == Spec => ImplementsBreaker
  <1>1. Init => IInv /\ Abs!Init
    BY InitInv, ZenonT(30) DEF Init, Abs!Init, CLOSED
  <1>2. IInv /\ [Next]_vars => IInv'
    BY NextInv
  <1>3. IInv /\ [Next]_vars => [Abs!Next]_(Abs!specVars)
    <2> SUFFICES ASSUME IInv, [Next]_vars
                 PROVE  [Abs!Next]_(Abs!specVars)
      OBVIOUS
    <2>1. CASE UNCHANGED <<breakerVars, inflight, call>>
      BY <2>1 DEF breakerVars, Abs!specVars
    <2>2. CASE \E c \in Running : ReleaseEffect /\ Freed(c)
                 /\ inflight' = IF inflight > 0 THEN inflight - 1 ELSE 0
      BY <2>2, SettleRefines
    <2> QED
      BY <2>1, <2>2, StepCases, AcquireRefines, TickRefines
  <1> QED
    BY <1>1, <1>2, <1>3, PTL DEF Spec, ImplementsBreaker, Abs!Spec

-----------------------------------------------------------------------------
(* The window *)

Some(s) == CHOOSE x \in s : TRUE
UpTo(D, n) == {s \in SUBSET D : Cardinality(s) <= n}

\* The equation of the function that SumFunction computes, for the sets of at
\* most n elements.
Sums(sum, f, D, n) ==
  sum = [s \in UpTo(D, n) |-> IF s = {} THEN 0 ELSE f[Some(s)] + sum[s \ {Some(s)}]]

\* Taking an element out of a set makes it smaller.
LEMMA SomeFacts ==
  ASSUME NEW D, IsFiniteSet(D), NEW s \in SUBSET D, s # {}
  PROVE  /\ Some(s) \in s /\ s \ {Some(s)} \in SUBSET D
         /\ Cardinality(s) \in Nat /\ Cardinality(s) > 0
         /\ Cardinality(s \ {Some(s)}) = Cardinality(s) - 1
  <1>1. Some(s) \in s
    BY DEF Some
  <1>2. IsFiniteSet(s)
    BY FS_Subset
  <1>3. Cardinality(s) \in Nat /\ Cardinality(s \ {Some(s)}) = Cardinality(s) - 1
    BY <1>1, <1>2, FS_CardinalityType, FS_RemoveElement
  <1>4. Cardinality(s) # 0
    BY <1>2, FS_EmptySet
  <1>. QED BY <1>1, <1>3, <1>4

\* The recursion is well founded: there is a function that satisfies it.
LEMMA SumExists ==
  ASSUME NEW D, IsFiniteSet(D), NEW f
  PROVE  \A n \in Nat : \E sum : Sums(sum, f, D, n)
  <1>. DEFINE Term(g, s) == IF s = {} THEN 0 ELSE f[Some(s)] + g[s \ {Some(s)}]
              S == {n \in Nat : \E sum : Sums(sum, f, D, n)}
  <1>1. 0 \in S
    <2>. DEFINE sum == [s \in UpTo(D, 0) |-> 0]
    <2>1. ASSUME NEW s \in UpTo(D, 0)
          PROVE  s = {}
      <3>1. s \in SUBSET D /\ Cardinality(s) <= 0
        BY DEF UpTo
      <3>2. s # {} => Cardinality(s) > 0 /\ Cardinality(s) \in Nat
        BY <3>1, SomeFacts, ZenonT(30)
      <3>. QED BY <3>1, <3>2
    <2>2. Sums(sum, f, D, 0)
      BY <2>1 DEF Sums
    <2>. QED BY <2>2
  <1>2. ASSUME NEW n \in Nat, n \in S
        PROVE  n + 1 \in S
    <2>1. PICK g : Sums(g, f, D, n)
      BY <1>2
    <2>. DEFINE sum == [s \in UpTo(D, n + 1) |-> Term(g, s)]
    <2>2. ASSUME NEW s \in UpTo(D, n + 1)
          PROVE  Term(g, s) = Term(sum, s)
      <3>1. CASE s = {}
        BY <3>1
      <3>2. CASE s # {}
        <4>. DEFINE r == s \ {Some(s)}
        <4>1. r \in UpTo(D, n) /\ r \in UpTo(D, n + 1)
          BY <3>2, SomeFacts DEF UpTo
        <4>2. g[r] = Term(g, r)
          BY <2>1, <4>1, ZenonT(30) DEF Sums
        <4>3. sum[r] = Term(g, r)
          BY <4>1, ZenonT(30)
        <4>4. sum[r] = g[r]
          BY <4>2, <4>3, ZenonT(30)
        <4>. HIDE DEF sum
        <4>. QED BY <4>4, ZenonT(30)
      <3>. QED BY <3>1, <3>2, ZenonT(30)
    <2>3. Sums(sum, f, D, n + 1)
      BY <2>2, ZenonT(30) DEF Sums
    <2>. QED BY <2>3
  <1>3. Nat \subseteq S
    <2>. HIDE DEF S
    <2>. QED BY <1>1, <1>2, Induction
  <1>. QED BY <1>3

\* The sum of finitely many naturals is a natural, and at least each of them.
LEMMA SumFacts ==
  ASSUME NEW f, IsFiniteSet(DOMAIN f), \A x \in DOMAIN f : f[x] \in Nat
  PROVE  SumFunction(f) \in Nat /\ \A x \in DOMAIN f : SumFunction(f) >= f[x]
  <1>. DEFINE D == DOMAIN f
              c == Cardinality(D)
              sum == CHOOSE g : g = [s \in SUBSET D |-> IF s = {} THEN 0 ELSE f[Some(s)] + g[s \ {Some(s)}]]
  <1>0. c \in Nat
    BY FS_CardinalityType
  <1>1. UpTo(D, c) = SUBSET D
    BY FS_Subset, <1>0 DEF UpTo
  <1>2. Sums(sum, f, D, c)
    <2>1. PICK g : Sums(g, f, D, c)
      BY <1>0, SumExists
    <2>. QED BY <1>1, <2>1, ZenonT(30) DEF Sums
  <1>3. SumFunction(f) = sum[D]
    BY ZenonT(30) DEF SumFunction, SumFunctionOnSet, FoldFunctionOnSet, MapThenFoldSet, Some
  <1>4. ASSUME NEW s \in SUBSET D
        PROVE  sum[s] = IF s = {} THEN 0 ELSE f[Some(s)] + sum[s \ {Some(s)}]
    BY <1>1, <1>2, ZenonT(30) DEF Sums
  <1>. HIDE DEF sum, D
  <1>. DEFINE S == {n \in Nat : \A s \in SUBSET D : Cardinality(s) <= n =>
                                 sum[s] \in Nat /\ \A x \in s : sum[s] >= f[x]}
  <1>5. 0 \in S
    <2>1. ASSUME NEW s \in SUBSET D, Cardinality(s) <= 0
          PROVE  s = {}
      <3>1. s # {} => Cardinality(s) > 0 /\ Cardinality(s) \in Nat
        BY SomeFacts, ZenonT(30) DEF D
      <3>. QED BY <2>1, <3>1
    <2>2. ASSUME NEW s \in SUBSET D, Cardinality(s) <= 0
          PROVE  sum[s] \in Nat /\ \A x \in s : sum[s] >= f[x]
      BY <1>4, <2>1, <2>2
    <2>. QED BY <2>2
  <1>6. ASSUME NEW n \in Nat, n \in S
        PROVE  n + 1 \in S
    <2>1. ASSUME NEW s \in SUBSET D, Cardinality(s) <= n + 1, s # {}
          PROVE  sum[s] \in Nat /\ \A x \in s : sum[s] >= f[x]
      <3>. DEFINE r == s \ {Some(s)}
      <3>1. Some(s) \in s /\ r \in SUBSET D /\ Cardinality(r) <= n
        BY <2>1, SomeFacts DEF D
      <3>2. sum[r] \in Nat /\ \A x \in r : sum[r] >= f[x]
        BY <1>6, <3>1, ZenonT(30)
      <3>3. sum[s] = f[Some(s)] + sum[r]
        BY <1>4, <2>1, ZenonT(30)
      <3>4. \A x \in s : f[x] \in Nat
        BY DEF D
      <3>. QED BY <3>1, <3>2, <3>3, <3>4
    <2>2. ASSUME NEW s \in SUBSET D, s = {}
          PROVE  sum[s] \in Nat /\ \A x \in s : sum[s] >= f[x]
      <3>1. sum[s] = 0
        BY <1>4, <2>2, ZenonT(30)
      <3>. QED BY <2>2, <3>1
    <2>3. n + 1 \in Nat
      OBVIOUS
    <2>. QED BY <2>1, <2>2, <2>3, ZenonT(30)
  <1>7. Nat \subseteq S
    <2>. HIDE DEF S
    <2>. QED BY <1>5, <1>6, Induction
  <1>8. sum[D] \in Nat /\ \A x \in D : sum[D] >= f[x]
    BY <1>0, <1>7
  <1>. QED BY <1>3, <1>8 DEF D

\* The buckets of a window are numbers of samples.
Bucket == [errors : Nat, timeouts : Nat, hist : [Bands -> Nat]]
Windows == [0..WindowSecs -> Bucket]

\* The figures computed from a window are natural numbers, and no band has
\* more samples than the window.
LEMMA WindowSums ==
  ASSUME NEW w \in Windows
  PROVE  /\ Total(w) \in Nat /\ Errors(w) \in Nat
         /\ Histogram(w) \in [Bands -> Nat]
         /\ \A a \in 0..WindowSecs, b \in Bands : Total(w) >= w[a].hist[b]
  <1>0. IsFiniteSet(0..WindowSecs) /\ IsFiniteSet(Bands) /\ DOMAIN w = 0..WindowSecs
    BY ClampAssumption, BandAssumption, FS_Interval DEF Windows, Bands
  <1>1. ASSUME NEW b \in Bands
        PROVE  /\ Histogram(w)[b] \in Nat
               /\ \A a \in 0..WindowSecs : Histogram(w)[b] >= w[a].hist[b]
    <2>. DEFINE f == [a \in DOMAIN w |-> w[a].hist[b]]
    <2>1. DOMAIN f = 0..WindowSecs /\ \A a \in DOMAIN f : f[a] \in Nat
      BY <1>0 DEF Windows, Bucket
    <2>2. SumFunction(f) \in Nat /\ \A a \in DOMAIN f : SumFunction(f) >= f[a]
      <3>. HIDE DEF f
      <3>. QED BY <1>0, <2>1, SumFacts, ZenonT(30)
    <2>3. Histogram(w)[b] = SumFunction(f)
      BY ZenonT(30) DEF Histogram
    <2>. QED BY <2>1, <2>2, <2>3
  <1>2. Total(w) \in Nat /\ \A b \in Bands : Total(w) >= Histogram(w)[b]
    <2>. DEFINE h == Histogram(w)
    <2>1. DOMAIN h = Bands
      BY DEF Histogram
    <2>2. \A b \in DOMAIN h : h[b] \in Nat
      BY <1>1, <2>1
    <2>. HIDE DEF h
    <2>3. SumFunction(h) \in Nat /\ \A b \in DOMAIN h : SumFunction(h) >= h[b]
      BY <1>0, <2>1, <2>2, SumFacts
    <2>. QED BY <2>1, <2>3 DEF Total, h
  <1>3. Errors(w) \in Nat
    <2>. DEFINE f == [a \in DOMAIN w |-> w[a].errors]
    <2>1. DOMAIN f = 0..WindowSecs /\ \A a \in DOMAIN f : f[a] \in Nat
      BY <1>0 DEF Windows, Bucket
    <2>2. SumFunction(f) \in Nat
      <3>. HIDE DEF f
      <3>. QED BY <1>0, <2>1, SumFacts, ZenonT(30)
    <2>. QED BY <2>2 DEF Errors
  <1>4. Histogram(w) \in [Bands -> Nat]
    BY <1>1 DEF Histogram
  <1>5. \A a \in 0..WindowSecs, b \in Bands : w[a].hist[b] \in Nat
    BY DEF Windows, Bucket
  <1>. QED BY <1>1, <1>2, <1>3, <1>4, <1>5

\* The 99th percentile of a window with samples is a band.
LEMMA P99IsBand ==
  ASSUME NEW w \in Windows
  PROVE  P99(w) \in Nat
  <1>. DEFINE h == Histogram(w)
              T == Total(w)
              target == (T * 99 + 99) \div 100
              reached == {b \in Bands : SumFunction([i \in 1..b |-> h[i]]) >= target}
  <1>0. T \in Nat /\ h \in [Bands -> Nat]
    BY WindowSums
  <1>1. CASE T = 0
    BY <1>1 DEF P99
  <1>2. CASE T # 0
    <2>1. HistBands \in Bands /\ Bands \subseteq Nat
      BY BandAssumption DEF Bands
    <2>2. [i \in 1..HistBands |-> h[i]] = h
      BY <1>0 DEF Bands
    <2>3. T >= target
      <3>. HIDE DEF T
      <3>. QED BY <1>0, <1>2
    <2>4. HistBands \in reached
      BY <2>1, <2>2, <2>3 DEF Total
    <2>5. reached \in SUBSET Nat
      BY <2>1, ZenonT(30)
    <2>6. P99(w) = Min(reached)
      BY <1>2, ZenonT(30) DEF P99
    <2>. HIDE DEF reached
    <2>7. \E n \in reached : \A m \in reached : n <= m
      BY <2>4, <2>5, LeastElement
    <2>8. Min(reached) \in reached
      BY <2>7 DEF Min
    <2>. QED BY <2>5, <2>6, <2>8, ZenonT(30)
  <1>. QED BY <1>1, <1>2

\* Recording a sample gives a window that has samples.
LEMMA RecordFacts ==
  ASSUME NEW w \in Windows, NEW outcome, NEW band \in Bands
  PROVE  Record(w, outcome, band) \in Windows /\ Total(Record(w, outcome, band)) > 0
  <1>. DEFINE r == Record(w, outcome, band)
              e == IF outcome = "REDIS_ERROR" THEN 1 ELSE 0
              o == IF outcome = "TIMEOUT" THEN 1 ELSE 0
  <1>0. 0 \in 0..WindowSecs /\ WindowSecs \in 0..WindowSecs /\ WindowSecs # 0 /\ e \in Nat /\ o \in Nat
    BY ClampAssumption
  <1>1. EmptyBucket \in Bucket
    BY DEF EmptyBucket, Bucket
  <1>2. w[0] \in Bucket
    BY <1>0, ZenonT(30) DEF Windows
  <1>. DEFINE b == [errors |-> w[0].errors + e, timeouts |-> w[0].timeouts + o,
                    hist |-> [w[0].hist EXCEPT ![band] = @ + 1]]
  <1>3. b \in Bucket /\ b.hist[band] > 0
    <2>. HIDE DEF e, o
    <2>. QED BY <1>0, <1>2 DEF Bucket
  <1>4. r = [a \in DOMAIN w |-> r[a]] /\ DOMAIN r = DOMAIN w
    BY DEF Record
  <1>5. \A a \in DOMAIN w : a # 0 => r[a] = IF a = WindowSecs THEN EmptyBucket ELSE w[a]
    BY <1>0 DEF Record
  <1>6. r[0] = b
    BY <1>0, <1>2, ZenonT(30) DEF Record, Windows, Bucket
  <1>. HIDE DEF b, r
  <1>7. r \in Windows
    <2>1. \A a \in 0..WindowSecs : r[a] \in Bucket
      BY <1>1, <1>3, <1>5, <1>6 DEF Windows
    <2>. QED BY <1>4, <2>1 DEF Windows
  <1>8. Total(r) \in Nat /\ Total(r) >= b.hist[band]
    BY <1>0, <1>6, <1>7, WindowSums
  <1>9. b.hist[band] \in Nat
    BY <1>3 DEF Bucket
  <1>. QED BY <1>3, <1>7, <1>8, <1>9 DEF r

-----------------------------------------------------------------------------
(* Types, and when the breaker closes *)

\* acquire keeps the counters of a half-open period within their bounds.
LEMMA AcquireBounds ==
  ASSUME TypeOK, Acquire
  PROVE  probesDispatched' \in 0..HalfOpenProbes /\ halfOpenAge' \in 0..HalfOpenMax
  <1>0. /\ HalfOpenProbes \in Nat \ {0} /\ HalfOpenMax \in Nat \ {0}
        /\ probesDispatched \in 0..HalfOpenProbes /\ halfOpenAge \in 0..HalfOpenMax
    BY ClampAssumption DEF TypeOK
  <1>1. CASE AcquireClosed
    BY <1>0, <1>1 DEF AcquireClosed, Stay, breakerVars
  <1>2. CASE AcquireOpen
    BY <1>0, <1>2 DEF AcquireOpen, Stay, breakerVars, TryProbe
  <1>3. CASE AcquireHalfOpen
    BY <1>0, <1>3 DEF AcquireHalfOpen, TryProbe, TripOpen
  <1>. QED BY <1>1, <1>2, <1>3, ZenonT(30) DEF Acquire

\* release keeps the window a window and the counters within their bounds.
LEMMA ReleaseBounds ==
  ASSUME TypeOK, NEW outcome, NEW band \in Bands, Release(outcome, band)
  PROVE  /\ window' \in Windows /\ Total(window') > 0
         /\ consecutiveFail' \in 0..ConsecutiveFailOpen
         /\ consecutiveTimeout' \in 0..ConsecutiveTimeoutOpen
         /\ probesDispatched' \in 0..HalfOpenProbes /\ halfOpenAge' \in 0..HalfOpenMax
  <1>0. /\ ConsecutiveFailOpen \in Nat /\ ConsecutiveTimeoutOpen \in Nat /\ HalfOpenMax \in Nat
        /\ consecutiveFail \in 0..ConsecutiveFailOpen
        /\ consecutiveTimeout \in 0..ConsecutiveTimeoutOpen
        /\ probesDispatched \in 0..HalfOpenProbes /\ halfOpenAge \in 0..HalfOpenMax
    BY ClampAssumption DEF TypeOK
  <1>1. window' \in Windows /\ Total(window') > 0
    <2>1. window \in Windows /\ window' = Record(window, outcome, band)
      BY DEF TypeOK, Release, Windows, Bucket
    <2>. QED BY <2>1, RecordFacts
  <1>. DEFINE w == window'
  <1>2. ReleaseSuccess(w) \/ ReleaseTimeout(w) \/ ReleaseError(w)
    BY DEF Release
  <1>. HIDE DEF w
  <1>3. CASE ReleaseSuccess(w)
    BY <1>0, <1>1, <1>3 DEF ReleaseSuccess, Stay, TripOpen, breakerVars
  <1>4. CASE ReleaseTimeout(w)
    BY <1>0, <1>1, <1>4 DEF ReleaseTimeout, Stay, TripOpen, breakerVars, Least
  <1>5. CASE ReleaseError(w)
    BY <1>0, <1>1, <1>5 DEF ReleaseError, Stay, TripOpen, breakerVars, Least
  <1>. QED BY <1>1, <1>2, <1>3, <1>4, <1>5, ZenonT(30)

\* Every step keeps the types.
LEMMA TypesKept ==
  ASSUME IInv, TypeOK, [Next]_vars
  PROVE  TypeOK'
  <1>. DEFINE Rest == /\ consecutiveFail' \in 0..ConsecutiveFailOpen
                      /\ consecutiveTimeout' \in 0..ConsecutiveTimeoutOpen
                      /\ probesDispatched' \in 0..HalfOpenProbes
                      /\ halfOpenAge' \in 0..HalfOpenMax /\ late' \in 0..MaxLate
                      /\ window' \in Windows
                      /\ up' \in BOOLEAN /\ sent' \in Nat /\ pinged' \in BOOLEAN
  <1>0. Fields'
    BY NextInv, ZenonT(30) DEF IInv
  <1>. SUFFICES Rest
    BY <1>0, ZenonT(30) DEF Fields, TypeOK, Windows, Bucket
  <1>1. /\ consecutiveFail \in 0..ConsecutiveFailOpen
        /\ consecutiveTimeout \in 0..ConsecutiveTimeoutOpen
        /\ probesDispatched \in 0..HalfOpenProbes
        /\ halfOpenAge \in 0..HalfOpenMax /\ late \in 0..MaxLate
        /\ window \in Windows
        /\ up \in BOOLEAN /\ sent \in Nat /\ pinged \in BOOLEAN
    BY DEF TypeOK, Windows, Bucket
  <1>2. CASE CacheCommand
    BY <1>1, <1>2, AcquireBounds DEF CacheCommand, Acquire, healthVars
  <1>3. CASE Ping
    BY <1>1, <1>3, AcquireBounds DEF Ping, Acquire, healthVars
  <1>4. CASE \E c \in Calls, how \in Settlements : Answer(c, how)
    <2>1. PICK c \in Calls, how \in Settlements : Answer(c, how)
      BY <1>4
    <2>2. how.band \in Bands /\ Release(how.outcome, how.band) /\ UNCHANGED <<late, envVars>>
      BY <2>1, BandAssumption, ZenonT(30) DEF Answer
    <2>. QED BY <1>1, <2>2, ReleaseBounds DEF envVars
  <1>5. CASE \E c \in Calls : Timer(c)
    <2>1. HistBands \in Bands /\ Release("TIMEOUT", HistBands)
          /\ late' = Least(late + 1, MaxLate) /\ UNCHANGED envVars
      BY <1>5, BandAssumption DEF Timer, Bands
    <2>2. late' \in 0..MaxLate
      BY <1>1, <2>1, BoundAssumption DEF Least
    <2>. QED BY <1>1, <2>1, <2>2, ReleaseBounds, ZenonT(30) DEF envVars
  <1>6. CASE LateAnswer
    BY <1>1, <1>6, BoundAssumption DEF LateAnswer, breakerVars, healthVars, envVars
  <1>7. CASE Tick
    <2>1. window' \in Windows
      <3>1. EmptyBucket \in Bucket
        BY DEF EmptyBucket, Bucket
      <3>2. \A a \in 0..WindowSecs : a # 0 => a - 1 \in 0..WindowSecs
        BY ClampAssumption
      <3>. QED BY <1>1, <1>7, <3>1, <3>2 DEF Tick, Shifted, Windows
    <2>2. halfOpenAge' \in 0..HalfOpenMax
      BY <1>1, <1>7, ClampAssumption DEF Tick, Least
    <2>. QED BY <1>1, <1>7, <2>1, <2>2, ZenonT(30) DEF Tick
  <1>8. CASE UNCHANGED vars
    BY <1>1, <1>8, ZenonT(30) DEF vars, breakerVars, healthVars, envVars
  <1>. QED BY <1>2, <1>3, <1>4, <1>5, <1>6, <1>7, <1>8, ZenonT(30) DEF Next

\* A new breaker is typed.
LEMMA InitTyped ==
  ASSUME Init
  PROVE  TypeOK
  <1>1. EmptyBucket \in Bucket
    BY DEF EmptyBucket, Bucket
  <1>2. window \in Windows
    BY <1>1 DEF Init, Windows
  <1>3. Fields
    BY InitInv, ZenonT(30) DEF IInv
  <1>4. /\ consecutiveFail \in 0..ConsecutiveFailOpen
        /\ consecutiveTimeout \in 0..ConsecutiveTimeoutOpen
        /\ probesDispatched \in 0..HalfOpenProbes
        /\ halfOpenAge \in 0..HalfOpenMax /\ late \in 0..MaxLate /\ sent \in Nat
    BY ClampAssumption, BoundAssumption DEF Init
  <1>5. up \in BOOLEAN /\ pinged \in BOOLEAN
    BY ZenonT(30) DEF Init
  <1>. QED BY <1>2, <1>3, <1>4, <1>5, ZenonT(30) DEF TypeOK, Fields, Windows, Bucket

\* Every field of the breaker keeps its type and every counter its bound, for
\* every window, all thresholds and any number of callers (acquire, release).
THEOREM BreakerTyped == Spec => []TypeOK
  <1>1. Init => IInv /\ TypeOK
    BY InitInv, InitTyped
  <1>2. IInv /\ TypeOK /\ [Next]_vars => IInv' /\ TypeOK'
    BY NextInv, TypesKept
  <1>. QED BY <1>1, <1>2, PTL DEF Spec

\* A window the breaker recovers over, and that has samples, keeps its
\* error-rate and p99 detectors quiet.
LEMMA RecoveredIsQuiet ==
  ASSUME NEW w \in Windows, Total(w) > 0, Recovered(w)
  PROVE  P99(w) < P99Open /\ ~ RateAtLeast(Errors(w), w, ErrorRateOpen)
  <1>1. /\ P99(w) \in Nat /\ P99Recovery \in Nat /\ P99Open \in Nat /\ P99Recovery < P99Open
        /\ P99(w) <= P99Recovery
    BY P99IsBand, BandAssumption, HysteresisAssumption DEF Recovered, Bands
  <1>. DEFINE T == Total(w)
              E == Errors(w)
  <1>2. /\ T \in Nat /\ T > 0 /\ E \in Nat /\ ErrorRateRecovery \in Nat /\ ErrorRateOpen \in Nat
        /\ ErrorRateRecovery < ErrorRateOpen /\ E * 100 <= ErrorRateRecovery * T
    BY WindowSums, ClampAssumption, HysteresisAssumption DEF Recovered
  <1>3. ErrorRateRecovery * T < ErrorRateOpen * T
    <2>. HIDE DEF T, E
    <2>. QED BY <1>2
  <1>4. ~ (E * 100 >= ErrorRateOpen * T)
    <2>1. ErrorRateRecovery * T \in Int /\ ErrorRateOpen * T \in Int /\ E * 100 \in Int
      BY <1>2
    <2>. HIDE DEF T, E
    <2>. QED BY <1>2, <1>3, <2>1
  <1>. QED BY <1>1, <1>4 DEF RateAtLeast

\* The breaker closes only in a step that settles a call with a success, over
\* a window it has recovered over.
LEMMA ClosesRecovered ==
  ASSUME TypeOK, [Next]_vars, state = HALF_OPEN, state' = CLOSED
  PROVE  window' \in Windows /\ Total(window') > 0 /\ Recovered(window')
  <1>0. CLOSED # HALF_OPEN /\ CLOSED # OPEN
    BY DEF CLOSED, HALF_OPEN, OPEN
  <1>1. ASSUME NEW outcome, NEW band \in Bands, Release(outcome, band)
        PROVE  window' \in Windows /\ Total(window') > 0 /\ Recovered(window')
    <2>1. window' \in Windows /\ Total(window') > 0
      BY <1>1, ReleaseBounds
    <2>. DEFINE w == window'
    <2>2. ReleaseSuccess(w) \/ ReleaseTimeout(w) \/ ReleaseError(w)
      BY <1>1 DEF Release
    <2>. HIDE DEF w
    <2>3. ReleaseSuccess(w) => Recovered(w)
      BY <1>0, ZenonT(30) DEF ReleaseSuccess
    <2>4. ~ ReleaseTimeout(w) /\ ~ ReleaseError(w)
      BY <1>0 DEF ReleaseTimeout, ReleaseError, TripOpen
    <2>. QED BY <2>1, <2>2, <2>3, <2>4, ZenonT(30) DEF w
  <1>2. ~ Acquire
    BY <1>0 DEF Acquire, AcquireClosed, AcquireOpen, AcquireHalfOpen, TripOpen, CLOSED, HALF_OPEN, OPEN
  <1>3. CASE \E c \in Calls, how \in Settlements : Answer(c, how)
    <2>1. PICK c \in Calls, how \in Settlements : Answer(c, how)
      BY <1>3
    <2>2. how.band \in Bands /\ Release(how.outcome, how.band)
      BY <2>1, BandAssumption, ZenonT(30) DEF Answer
    <2>. QED BY <1>1, <2>2
  <1>4. CASE \E c \in Calls : Timer(c)
    BY <1>1, <1>4, BandAssumption DEF Timer, Bands
  <1>5. ~ LateAnswer /\ ~ Tick /\ ~ UNCHANGED vars
    BY <1>0 DEF LateAnswer, Tick, vars, breakerVars
  <1>. QED BY <1>2, <1>3, <1>4, <1>5, ZenonT(30) DEF Next, CacheCommand, Ping

\* The breaker closes only over a window in which its own error-rate and p99
\* detectors are quiet (release, checkStatisticalOpen, percentileUs): the
\* hysteresis of the thresholds is enough for every window and every number of
\* samples.
THEOREM ClosesQuietly == Spec => ClosesOverQuietWindow
  <1>. DEFINE Quiet == state = HALF_OPEN /\ state' = CLOSED =>
                         /\ P99(window') < P99Open
                         /\ ~ RateAtLeast(Errors(window'), window', ErrorRateOpen)
  <1>1. TypeOK /\ [Next]_vars => [Quiet]_vars
    BY ClosesRecovered, RecoveredIsQuiet
  <1>. QED BY <1>1, BreakerTyped, PTL DEF Spec, ClosesOverQuietWindow
=============================================================================
