----------------------------- MODULE EdgeProofs -----------------------------
(***************************************************************************)
(* Proofs about EdgeGateway for any number of workers, upstreams and       *)
(* requests.  The invariant has two halves that share no variable: what    *)
(* the breakers' shared memory and the calls on it satisfy (BreakerInv),   *)
(* and what the requests and the slots they hold satisfy (RequestInv).     *)
(* Admission reads the breaker of the node, and NodeUnprobed says the one  *)
(* thing it depends on: that breaker is never half-open.                   *)
(***************************************************************************)
EXTENDS EdgeGateway, FiniteSetTheorems, TLAPS

-----------------------------------------------------------------------------
(* The breakers in shared memory *)

\* Only an upstream's breaker is ever asked whether it is open, so the node's
\* is never half-open and nobody is about to close or reopen it.
NodeUnprobed ==
  /\ shm[Global].state # HALF_OPEN
  /\ \A p \in Callers : call[p].pc \in {"opened", "elapsed", "close", "reopen"} => call[p].name # Global

\* The failures of a slot were counted since the last success, unless a
\* success is about to clear them.
FailuresCounted ==
  \A n \in Names :
    \/ shm[n].failures <= streak[n]
    \/ \E q \in Callers : call[q].pc = "reset" /\ call[q].name = n

BreakerInv == BreakerTypeOK /\ NodeUnprobed /\ FailuresCounted

Slot == [state : {CLOSED, OPEN, HALF_OPEN}, failures : Nat, age : 0 .. ResetTimeout + 1]
Labels == {"none", "opened", "elapsed", "close", "reset", "reopen", "count", "trip", "stamp"}
Frame == [pc : Labels, name : Names, open : BOOLEAN]

\* The frame of a caller outside the breaker is a frame.
LEMMA IdlingIsFrame == \A open \in BOOLEAN : Idling(open) \in Frame
  <1>1. (CHOOSE n \in Names : TRUE) \in Names
    BY NamesAssumption
  <1> QED
    BY <1>1 DEF Idling, Frame, Labels

\* Where a call stands after At.
LEMMA AtMoves ==
  ASSUME call \in [Callers -> Frame], NEW p \in Callers, NEW n \in Names, NEW label \in Labels,
         At(p, n, label)
  PROVE  /\ call' \in [Callers -> Frame]
         /\ call'[p].pc = label /\ (label # "none" => call'[p].name = n)
         /\ \A q \in Callers \ {p} : call'[q] = call[q]
  <1>1. Idling(FALSE) \in Frame /\ Idling(FALSE).pc = "none"
    BY IdlingIsFrame, ZenonT(30) DEF Idling
  <1>2. [pc |-> label, name |-> n, open |-> FALSE] \in Frame
    BY DEF Frame
  <1> DEFINE f == IF label = "none" THEN Idling(FALSE) ELSE [pc |-> label, name |-> n, open |-> FALSE]
  <1>3. f \in Frame /\ f.pc = label /\ (label # "none" => f.name = n)
    BY <1>1, <1>2, ZenonT(30)
  <1>4. call' = [call EXCEPT ![p] = f]
    BY DEF At
  <1> HIDE DEF f
  <1> QED
    BY <1>3, <1>4

\* Where it stands after Done.
LEMMA DoneMoves ==
  ASSUME call \in [Callers -> Frame], NEW p \in Callers, NEW open \in BOOLEAN, Done(p, open)
  PROVE  /\ call' \in [Callers -> Frame]
         /\ call'[p].pc = "none"
         /\ \A q \in Callers \ {p} : call'[q] = call[q]
  <1>1. Idling(open) \in Frame /\ Idling(open).pc = "none"
    BY IdlingIsFrame, ZenonT(30) DEF Idling
  <1> QED
    BY <1>1 DEF Done

\* BreakerTypeOK by the sets named here.
LEMMA BreakerTypes == BreakerTypeOK <=> /\ shm \in [Names -> Slot]
                                        /\ call \in [Callers -> Frame]
                                        /\ streak \in [Names -> Nat]
  BY DEF BreakerTypeOK, Slot, Frame, Labels

\* Starting is_open on an upstream, or either record on any breaker.
LEMMA StartKeepsBreakers ==
  ASSUME BreakerInv, NEW p \in Callers, NEW n \in Names,
         \/ IsOpen(p, n) /\ n # Global
         \/ RecordSuccess(p, n)
         \/ RecordFailure(p, n)
  PROVE  /\ BreakerInv' /\ UNCHANGED <<shm, streak>> /\ call[p].pc = "none"
         /\ \A q \in Callers \ {p} : call'[q] = call[q]
  <1>1. shm \in [Names -> Slot] /\ call \in [Callers -> Frame] /\ streak \in [Names -> Nat]
    BY BreakerTypes DEF BreakerInv
  <1>2. UNCHANGED <<shm, streak>> /\ call[p].pc = "none"
    BY DEF IsOpen, RecordSuccess, RecordFailure
  <1>3. PICK label \in Labels : /\ At(p, n, label)
                                /\ (label \in {"opened", "close", "reopen"} => n # Global)
                                /\ label # "elapsed"
    <2>1. CASE IsOpen(p, n) /\ n # Global
      BY <2>1 DEF IsOpen, Labels
    <2>2. CASE RecordSuccess(p, n)
      <3>1. shm[n].state = HALF_OPEN => n # Global
        BY DEF BreakerInv, NodeUnprobed
      <3>2. CASE shm[n].state = HALF_OPEN
        BY <2>2, <3>1, <3>2 DEF RecordSuccess, Labels
      <3>3. CASE shm[n].state = CLOSED
        BY <2>2, <3>3 DEF RecordSuccess, Labels, CLOSED, HALF_OPEN
      <3>4. CASE shm[n].state \notin {CLOSED, HALF_OPEN}
        BY <2>2, <3>4 DEF RecordSuccess, Labels
      <3> QED
        BY <3>2, <3>3, <3>4
    <2>3. CASE RecordFailure(p, n)
      <3>1. shm[n].state = HALF_OPEN => n # Global
        BY DEF BreakerInv, NodeUnprobed
      <3>2. CASE shm[n].state = HALF_OPEN
        BY <2>3, <3>1, <3>2 DEF RecordFailure, Labels
      <3>3. CASE shm[n].state = CLOSED
        BY <2>3, <3>3 DEF RecordFailure, Labels, CLOSED, HALF_OPEN
      <3>4. CASE shm[n].state \notin {CLOSED, HALF_OPEN}
        BY <2>3, <3>4 DEF RecordFailure, Labels
      <3> QED
        BY <3>2, <3>3, <3>4
    <2> QED
      BY <2>1, <2>2, <2>3
  <1>4. /\ call' \in [Callers -> Frame]
        /\ call'[p].pc = label /\ (label # "none" => call'[p].name = n)
        /\ \A q \in Callers \ {p} : call'[q] = call[q]
    BY <1>1, <1>3, AtMoves
  <1>5. BreakerTypeOK'
    BY <1>1, <1>2, <1>4 DEF BreakerTypeOK, Slot, Frame, Labels
  <1>6. NodeUnprobed'
    BY <1>2, <1>3, <1>4 DEF BreakerInv, NodeUnprobed
  <1>7. FailuresCounted'
    BY <1>2, <1>4 DEF BreakerInv, FailuresCounted
  <1> QED
    BY <1>2, <1>4, <1>5, <1>6, <1>7 DEF BreakerInv

\* A step of p on the slot of its breaker n keeps the invariant if it treats
\* the node's breaker as NodeUnprobed asks and keeps n's failures counted.
LEMMA MoveKeepsBreakers ==
  ASSUME BreakerInv, NEW p \in Callers, NEW n \in Names, call[p].name = n,
         NEW slot \in Slot, shm' = [shm EXCEPT ![n] = slot],
         NEW s \in Nat, streak' = [streak EXCEPT ![n] = s],
         call' \in [Callers -> Frame], \A q \in Callers \ {p} : call'[q] = call[q],
         call'[p].pc # "none" => call'[p].name = n,
         n = Global => /\ slot.state # HALF_OPEN
                       /\ call'[p].pc \notin {"opened", "elapsed", "close", "reopen"},
         \/ slot.failures <= s
         \/ call'[p].pc = "reset"
         \/ call[p].pc # "reset" /\ (shm[n].failures <= streak[n] => slot.failures <= s)
  PROVE  BreakerInv'
  <1>1. shm \in [Names -> Slot] /\ call \in [Callers -> Frame] /\ streak \in [Names -> Nat]
    BY BreakerTypes DEF BreakerInv
  <1>2. /\ shm' \in [Names -> Slot] /\ streak' \in [Names -> Nat]
        /\ shm'[n] = slot /\ streak'[n] = s
        /\ \A m \in Names \ {n} : shm'[m] = shm[m] /\ streak'[m] = streak[m]
    BY <1>1
  <1>3. BreakerTypeOK'
    BY <1>2 DEF BreakerTypeOK, Slot, Frame, Labels
  <1>4. NodeUnprobed'
    <2>1. shm'[Global].state # HALF_OPEN
      BY <1>2, NamesAssumption DEF BreakerInv, NodeUnprobed
    <2>2. ASSUME NEW q \in Callers, call'[q].pc \in {"opened", "elapsed", "close", "reopen"}
          PROVE  call'[q].name # Global
      BY <2>2 DEF BreakerInv, NodeUnprobed
    <2> QED
      BY <2>1, <2>2 DEF NodeUnprobed
  <1>5. FailuresCounted'
    <2> SUFFICES ASSUME NEW m \in Names
                 PROVE  \/ shm'[m].failures <= streak'[m]
                        \/ \E q \in Callers : call'[q].pc = "reset" /\ call'[q].name = m
      BY DEF FailuresCounted
    <2>1. \/ shm[m].failures <= streak[m]
          \/ \E q \in Callers : call[q].pc = "reset" /\ call[q].name = m
      BY DEF BreakerInv, FailuresCounted
    <2>2. CASE m # n
      <3>1. \A q \in Callers : call[q].name = m => call'[q] = call[q]
        BY <2>2
      <3> QED
        BY <1>2, <2>1, <2>2, <3>1
    <2>3. CASE m = n
      <3>1. CASE slot.failures <= s
        BY <1>2, <2>3, <3>1
      <3>2. CASE call'[p].pc = "reset"
        BY <2>3, <3>2
      <3>3. CASE call[p].pc # "reset" /\ (shm[n].failures <= streak[n] => slot.failures <= s)
        BY <1>2, <2>1, <2>3, <3>3, Z3T(30)
      <3> QED
        BY <3>1, <3>2, <3>3
    <2> QED
      BY <2>2, <2>3
  <1> QED
    BY <1>3, <1>4, <1>5 DEF BreakerInv

\* A step inside is_open, record_success or record_failure.  The node's
\* breaker does not leave OPEN, and what trips a breaker was counted.
LEMMA StepKeepsBreakers ==
  ASSUME BreakerInv, NEW p \in Callers, BreakerStep(p)
  PROVE  /\ BreakerInv'
         /\ shm[Global].state = OPEN => shm'[Global].state = OPEN
         /\ \A q \in Callers \ {p} : call'[q] = call[q]
         /\ (call[p].pc = "count" /\ call'[p].pc = "trip") =>
              \/ streak'[call[p].name] >= FailureThreshold
              \/ \E q \in Callers : call[q].pc = "reset" /\ call[q].name = call[p].name
  <1> DEFINE n == call[p].name
             Goal(slot, s) ==
               /\ slot \in Slot /\ shm' = [shm EXCEPT ![n] = slot]
               /\ s \in Nat /\ streak' = [streak EXCEPT ![n] = s]
               /\ call' \in [Callers -> Frame] /\ \A q \in Callers \ {p} : call'[q] = call[q]
               /\ call'[p].pc # "none" => call'[p].name = n
               /\ n = Global => /\ slot.state # HALF_OPEN
                                /\ call'[p].pc \notin {"opened", "elapsed", "close", "reopen"}
                                /\ shm[n].state = OPEN => slot.state = OPEN
               /\ \/ slot.failures <= s
                  \/ call'[p].pc = "reset"
                  \/ call[p].pc # "reset" /\ (shm[n].failures <= streak[n] => slot.failures <= s)
               /\ (call[p].pc = "count" /\ call'[p].pc = "trip") =>
                    /\ s = streak[n] + 1 /\ shm[n].failures + 1 >= FailureThreshold
  <1>1. shm \in [Names -> Slot] /\ call \in [Callers -> Frame] /\ streak \in [Names -> Nat]
    BY BreakerTypes DEF BreakerInv
  <1>2. /\ n \in Names /\ shm[n] \in Slot /\ streak[n] \in Nat /\ Global \in Names
        /\ shm = [shm EXCEPT ![n] = shm[n]] /\ streak = [streak EXCEPT ![n] = streak[n]]
    BY <1>1, NamesAssumption DEF Frame
  <1>3. /\ n = Global => shm[n].state # HALF_OPEN
        /\ call[p].pc \in {"opened", "elapsed", "close", "reopen"} => n # Global
    BY DEF BreakerInv, NodeUnprobed
  <1>4. \A slot, s : Goal(slot, s) =>
          /\ BreakerInv'
          /\ shm[Global].state = OPEN => shm'[Global].state = OPEN
          /\ \A q \in Callers \ {p} : call'[q] = call[q]
          /\ (call[p].pc = "count" /\ call'[p].pc = "trip") =>
               \/ streak'[n] >= FailureThreshold
               \/ \E q \in Callers : call[q].pc = "reset" /\ call[q].name = n
    <2> SUFFICES ASSUME NEW slot, NEW s, Goal(slot, s)
                 PROVE  /\ BreakerInv'
                        /\ shm[Global].state = OPEN => shm'[Global].state = OPEN
                        /\ (call[p].pc = "count" /\ call'[p].pc = "trip") =>
                             \/ streak'[n] >= FailureThreshold
                             \/ \E q \in Callers : call[q].pc = "reset" /\ call[q].name = n
      BY ZenonT(30)
    <2>1. BreakerInv'
      BY <1>2, MoveKeepsBreakers, ZenonT(30)
    <2>2. shm[Global].state = OPEN => shm'[Global].state = OPEN
      BY <1>1, <1>2
    <2>3. ASSUME call[p].pc = "count" /\ call'[p].pc = "trip"
          PROVE  \/ streak'[n] >= FailureThreshold
                 \/ \E q \in Callers : call[q].pc = "reset" /\ call[q].name = n
      <3>1. /\ streak'[n] = streak[n] + 1 /\ shm[n].failures + 1 >= FailureThreshold
            /\ shm[n].failures \in Nat
        BY <1>1, <1>2, <2>3 DEF Slot
      <3>2. \/ shm[n].failures <= streak[n]
            \/ \E q \in Callers : call[q].pc = "reset" /\ call[q].name = n
        BY <1>2 DEF BreakerInv, FailuresCounted
      <3> QED
        BY <1>2, <3>1, <3>2, ThresholdAssumption
    <2> QED
      BY <2>1, <2>2, <2>3
  <1> HIDE DEF n
  <1>5. \A open \in BOOLEAN : Done(p, open) =>
          /\ call' \in [Callers -> Frame] /\ call'[p].pc = "none"
          /\ \A q \in Callers \ {p} : call'[q] = call[q]
    BY <1>1, DoneMoves
  <1>6. \A label \in Labels : At(p, n, label) =>
          /\ call' \in [Callers -> Frame]
          /\ call'[p].pc = label /\ (label # "none" => call'[p].name = n)
          /\ \A q \in Callers \ {p} : call'[q] = call[q]
    BY <1>1, <1>2, AtMoves
  <1>7. {"elapsed", "reset", "stamp", "trip"} \subseteq Labels
    BY DEF Labels
  <1>8. CASE Cooldown(p)
    <2>1. Done(p, TRUE) \/ At(p, n, "elapsed")
      BY <1>8, ZenonT(30) DEF Cooldown, n
    <2>2. call[p].pc = "opened" /\ shm' = shm /\ streak' = streak
      BY <1>8 DEF Cooldown
    <2>3. Goal(shm[n], streak[n])
      BY <1>2, <1>3, <1>5, <1>6, <1>7, <2>1, <2>2, ZenonT(30)
    <2> QED
      BY <1>4, <2>3, ZenonT(30) DEF n
  <1>9. CASE Probe(p)
    <2>1. call[p].pc = "elapsed" /\ streak' = streak /\ Done(p, shm[n].state = CLOSED)
      BY <1>9 DEF Probe, n
    <2>2. PICK slot \in Slot : /\ shm' = [shm EXCEPT ![n] = slot]
                               /\ slot.failures = shm[n].failures
      <3>1. CASE shm[n].state = OPEN
        <4>1. shm' = [shm EXCEPT ![n] = [shm[n] EXCEPT !.state = HALF_OPEN]]
          BY <1>1, <1>2, <1>9, <3>1 DEF Probe, n
        <4>2. [shm[n] EXCEPT !.state = HALF_OPEN] \in Slot
              /\ [shm[n] EXCEPT !.state = HALF_OPEN].failures = shm[n].failures
          BY <1>2 DEF Slot
        <4> QED
          BY <4>1, <4>2, ZenonT(30)
      <3>2. CASE shm[n].state # OPEN
        BY <1>2, <1>9, <3>2 DEF Probe, n
      <3> QED
        BY <3>1, <3>2
    <2>3. Goal(slot, streak[n])
      BY <1>2, <1>3, <1>5, <2>1, <2>2, ZenonT(30)
    <2> QED
      BY <1>4, <2>3, ZenonT(30) DEF n
  <1>10. CASE Close(p)
    <2>1. call[p].pc = "close" /\ streak' = [streak EXCEPT ![n] = 0] /\ At(p, n, "reset")
      BY <1>10 DEF Close, n
    <2> DEFINE slot == [shm[n] EXCEPT !.state = CLOSED]
    <2>2. shm' = [shm EXCEPT ![n] = slot] /\ slot \in Slot
      BY <1>1, <1>2, <1>10 DEF Close, n, Slot
    <2> HIDE DEF slot
    <2>3. Goal(slot, 0)
      BY <1>2, <1>3, <1>6, <1>7, <2>1, <2>2
    <2> QED
      BY <1>4, <2>3, ZenonT(30) DEF n
  <1>11. CASE Reset(p)
    <2>1. call[p].pc = "reset" /\ streak' = [streak EXCEPT ![n] = 0] /\ Done(p, FALSE)
      BY <1>11, ZenonT(30) DEF Reset, n
    <2> DEFINE slot == [shm[n] EXCEPT !.failures = 0]
    <2>2. /\ shm' = [shm EXCEPT ![n] = slot] /\ slot \in Slot
          /\ slot.failures <= 0 /\ slot.state = shm[n].state
      BY <1>1, <1>2, <1>11 DEF Reset, n, Slot
    <2> HIDE DEF slot
    <2>3. Goal(slot, 0)
      BY <1>2, <1>3, <1>5, <2>1, <2>2, ZenonT(30)
    <2> QED
      BY <1>4, <2>3, ZenonT(30) DEF n
  <1>12. CASE Reopen(p)
    <2>1. call[p].pc = "reopen" /\ streak' = streak /\ At(p, n, "stamp")
      BY <1>12 DEF Reopen, n
    <2> DEFINE slot == [shm[n] EXCEPT !.state = OPEN]
    <2>2. shm' = [shm EXCEPT ![n] = slot] /\ slot \in Slot /\ slot.failures = shm[n].failures
      BY <1>1, <1>2, <1>12 DEF Reopen, n, Slot
    <2> HIDE DEF slot
    <2>3. Goal(slot, streak[n])
      BY <1>2, <1>3, <1>6, <1>7, <2>1, <2>2
    <2> QED
      BY <1>4, <2>3, ZenonT(30) DEF n
  <1>13. CASE Count(p)
    <2>1. /\ call[p].pc = "count" /\ streak' = [streak EXCEPT ![n] = streak[n] + 1]
          /\ \/ shm[n].failures + 1 >= FailureThreshold /\ At(p, n, "trip")
             \/ Done(p, FALSE)
      BY <1>1, <1>2, <1>13, ZenonT(30) DEF Count, n
    <2> DEFINE slot == [shm[n] EXCEPT !.failures = shm[n].failures + 1]
    <2>2. /\ shm' = [shm EXCEPT ![n] = slot] /\ slot \in Slot /\ shm[n].failures \in Nat
          /\ slot.failures = shm[n].failures + 1 /\ slot.state = shm[n].state
      BY <1>1, <1>2, <1>13 DEF Count, n, Slot
    <2> HIDE DEF slot
    <2>3. streak[n] + 1 \in Nat /\ (shm[n].failures <= streak[n] => slot.failures <= streak[n] + 1)
      BY <1>2, <2>2
    <2>4. Goal(slot, streak[n] + 1)
      BY <1>2, <1>3, <1>5, <1>6, <1>7, <2>1, <2>2, <2>3, ZenonT(30)
    <2> QED
      BY <1>4, <2>4, ZenonT(30) DEF n
  <1>14. CASE Trip(p)
    <2>1. call[p].pc = "trip" /\ streak' = streak
      BY <1>14 DEF Trip
    <2>2. CASE shm[n].state = CLOSED
      <3> DEFINE slot == [shm[n] EXCEPT !.state = OPEN]
      <3>1. /\ shm' = [shm EXCEPT ![n] = slot] /\ slot \in Slot
            /\ slot.failures = shm[n].failures /\ slot.state = OPEN
        BY <1>1, <1>2, <1>14, <2>2 DEF Trip, n, Slot
      <3>2. At(p, n, "stamp")
        BY <1>14, <2>2 DEF Trip, n
      <3>3. OPEN # HALF_OPEN
        BY DEF OPEN, HALF_OPEN
      <3> HIDE DEF slot
      <3>4. Goal(slot, streak[n])
        BY <1>2, <1>6, <1>7, <2>1, <3>1, <3>2, <3>3
      <3> QED
        BY <1>4, <3>4, ZenonT(30) DEF n
    <2>3. CASE shm[n].state # CLOSED
      <3>1. shm' = shm /\ Done(p, FALSE)
        BY <1>14, <2>3, ZenonT(30) DEF Trip, n
      <3>2. Goal(shm[n], streak[n])
        BY <1>2, <1>3, <1>5, <2>1, <3>1, ZenonT(30)
      <3> QED
        BY <1>4, <3>2, ZenonT(30) DEF n
    <2> QED
      BY <2>2, <2>3
  <1>15. CASE Stamp(p)
    <2>1. call[p].pc = "stamp" /\ streak' = streak /\ Done(p, FALSE)
      BY <1>15, ZenonT(30) DEF Stamp
    <2> DEFINE slot == [shm[n] EXCEPT !.age = 0]
    <2>2. /\ shm' = [shm EXCEPT ![n] = slot] /\ slot \in Slot
          /\ slot.failures = shm[n].failures /\ slot.state = shm[n].state
      BY <1>1, <1>2, <1>15, TimeoutAssumption DEF Stamp, n, Slot
    <2> HIDE DEF slot
    <2>3. Goal(slot, streak[n])
      BY <1>2, <1>3, <1>5, <2>1, <2>2, ZenonT(30)
    <2> QED
      BY <1>4, <2>3, ZenonT(30) DEF n
  <1> QED
    BY <1>8, <1>9, <1>10, <1>11, <1>12, <1>13, <1>14, <1>15 DEF BreakerStep, n

\* Time only ages the slots.
LEMMA TickKeepsBreakers ==
  ASSUME BreakerInv, Tick
  PROVE  BreakerInv' /\ UNCHANGED call /\ \A n \in Names : shm'[n].state = shm[n].state
  <1>1. shm \in [Names -> Slot] /\ call \in [Callers -> Frame] /\ streak \in [Names -> Nat]
    BY BreakerTypes DEF BreakerInv
  <1>2. UNCHANGED <<call, streak>>
    BY DEF Tick
  <1>3. ASSUME NEW n \in Names
        PROVE  shm'[n] \in Slot /\ shm'[n].state = shm[n].state /\ shm'[n].failures = shm[n].failures
    <2>1. shm'[n] = [shm[n] EXCEPT !.age = IF Elapsed(n) THEN shm[n].age ELSE shm[n].age + 1]
      BY DEF Tick
    <2>2. shm[n] \in Slot
      BY <1>1
    <2> QED
      BY <2>1, <2>2, TimeoutAssumption DEF Elapsed, Slot
  <1>4. shm' \in [Names -> Slot]
    <2>1. shm' = [n \in Names |-> shm'[n]]
      BY DEF Tick
    <2> QED
      BY <1>3, <2>1
  <1>5. BreakerTypeOK'
    BY <1>1, <1>2, <1>4 DEF BreakerTypeOK, Slot, Frame, Labels
  <1>6. NodeUnprobed' /\ FailuresCounted'
    BY <1>2, <1>3, NamesAssumption DEF BreakerInv, NodeUnprobed, FailuresCounted
  <1> QED
    BY <1>2, <1>3, <1>5, <1>6 DEF BreakerInv

\* init_shm zeroes every slot: closed, no failures, nobody inside.
LEMMA BreakersInitially ==
  ASSUME BreakerInit
  PROVE  BreakerInv
  <1>1. Cold \in Slot /\ Cold.failures = 0 /\ Cold.state = CLOSED
    BY TimeoutAssumption DEF Cold, Slot
  <1>2. Idling(FALSE) \in Frame /\ Idling(FALSE).pc = "none"
    BY IdlingIsFrame, ZenonT(30) DEF Idling
  <1>3. shm = [n \in Names |-> Cold] /\ call = [p \in Callers |-> Idling(FALSE)]
        /\ streak = [n \in Names |-> 0]
    BY DEF BreakerInit
  <1>4. BreakerTypeOK
    BY <1>1, <1>2, <1>3, BreakerTypes, ZenonT(30)
  <1>5. NodeUnprobed
    BY <1>1, <1>2, <1>3, NamesAssumption, ZenonT(30) DEF NodeUnprobed, CLOSED, HALF_OPEN
  <1>6. ASSUME NEW n \in Names
        PROVE  shm[n].failures <= streak[n]
    <2>1. shm[n] = Cold /\ streak[n] = 0
      BY <1>3
    <2> QED
      BY <1>1, <2>1
  <1> QED
    BY <1>4, <1>5, <1>6 DEF BreakerInv, FailuresCounted

-----------------------------------------------------------------------------
(* The requests and the slots they hold.  Of the breakers they use one fact:  *)
(* the breaker of the node is never half-open.                                *)

Phases == {"idle", "checks", "select", "asked", "proxied", "log", "logUpstream", "logGlobal"}
Request ==
  [pc : Phases, todo : SUBSET Upstreams, rest : SUBSET Upstreams, usable : SUBSET Upstreams,
   cur : Upstreams \cup {NoUpstream}, up : Upstreams \cup {NoUpstream},
   ok : BOOLEAN, admitted : BOOLEAN]
Health == [up : BOOLEAN, fails : 0 .. UnhealthyAfter, oks : 0 .. HealthyAfter]

Holds(v) == v.admitted \/ v.pc \in {"checks", "select", "asked"}
Holders(w) == {r \in Callers : WorkerOf[r] = w /\ Holds(req[r])}

\* The admitted flag is set when the access phase ends and kept until the log
\* phase does, so a request holds its slot by its phase or by the flag, never
\* by both; and what a request asks about is an upstream.
Shaped(v) ==
  /\ v.admitted => v.pc \in {"proxied", "log", "logUpstream", "logGlobal"}
  /\ v.pc = "asked" => v.cur \in Upstreams

AllShaped == \A r \in Callers : Shaped(req[r])

RequestInv ==
  /\ inFlight \in [Workers -> Nat]
  /\ health \in [Upstreams -> Health]
  /\ req \in [Callers -> Request]
  /\ faults \in 0 .. MaxFaults
  /\ AllShaped
  /\ \A w \in Workers : inFlight[w] = Cardinality(Holders(w)) /\ inFlight[w] <= MaxConcurrency

\* The gauge counts a finite set, so taking one member out or in moves it by one.
LEMMA HoldersFinite ==
  ASSUME NEW w \in Workers
  PROVE  IsFiniteSet(Holders(w)) /\ Cardinality(Holders(w)) \in Nat
  <1>1. IsFiniteSet(Callers) /\ Holders(w) \subseteq Callers
    BY SlotAssumption DEF Holders
  <1> QED
    BY <1>1, FS_Subset, FS_CardinalityType

\* What a step of r from req[r] to v does to the requests.
LEMMA RequestMoves ==
  ASSUME RequestInv, NEW r \in Callers, NEW v \in Request, req' = [req EXCEPT ![r] = v],
         Shaped(v)
  PROVE  /\ req' \in [Callers -> Request] /\ AllShaped'
         /\ \A w \in Workers :
              Holders(w)' = IF w # WorkerOf[r] THEN Holders(w)
                            ELSE IF Holds(v) THEN Holders(w) \cup {r} ELSE Holders(w) \ {r}
  <1>1. req' \in [Callers -> Request] /\ req'[r] = v /\ \A q \in Callers \ {r} : req'[q] = req[q]
    BY DEF RequestInv
  <1>2. AllShaped'
    BY <1>1 DEF RequestInv, AllShaped
  <1>3. ASSUME NEW w \in Workers
        PROVE  Holders(w)' = IF w # WorkerOf[r] THEN Holders(w)
                             ELSE IF Holds(v) THEN Holders(w) \cup {r} ELSE Holders(w) \ {r}
    <2>1. \A q \in Callers : Holds(req'[q]) <=> IF q = r THEN Holds(v) ELSE Holds(req[q])
      BY <1>1
    <2>2. Holders(w)' = {q \in Callers : WorkerOf[q] = w /\ Holds(req'[q])}
      BY DEF Holders, Holds
    <2> HIDE DEF Holds
    <2> QED
      BY <2>1, <2>2 DEF Holders
  <1> QED
    BY <1>1, <1>2, <1>3

\* A step that neither takes nor gives back a slot.
LEMMA SlotKept ==
  ASSUME RequestInv, NEW r \in Callers, NEW v \in Request, req' = [req EXCEPT ![r] = v],
         Shaped(v),
         Holds(v) <=> Holds(req[r]),
         inFlight' = inFlight, health' = health, faults' \in 0 .. MaxFaults
  PROVE  RequestInv'
  <1>1. \A w \in Workers : Holders(w)' = Holders(w)
    <2> SUFFICES ASSUME NEW w \in Workers PROVE Holders(w)' = Holders(w)
      OBVIOUS
    <2>1. r \in Holders(w) <=> (w = WorkerOf[r] /\ Holds(v))
      BY DEF Holders
    <2>2. Holders(w)' = IF w # WorkerOf[r] THEN Holders(w)
                        ELSE IF Holds(v) THEN Holders(w) \cup {r} ELSE Holders(w) \ {r}
      BY RequestMoves, ZenonT(30)
    <2>3. CASE r \in Holders(w)
      <3>1. Holders(w) \cup {r} = Holders(w)
        BY <2>3
      <3> QED
        BY <2>1, <2>2, <2>3, <3>1
    <2>4. CASE r \notin Holders(w)
      <3>1. Holders(w) \ {r} = Holders(w)
        BY <2>4
      <3> QED
        BY <2>1, <2>2, <2>4, <3>1
    <2> QED
      BY <2>3, <2>4
  <1> QED
    BY <1>1, RequestMoves, ZenonT(30) DEF RequestInv

\* acquire: the slot of a request that held none.
LEMMA SlotTaken ==
  ASSUME RequestInv, NEW r \in Callers, NEW v \in Request, req' = [req EXCEPT ![r] = v],
         Shaped(v),
         Holds(v), ~ Holds(req[r]), inFlight[WorkerOf[r]] < MaxConcurrency,
         inFlight' = [inFlight EXCEPT ![WorkerOf[r]] = @ + 1],
         health' = health, faults' \in 0 .. MaxFaults
  PROVE  RequestInv'
  <1> DEFINE h == WorkerOf[r]
  <1>1. h \in Workers
    BY SlotAssumption
  <1>2. inFlight[h] \in Nat /\ inFlight[h] = Cardinality(Holders(h))
    BY <1>1 DEF RequestInv
  <1>3. r \notin Holders(h)
    BY DEF Holders
  <1>4. Cardinality(Holders(h) \cup {r}) = Cardinality(Holders(h)) + 1
    BY <1>1, <1>3, HoldersFinite, FS_AddElement, ZenonT(30)
  <1>5. Holders(h)' = Holders(h) \cup {r} /\ \A w \in Workers \ {h} : Holders(w)' = Holders(w)
    BY <1>1, RequestMoves, ZenonT(30)
  <1>6. /\ inFlight' \in [Workers -> Nat] /\ inFlight'[h] = inFlight[h] + 1
        /\ \A w \in Workers \ {h} : inFlight'[w] = inFlight[w]
    BY <1>1, <1>2 DEF RequestInv
  <1>7. inFlight'[h] <= MaxConcurrency
    BY <1>2, <1>6, SlotAssumption
  <1>8. \A w \in Workers : inFlight'[w] = Cardinality(Holders(w)') /\ inFlight'[w] <= MaxConcurrency
    <2> SUFFICES ASSUME NEW w \in Workers
                 PROVE  inFlight'[w] = Cardinality(Holders(w)') /\ inFlight'[w] <= MaxConcurrency
      OBVIOUS
    <2>1. CASE w = h
      BY <2>1, <1>2, <1>4, <1>5, <1>6, <1>7
    <2>2. CASE w # h
      BY <2>2, <1>5, <1>6 DEF RequestInv
    <2> QED
      BY <2>1, <2>2
  <1> QED
    BY <1>6, <1>8, RequestMoves, ZenonT(30) DEF RequestInv

\* release: the slot of a request that held one.
LEMMA SlotGivenBack ==
  ASSUME RequestInv, NEW r \in Callers, NEW v \in Request, req' = [req EXCEPT ![r] = v],
         Shaped(v),
         ~ Holds(v), Holds(req[r]), Release(r), health' = health, faults' \in 0 .. MaxFaults
  PROVE  RequestInv'
  <1> DEFINE h == WorkerOf[r]
  <1>1. h \in Workers
    BY SlotAssumption
  <1>2. /\ inFlight[h] \in Nat /\ inFlight[h] = Cardinality(Holders(h))
        /\ inFlight[h] <= MaxConcurrency
    BY <1>1 DEF RequestInv
  <1>3. r \in Holders(h)
    BY DEF Holders
  <1>4. Cardinality(Holders(h) \ {r}) = Cardinality(Holders(h)) - 1
    BY <1>1, <1>3, HoldersFinite, FS_RemoveElement, ZenonT(30)
  <1>5. Holders(h)' = Holders(h) \ {r} /\ \A w \in Workers \ {h} : Holders(w)' = Holders(w)
    BY <1>1, RequestMoves, ZenonT(30)
  <1>6. Cardinality(Holders(h)) # 0
    BY <1>1, <1>3, HoldersFinite, FS_EmptySet
  <1>7. /\ inFlight' \in [Workers -> Nat] /\ inFlight'[h] = inFlight[h] - 1
        /\ \A w \in Workers \ {h} : inFlight'[w] = inFlight[w]
    BY <1>1, <1>2, <1>6 DEF RequestInv, Release
  <1>8. inFlight'[h] <= MaxConcurrency
    BY <1>2, <1>7, SlotAssumption
  <1>9. \A w \in Workers : inFlight'[w] = Cardinality(Holders(w)') /\ inFlight'[w] <= MaxConcurrency
    <2> SUFFICES ASSUME NEW w \in Workers
                 PROVE  inFlight'[w] = Cardinality(Holders(w)') /\ inFlight'[w] <= MaxConcurrency
      OBVIOUS
    <2>1. CASE w = h
      BY <2>1, <1>2, <1>4, <1>5, <1>7, <1>8
    <2>2. CASE w # h
      BY <2>2, <1>5, <1>7 DEF RequestInv
    <2> QED
      BY <2>1, <2>2
  <1> QED
    BY <1>7, <1>9, RequestMoves, ZenonT(30) DEF RequestInv

-----------------------------------------------------------------------------
(* The actions of a request *)

\* The access and log phases keep the slots; limit is what acquire compares
\* with when the node's breaker is not half-open.
LEMMA PhasesKeepSlots ==
  ASSUME RequestInv, BreakerTypeOK, shm[Global].state # HALF_OPEN, NEW r \in Callers,
         \/ Preflight(r) \/ Admit(r) \/ Shed(r) \/ Respond(r)
         \/ Reject(r) \/ (\E split \in Splits : Route(r, split))
         \/ Ask(r) \/ Answered(r) \/ FallBack(r) \/ NoneUsable(r) \/ Pick(r)
         \/ ReportUpstream(r) \/ ReportGlobal(r) \/ Finish(r)
  PROVE  RequestInv'
  <1>1. /\ req \in [Callers -> Request] /\ req[r] \in Request /\ faults \in 0 .. MaxFaults
        /\ req[r].admitted => req[r].pc \in {"proxied", "log", "logUpstream", "logGlobal"}
        /\ req[r].pc = "asked" => req[r].cur \in Upstreams
    BY DEF RequestInv, AllShaped, Shaped
  <1>2. \A ok \in BOOLEAN : /\ [req[r] EXCEPT !.pc = "log", !.ok = ok] \in Request
                            /\ [req[r] EXCEPT !.pc = "log", !.ok = ok].pc = "log"
                            /\ [req[r] EXCEPT !.pc = "log", !.ok = ok].admitted = req[r].admitted
                            /\ Shaped([req[r] EXCEPT !.pc = "log", !.ok = ok])
    BY <1>1, ZenonT(30) DEF Request, Phases, Shaped
  <1>3. \A ok \in BOOLEAN : Logged(r, ok) => req' = [req EXCEPT ![r] = [req[r] EXCEPT !.pc = "log", !.ok = ok]]
    BY <1>1, ZenonT(30) DEF Logged
  <1>4. \A ok \in BOOLEAN : Outcome(ok) => faults' \in 0 .. MaxFaults
    BY <1>1, HealthAssumption DEF Outcome
  <1>5. CASE Preflight(r) \/ Shed(r) \/ Respond(r)
    <2>1. PICK ok \in BOOLEAN : Logged(r, ok) /\ faults' \in 0 .. MaxFaults
      BY <1>1, <1>4, <1>5, ZenonT(30) DEF Preflight, Shed, Respond
    <2>2. req[r].pc \in {"idle", "proxied"} /\ inFlight' = inFlight /\ health' = health
      BY <1>5, ZenonT(30) DEF Preflight, Shed, Respond
    <2> DEFINE v == [req[r] EXCEPT !.pc = "log", !.ok = ok]
    <2>3. Holds(v) <=> Holds(req[r])
      BY <1>2, <2>2, ZenonT(30) DEF Holds
    <2> QED
      BY <1>2, <1>3, <2>1, <2>2, <2>3, SlotKept, ZenonT(30)
  <1>6. CASE Admit(r)
    <2> DEFINE v == [req[r] EXCEPT !.pc = "checks"]
    <2>1. /\ req[r].pc = "idle" /\ req' = [req EXCEPT ![r] = v] /\ Acquired(r)
          /\ inFlight' = [inFlight EXCEPT ![WorkerOf[r]] = @ + 1] /\ health' = health /\ faults' = faults
      BY <1>1, <1>6 DEF Admit
    <2>2. v \in Request /\ v.pc = "checks" /\ v.admitted = req[r].admitted
      BY <1>1 DEF Request, Phases
    <2>3. ~ req[r].admitted
      BY <1>1, <2>1
    <2>4. inFlight[WorkerOf[r]] < MaxConcurrency
      BY <2>1 DEF Acquired, Limit
    <2>5. Holds(v) /\ ~ Holds(req[r]) /\ Shaped(v)
      BY <2>1, <2>2, <2>3 DEF Holds, Shaped
    <2> HIDE DEF v
    <2> QED
      BY <1>1, <2>1, <2>2, <2>3, <2>4, <2>5, SlotTaken, ZenonT(30)
  <1>7. CASE Reject(r) \/ NoneUsable(r)
    <2>1. PICK ok \in BOOLEAN : Logged(r, ok) /\ faults' \in 0 .. MaxFaults
      BY <1>1, <1>4, <1>7, ZenonT(30) DEF Reject, NoneUsable
    <2>2. req[r].pc \in {"checks", "select"} /\ Release(r) /\ health' = health
      BY <1>7, ZenonT(30) DEF Reject, NoneUsable, Exhausted
    <2> DEFINE v == [req[r] EXCEPT !.pc = "log", !.ok = ok]
    <2>3. ~ Holds(v) /\ Holds(req[r])
      BY <1>1, <1>2, <2>2, ZenonT(30) DEF Holds
    <2> QED
      BY <1>2, <1>3, <2>1, <2>2, <2>3, SlotGivenBack, ZenonT(30)
  <1>8. CASE \E split \in Splits : Route(r, split)
    <2>1. PICK split \in Splits : Route(r, split)
      BY <1>8
    <2>2. split[1] \subseteq Upstreams /\ split[2] \subseteq Upstreams
      BY NamesAssumption DEF Splits
    <2> DEFINE v == [req[r] EXCEPT !.pc = "select", !.todo = split[1], !.rest = split[2]]
    <2>3. /\ req[r].pc = "checks" /\ req' = [req EXCEPT ![r] = v]
          /\ inFlight' = inFlight /\ health' = health /\ faults' = faults
      BY <1>1, <2>1, ZenonT(30) DEF Route
    <2>4. v \in Request /\ v.pc = "select" /\ v.admitted = req[r].admitted
      BY <1>1, <2>2, ZenonT(30) DEF Request, Phases
    <2>5. Shaped(v) /\ (Holds(v) <=> Holds(req[r]))
      BY <1>1, <2>3, <2>4 DEF Holds, Shaped
    <2> HIDE DEF v
    <2> QED
      BY <1>1, <2>3, <2>4, <2>5, SlotKept, ZenonT(30)
  <1>9. CASE Ask(r)
    <2>1. PICK u \in req[r].todo :
            req' = [req EXCEPT ![r].pc = "asked", ![r].cur = u, ![r].todo = @ \ {u}]
      BY <1>9, ZenonT(30) DEF Ask
    <2> DEFINE v == [req[r] EXCEPT !.pc = "asked", !.cur = u, !.todo = @ \ {u}]
    <2>2. /\ req[r].pc = "select" /\ req' = [req EXCEPT ![r] = v]
          /\ inFlight' = inFlight /\ health' = health /\ faults' = faults
      BY <1>1, <1>9, <2>1, ZenonT(30) DEF Ask
    <2>3. v \in Request /\ v.pc = "asked" /\ v.cur \in Upstreams /\ v.admitted = req[r].admitted
      BY <1>1, <2>1 DEF Request, Phases
    <2>4. Shaped(v) /\ (Holds(v) <=> Holds(req[r]))
      BY <1>1, <2>2, <2>3 DEF Holds, Shaped
    <2> HIDE DEF v
    <2> QED
      BY <1>1, <2>2, <2>3, <2>4, SlotKept, ZenonT(30)
  <1>10. CASE Answered(r)
    <2> DEFINE u == req[r].cur
               ok == ~ call[r].open /\ health[u].up
               v == [req[r] EXCEPT !.pc = "select", !.cur = NoUpstream,
                                   !.usable = IF ok THEN @ \cup {u} ELSE @]
    <2>1. /\ req[r].pc = "asked" /\ req' = [req EXCEPT ![r] = v]
          /\ inFlight' = inFlight /\ health' = health /\ faults' = faults
      BY <1>1, <1>10, ZenonT(30) DEF Answered
    <2>2. v \in Request /\ v.pc = "select" /\ v.admitted = req[r].admitted
      BY <1>1, <2>1, ZenonT(30) DEF Request, Phases
    <2>3. Shaped(v) /\ (Holds(v) <=> Holds(req[r]))
      BY <1>1, <2>1, <2>2 DEF Holds, Shaped
    <2> HIDE DEF v
    <2> QED
      BY <1>1, <2>1, <2>2, <2>3, SlotKept, ZenonT(30)
  <1>11. CASE FallBack(r)
    <2> DEFINE v == [req[r] EXCEPT !.todo = req[r].rest, !.rest = {}]
    <2>1. /\ req[r].pc = "select" /\ req' = [req EXCEPT ![r] = v]
          /\ inFlight' = inFlight /\ health' = health /\ faults' = faults
      BY <1>1, <1>11, ZenonT(30) DEF FallBack, Exhausted
    <2>2. v \in Request /\ v.pc = req[r].pc /\ v.admitted = req[r].admitted
      BY <1>1, ZenonT(30) DEF Request, Phases
    <2>3. Shaped(v) /\ (Holds(v) <=> Holds(req[r]))
      BY <1>1, <2>1, <2>2 DEF Holds, Shaped
    <2> HIDE DEF v
    <2> QED
      BY <1>1, <2>1, <2>2, <2>3, SlotKept, ZenonT(30)
  <1>12. CASE Pick(r)
    <2>1. PICK u \in req[r].usable :
            req' = [req EXCEPT ![r].pc = "proxied", ![r].up = u, ![r].admitted = TRUE,
                               ![r].usable = {}, ![r].rest = {}]
      BY <1>12, ZenonT(30) DEF Pick
    <2> DEFINE v == [req[r] EXCEPT !.pc = "proxied", !.up = u, !.admitted = TRUE,
                                   !.usable = {}, !.rest = {}]
    <2>2. /\ req[r].pc = "select" /\ req' = [req EXCEPT ![r] = v]
          /\ inFlight' = inFlight /\ health' = health /\ faults' = faults
      BY <1>1, <1>12, <2>1, ZenonT(30) DEF Pick
    <2>3. v \in Request /\ v.pc = "proxied" /\ v.admitted
      BY <1>1, <2>1 DEF Request, Phases
    <2>4. Shaped(v) /\ (Holds(v) <=> Holds(req[r]))
      BY <1>1, <2>2, <2>3 DEF Holds, Shaped
    <2> HIDE DEF v
    <2> QED
      BY <1>1, <2>2, <2>3, <2>4, SlotKept, ZenonT(30)
  <1>13. CASE ReportUpstream(r) \/ ReportGlobal(r)
    <2>1. PICK pc \in {"logUpstream", "logGlobal"} : req' = [req EXCEPT ![r].pc = pc]
      BY <1>13 DEF ReportUpstream, ReportGlobal
    <2> DEFINE v == [req[r] EXCEPT !.pc = pc]
    <2>2. /\ req[r].pc \in {"log", "logUpstream"} /\ req' = [req EXCEPT ![r] = v]
          /\ inFlight' = inFlight /\ health' = health /\ faults' = faults
      BY <1>1, <1>13, <2>1 DEF ReportUpstream, ReportGlobal
    <2>3. v \in Request /\ v.pc \in {"logUpstream", "logGlobal"} /\ v.admitted = req[r].admitted
      BY <1>1, <2>1 DEF Request, Phases
    <2>4. Shaped(v) /\ (Holds(v) <=> Holds(req[r]))
      BY <1>1, <2>2, <2>3 DEF Holds, Shaped
    <2> HIDE DEF v
    <2> QED
      BY <1>1, <2>2, <2>3, <2>4, SlotKept, ZenonT(30)
  <1>14. CASE Finish(r)
    <2>1. Idle \in Request /\ Shaped(Idle) /\ ~ Holds(Idle)
      BY DEF Idle, Request, Phases, Shaped, Holds
    <2>2. req[r].pc = "logGlobal" /\ req' = [req EXCEPT ![r] = Idle] /\ health' = health /\ faults' = faults
      BY <1>14 DEF Finish
    <2>3. CASE req[r].admitted
      <3>1. Release(r) /\ Holds(req[r])
        BY <1>14, <2>3 DEF Finish, Holds
      <3> QED
        BY <1>1, <2>1, <2>2, <3>1, SlotGivenBack, ZenonT(30)
    <2>4. CASE ~ req[r].admitted
      <3>1. inFlight' = inFlight /\ ~ Holds(req[r])
        BY <1>14, <2>2, <2>4 DEF Finish, Holds
      <3> QED
        BY <1>1, <2>1, <2>2, <3>1, SlotKept, ZenonT(30)
    <2> QED
      BY <2>3, <2>4, ZenonT(30)
  <1> QED
    BY <1>5, <1>6, <1>7, <1>8, <1>9, <1>10, <1>11, <1>12, <1>13, <1>14

-----------------------------------------------------------------------------
(* Both *)

EdgeInv == BreakerInv /\ RequestInv

\* The node's breaker does not leave OPEN in this step.
NodeStep == shm[Global].state = OPEN => shm'[Global].state = OPEN

\* What trips a breaker in this step was counted.
TripStep ==
  \A p \in Callers :
    (call[p].pc = "count" /\ call'[p].pc = "trip") =>
      \/ streak'[call[p].name] >= FailureThreshold
      \/ \E q \in Callers : call[q].pc = "reset" /\ call[q].name = call[p].name

\* A new node has idle workers, closed breakers and healthy upstreams.
LEMMA EdgeInitially ==
  ASSUME EdgeInit
  PROVE  EdgeInv
  <1>1. BreakerInv
    BY BreakersInitially DEF EdgeInit
  <1>2. Idle \in Request /\ Shaped(Idle) /\ ~ Holds(Idle)
    BY DEF Idle, Request, Phases, Shaped, Holds
  <1>3. /\ inFlight = [w \in Workers |-> 0] /\ req = [r \in Callers |-> Idle] /\ faults = 0
        /\ health = [u \in Upstreams |-> [up |-> TRUE, fails |-> 0, oks |-> 0]]
    BY DEF EdgeInit
  <1>4. [up |-> TRUE, fails |-> 0, oks |-> 0] \in Health
    BY HealthAssumption DEF Health
  <1>5. \A w \in Workers : Holders(w) = {}
    BY <1>2, <1>3 DEF Holders
  <1>6. Cardinality({}) = 0
    BY FS_EmptySet
  <1>7. \A w \in Workers : inFlight[w] = Cardinality(Holders(w)) /\ inFlight[w] <= MaxConcurrency
    <2> SUFFICES ASSUME NEW w \in Workers
                 PROVE  inFlight[w] = Cardinality(Holders(w)) /\ inFlight[w] <= MaxConcurrency
      OBVIOUS
    <2>1. inFlight[w] = 0
      BY <1>3
    <2> QED
      BY <1>5, <1>6, <2>1, SlotAssumption
  <1>8. inFlight \in [Workers -> Nat] /\ req \in [Callers -> Request] /\ AllShaped
    BY <1>2, <1>3 DEF AllShaped
  <1>9. health \in [Upstreams -> Health] /\ faults \in 0 .. MaxFaults
    BY <1>3, <1>4, HealthAssumption
  <1> QED
    BY <1>1, <1>7, <1>8, <1>9 DEF EdgeInv, RequestInv

\* Nothing about the breakers changes while their shared memory and the calls
\* on it do not.
LEMMA BreakersUntouched ==
  ASSUME BreakerInv, UNCHANGED <<shm, call, streak>>
  PROVE  BreakerInv' /\ NodeStep /\ TripStep
  BY DEF BreakerInv, BreakerTypeOK, NodeUnprobed, FailuresCounted, NodeStep, TripStep

\* Nor about the requests while they, their slots and the health flags do not.
LEMMA RequestsUntouched ==
  ASSUME RequestInv, UNCHANGED <<inFlight, health, req, faults>>
  PROVE  RequestInv'
  <1>1. \A w \in Workers : Holders(w)' = Holders(w)
    BY DEF Holders, Holds
  <1> QED
    BY <1>1 DEF RequestInv, AllShaped, Shaped

\* A probe sets a health flag and nothing else.
LEMMA ProbeKeepsRequests ==
  ASSUME RequestInv, NEW u \in Upstreams, NEW ok \in BOOLEAN, ProbeHealth(u, ok)
  PROVE  RequestInv'
  <1>1. /\ UNCHANGED <<inFlight, req>> /\ health \in [Upstreams -> Health]
        /\ faults \in 0 .. MaxFaults
    BY DEF ProbeHealth, RequestInv
  <1>2. \A w \in Workers : Holders(w)' = Holders(w)
    BY <1>1 DEF Holders, Holds
  <1>3. faults' \in 0 .. MaxFaults
    BY <1>1, HealthAssumption DEF ProbeHealth, Outcome
  <1>4. PICK h \in Health : health' = [health EXCEPT ![u] = h]
    <2> DEFINE h == health[u]
               oks == IF ok THEN Saturate(h.oks + 1, HealthyAfter) ELSE 0
               fails == IF ok THEN 0 ELSE Saturate(h.fails + 1, UnhealthyAfter)
               up == IF h.up THEN fails < UnhealthyAfter ELSE oks >= HealthyAfter
    <2>1. health' = [health EXCEPT ![u] = [up |-> up, fails |-> fails, oks |-> oks]]
      BY DEF ProbeHealth
    <2>2. h \in Health
      BY <1>1
    <2>3. oks \in 0 .. HealthyAfter /\ fails \in 0 .. UnhealthyAfter
      BY <2>2, HealthAssumption DEF Health, Saturate
    <2>4. up \in BOOLEAN
      BY <2>2, <2>3, HealthAssumption, Z3T(30) DEF Health
    <2>5. [up |-> up, fails |-> fails, oks |-> oks] \in Health
      BY <2>3, <2>4 DEF Health
    <2> QED
      BY <2>1, <2>5, ZenonT(30)
  <1>5. health' \in [Upstreams -> Health]
    BY <1>1, <1>4
  <1> QED
    BY <1>1, <1>2, <1>3, <1>5 DEF RequestInv, AllShaped, Shaped

\* Starting a call on a breaker.
LEMMA StartIsQuiet ==
  ASSUME BreakerInv, NEW r \in Callers, NEW n \in Names,
         \/ IsOpen(r, n) /\ n # Global
         \/ RecordSuccess(r, n)
         \/ RecordFailure(r, n)
  PROVE  BreakerInv' /\ NodeStep /\ TripStep
  <1>1. /\ BreakerInv' /\ UNCHANGED <<shm, streak>> /\ call[r].pc = "none"
        /\ \A q \in Callers \ {r} : call'[q] = call[q]
    BY StartKeepsBreakers
  <1> QED
    BY <1>1 DEF NodeStep, TripStep

\* Every step keeps the invariant.
LEMMA EdgeStep ==
  ASSUME EdgeInv, EdgeNext
  PROVE  EdgeInv' /\ NodeStep /\ TripStep
  <1>1. BreakerInv /\ RequestInv /\ BreakerTypeOK /\ shm[Global].state # HALF_OPEN
    BY DEF EdgeInv, BreakerInv, NodeUnprobed
  <1>2. ASSUME NEW r \in Callers,
               \/ Preflight(r) \/ Admit(r) \/ Shed(r) \/ Respond(r)
               \/ Reject(r) \/ (\E split \in Splits : Route(r, split))
               \/ Answered(r) \/ FallBack(r) \/ NoneUsable(r) \/ Pick(r) \/ Finish(r)
        PROVE  EdgeInv' /\ NodeStep /\ TripStep
    <2>1. UNCHANGED <<shm, call, streak>>
      BY <1>2, ZenonT(30) DEF Preflight, Admit, Shed, Respond, Reject, Route, Answered, FallBack, NoneUsable,
                  Pick, Finish
    <2>2. RequestInv'
      BY <1>1, <1>2, PhasesKeepSlots
    <2> QED
      BY <1>1, <2>1, <2>2, BreakersUntouched DEF EdgeInv
  <1>3. ASSUME NEW r \in Callers, Ask(r) \/ ReportUpstream(r) \/ ReportGlobal(r)
        PROVE  EdgeInv' /\ NodeStep /\ TripStep
    <2>1. RequestInv'
      BY <1>1, <1>3, PhasesKeepSlots
    <2>2. req[r] \in Request
      BY <1>1 DEF RequestInv
    <2>3. PICK n \in Names : \/ IsOpen(r, n) /\ n # Global
                             \/ RecordSuccess(r, n)
                             \/ RecordFailure(r, n)
      <3>1. CASE Ask(r)
        <4>1. PICK u \in req[r].todo : IsOpen(r, u)
          BY <3>1 DEF Ask
        <4> QED
          BY <2>2, <4>1, NamesAssumption DEF Request
      <3>2. CASE ReportUpstream(r)
        <4>1. req[r].up \in Upstreams /\ Record(r, req[r].up)
          BY <2>2, <3>2 DEF ReportUpstream, Request
        <4> QED
          BY <4>1, NamesAssumption DEF Record
      <3>3. CASE ReportGlobal(r)
        <4>1. Record(r, Global)
          BY <3>3 DEF ReportGlobal
        <4> QED
          BY <4>1, NamesAssumption DEF Record
      <3> QED
        BY <1>3, <3>1, <3>2, <3>3
    <2> QED
      BY <1>1, <2>1, <2>3, StartIsQuiet DEF EdgeInv
  <1>4. ASSUME NEW r \in Callers, BreakerStep(r), UNCHANGED <<inFlight, health, req, faults>>
        PROVE  EdgeInv' /\ NodeStep /\ TripStep
    <2>1. /\ BreakerInv' /\ NodeStep
          /\ \A q \in Callers \ {r} : call'[q] = call[q]
          /\ (call[r].pc = "count" /\ call'[r].pc = "trip") =>
               \/ streak'[call[r].name] >= FailureThreshold
               \/ \E q \in Callers : call[q].pc = "reset" /\ call[q].name = call[r].name
      BY <1>1, <1>4, StepKeepsBreakers DEF NodeStep
    <2>2. TripStep
      BY <2>1 DEF TripStep
    <2> QED
      BY <1>1, <1>4, <2>1, <2>2, RequestsUntouched DEF EdgeInv
  <1>5. ASSUME NEW u \in Upstreams, NEW ok \in BOOLEAN, ProbeHealth(u, ok)
        PROVE  EdgeInv' /\ NodeStep /\ TripStep
    <2>1. UNCHANGED <<shm, call, streak>>
      BY <1>5 DEF ProbeHealth
    <2> QED
      BY <1>1, <1>5, <2>1, BreakersUntouched, ProbeKeepsRequests DEF EdgeInv
  <1>6. ASSUME Tick, UNCHANGED <<inFlight, health, req, faults>>
        PROVE  EdgeInv' /\ NodeStep /\ TripStep
    <2>1. BreakerInv' /\ UNCHANGED call /\ \A n \in Names : shm'[n].state = shm[n].state
      BY <1>1, <1>6, TickKeepsBreakers
    <2>2. NodeStep /\ TripStep
      BY <2>1, NamesAssumption DEF NodeStep, TripStep
    <2> QED
      BY <1>1, <1>6, <2>1, <2>2, RequestsUntouched DEF EdgeInv
  <1> QED
    BY <1>2, <1>3, <1>4, <1>5, <1>6 DEF EdgeNext, Handle

\* A step that changes nothing keeps it too.
LEMMA EdgeStutter ==
  ASSUME EdgeInv, UNCHANGED edgeVars
  PROVE  EdgeInv'
  BY BreakersUntouched, RequestsUntouched DEF EdgeInv, edgeVars

\* Every state of the node satisfies the invariant.
LEMMA EdgeInvariant == EdgeSpec => []EdgeInv
  <1>1. EdgeInit => EdgeInv
    BY EdgeInitially
  <1>2. EdgeInv /\ [EdgeNext]_edgeVars => EdgeInv'
    BY EdgeStep, EdgeStutter
  <1> QED
    BY <1>1, <1>2, PTL DEF EdgeSpec

-----------------------------------------------------------------------------
(* Theorems *)

\* The breakers, the gauges, the health slots and the requests keep their
\* types; in particular no gauge of backpressure.rs falls below zero.
THEOREM EdgeTyped == EdgeSpec => []EdgeTypeOK
  <1>1. EdgeInv => EdgeTypeOK
    BY DEF EdgeInv, BreakerInv, RequestInv, EdgeTypeOK, Request, Phases, Health
  <1> QED
    BY <1>1, EdgeInvariant, PTL

\* Every path through process_request and the log phase pairs one acquire
\* with one release, and no worker exceeds global_max_concurrency.
THEOREM SlotsAreBalanced == EdgeSpec => []SlotsBalanced
  <1>1. EdgeInv => SlotsBalanced
    <2> SUFFICES ASSUME EdgeInv, NEW w \in Workers
                 PROVE  /\ inFlight[w] = Cardinality({r \in Callers : WorkerOf[r] = w /\ HoldsSlot(r)})
                        /\ inFlight[w] <= MaxConcurrency
      BY DEF SlotsBalanced
    <2>1. Holders(w) = {r \in Callers : WorkerOf[r] = w /\ HoldsSlot(r)}
      BY DEF Holders, Holds, HoldsSlot
    <2> QED
      BY <2>1 DEF EdgeInv, RequestInv
  <1> QED
    BY <1>1, EdgeInvariant, PTL

\* record_failure trips a breaker only on failures counted since the last
\* success, or in the window of record_success between its two stores.
THEOREM TripsAreEarned == EdgeSpec => TripEarned
  <1>1. EdgeInv /\ [EdgeNext]_edgeVars => [TripStep]_edgeVars
    BY EdgeStep
  <1> QED
    BY <1>1, EdgeInvariant, PTL DEF EdgeSpec, TripEarned, TripStep

\* The node's breaker, once open, never leaves OPEN: global_state and acquire
\* only read it, and is_open is asked about upstreams.
NodeStaysOpen == [][shm[Global].state = OPEN => shm'[Global].state = OPEN]_edgeVars

\* So it is for any number of workers, upstreams and requests.
THEOREM NodeNeverRecovers == EdgeSpec => NodeStaysOpen
  <1>1. EdgeInv /\ [EdgeNext]_edgeVars => [NodeStep]_edgeVars
    BY EdgeStep
  <1> QED
    BY <1>1, EdgeInvariant, PTL DEF EdgeSpec, NodeStaysOpen, NodeStep
=============================================================================
