--------------------------- MODULE CircuitBreaker ---------------------------
(***************************************************************************)
(* The circuit breakers of an edge node (rust-ext, load_balancing/         *)
(* circuit_breaker.rs): one slot of shared memory per upstream and one for *)
(* the node, used by all NGINX workers without a lock.  Every step is one  *)
(* atomic operation; call[p] is where caller p stands in is_open,          *)
(* record_success or record_failure.                                       *)
(*                                                                         *)
(* Time enters only as now_secs() - last_failure_time against the reset    *)
(* timeout, so a slot holds its age, which stops growing once the timeout  *)
(* has passed.                                                             *)
(***************************************************************************)
EXTENDS Naturals

CONSTANTS
  Names,             \* breakers: upstream addresses and "__GLOBAL__"
  Callers,           \* requests
  FailureThreshold,  \* FAILURE_THRESHOLD
  ResetTimeout       \* RESET_TIMEOUT_SECS

ASSUME ThresholdAssumption == FailureThreshold \in Nat /\ FailureThreshold > 0
ASSUME TimeoutAssumption == ResetTimeout \in Nat

VARIABLES
  shm,     \* shm[n]: the slot of breaker n, [state, failures, age]
  call,    \* call[p]: [pc, name, open]; open is what is_open returned
  streak   \* streak[n]: history variable, see TripEarned

breakerVars == <<shm, call, streak>>

CLOSED == "closed"
OPEN == "open"
HALF_OPEN == "half-open"

Cold == [state |-> CLOSED, failures |-> 0, age |-> ResetTimeout + 1]
Elapsed(n) == shm[n].age > ResetTimeout

Idling(open) == [pc |-> "none", name |-> CHOOSE n \in Names : TRUE, open |-> open]
Done(p, open) == call' = [call EXCEPT ![p] = Idling(open)]
At(p, n, label) ==
  call' = [call EXCEPT ![p] = IF label = "none" THEN Idling(FALSE)
                              ELSE [pc |-> label, name |-> n, open |-> FALSE]]

-----------------------------------------------------------------------------
(* is_open *)

IsOpen(p, n) ==
  /\ call[p].pc = "none"
  /\ At(p, n, IF shm[n].state = OPEN THEN "opened" ELSE "none")
  /\ UNCHANGED <<shm, streak>>

\* Mutant: an open breaker is reported open and never probed.
CooldownForEver(p) ==
  /\ call[p].pc = "opened"
  /\ Done(p, TRUE)
  /\ UNCHANGED <<shm, streak>>

Cooldown(p) ==
  /\ call[p].pc = "opened"
  /\ IF Elapsed(call[p].name) THEN At(p, call[p].name, "elapsed") ELSE Done(p, TRUE)
  /\ UNCHANGED <<shm, streak>>

\* compare_exchange(OPEN, HALF_OPEN)
Probe(p) ==
  LET n == call[p].name IN
  /\ call[p].pc = "elapsed"
  /\ shm' = IF shm[n].state = OPEN THEN [shm EXCEPT ![n].state = HALF_OPEN] ELSE shm
  /\ Done(p, shm[n].state = CLOSED)
  /\ UNCHANGED streak

-----------------------------------------------------------------------------
(* record_success *)

RecordSuccess(p, n) ==
  /\ call[p].pc = "none"
  /\ At(p, n, CASE shm[n].state = HALF_OPEN -> "close"
                [] shm[n].state = CLOSED -> "reset"
                [] OTHER -> "none")
  /\ UNCHANGED <<shm, streak>>

Close(p) ==
  LET n == call[p].name IN
  /\ call[p].pc = "close"
  /\ shm' = [shm EXCEPT ![n].state = CLOSED]
  /\ streak' = [streak EXCEPT ![n] = 0]
  /\ At(p, n, "reset")

\* Mutant: a success does not clear the failures counted before it.
ResetNothing(p) ==
  LET n == call[p].name IN
  /\ call[p].pc = "reset"
  /\ streak' = [streak EXCEPT ![n] = 0]
  /\ Done(p, FALSE)
  /\ UNCHANGED shm

Reset(p) ==
  LET n == call[p].name IN
  /\ call[p].pc = "reset"
  /\ shm' = [shm EXCEPT ![n].failures = 0]
  /\ streak' = [streak EXCEPT ![n] = 0]
  /\ Done(p, FALSE)

-----------------------------------------------------------------------------
(* record_failure *)

RecordFailure(p, n) ==
  /\ call[p].pc = "none"
  /\ At(p, n, CASE shm[n].state = HALF_OPEN -> "reopen"
                [] shm[n].state = CLOSED -> "count"
                [] OTHER -> "none")
  /\ UNCHANGED <<shm, streak>>

Reopen(p) ==
  LET n == call[p].name IN
  /\ call[p].pc = "reopen"
  /\ shm' = [shm EXCEPT ![n].state = OPEN]
  /\ At(p, n, "stamp")
  /\ UNCHANGED streak

Count(p) ==
  LET n == call[p].name IN
  /\ call[p].pc = "count"
  /\ shm' = [shm EXCEPT ![n].failures = @ + 1]
  /\ streak' = [streak EXCEPT ![n] = @ + 1]
  /\ IF shm[n].failures + 1 >= FailureThreshold THEN At(p, n, "trip") ELSE Done(p, FALSE)

\* compare_exchange(CLOSED, OPEN)
Trip(p) ==
  LET n == call[p].name IN
  /\ call[p].pc = "trip"
  /\ IF shm[n].state = CLOSED
       THEN shm' = [shm EXCEPT ![n].state = OPEN] /\ At(p, n, "stamp")
       ELSE UNCHANGED shm /\ Done(p, FALSE)
  /\ UNCHANGED streak

Stamp(p) ==
  LET n == call[p].name IN
  /\ call[p].pc = "stamp"
  /\ shm' = [shm EXCEPT ![n].age = 0]
  /\ Done(p, FALSE)
  /\ UNCHANGED streak

-----------------------------------------------------------------------------
BreakerStep(p) ==
  \/ Cooldown(p) \/ Probe(p)
  \/ Close(p) \/ Reset(p)
  \/ Reopen(p) \/ Count(p) \/ Trip(p) \/ Stamp(p)

Tick ==
  /\ \E n \in Names : ~ Elapsed(n)
  /\ shm' = [n \in Names |-> [shm[n] EXCEPT !.age = IF Elapsed(n) THEN @ ELSE @ + 1]]
  /\ UNCHANGED <<call, streak>>

BreakerInit ==
  /\ shm = [n \in Names |-> Cold]
  /\ call = [p \in Callers |-> Idling(FALSE)]
  /\ streak = [n \in Names |-> 0]

BreakerTypeOK ==
  /\ shm \in [Names -> [state : {CLOSED, OPEN, HALF_OPEN}, failures : Nat, age : 0 .. ResetTimeout + 1]]
  /\ call \in [Callers -> [pc : {"none", "opened", "elapsed", "close", "reset",
                                 "reopen", "count", "trip", "stamp"},
                           name : Names, open : BOOLEAN]]
  /\ streak \in [Names -> Nat]
=============================================================================
