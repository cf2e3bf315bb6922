---------------------------- MODULE EdgeGateway ----------------------------
(***************************************************************************)
(* A request through an edge node: access phase (gateway.lua access,       *)
(* rust-ext process_request), proxying, log phase (gateway.lua log,        *)
(* report_telemetry, release_slot).  A worker runs one phase of one        *)
(* request at a time and yields only while the upstream answers; workers   *)
(* meet in the shared memory of the circuit breakers and health flags.     *)
(***************************************************************************)
EXTENDS CircuitBreaker, Integers, FiniteSets

CONSTANTS
  Workers,
  WorkerOf,          \* WorkerOf[r]: the worker that handles request slot r
  Upstreams,         \* the pool of the service in the resolved region
  Canary,            \* its members that carry the canary version
  MaxConcurrency,    \* global_max_concurrency
  UnhealthyAfter,    \* unhealthy_threshold.max(1)
  HealthyAfter,      \* healthy_threshold.max(1)
  MaxFaults,         \* bound: answers and probes that fail
  Global,            \* "__GLOBAL__"
  NoUpstream         \* the empty target_upstream

ASSUME NamesAssumption ==
  Names = Upstreams \cup {Global} /\ Global \notin Upstreams /\ Canary \subseteq Upstreams
ASSUME SlotAssumption ==
  IsFiniteSet(Callers) /\ WorkerOf \in [Callers -> Workers] /\ MaxConcurrency \in Nat
ASSUME HealthAssumption == {UnhealthyAfter, HealthyAfter} \subseteq Nat \ {0} /\ MaxFaults \in Nat

VARIABLES
  inFlight,   \* inFlight[w]: IN_FLIGHT of worker w
  health,     \* health[u]: [up, fails, oks], active health flag and counters
  req,        \* req[r]: [pc, todo, rest, usable, cur, up, ok, admitted]
  faults      \* how many of MaxFaults have happened

edgeVars == <<shm, call, streak, inFlight, health, req, faults>>

Idle == [pc |-> "idle", todo |-> {}, rest |-> {}, usable |-> {},
         cur |-> NoUpstream, up |-> NoUpstream, ok |-> TRUE, admitted |-> FALSE]

\* No phase of another request is running on the worker of r.
Turn(r) == \A q \in Callers \ {r} : WorkerOf[q] = WorkerOf[r] => req[q].pc \in {"idle", "proxied"}

Returned(r) == call[r].pc = "none"

\* The access phase or the upstream is done with r; ok unless it was a 5xx.
Logged(r, ok) == req' = [req EXCEPT ![r].pc = "log", ![r].ok = ok]

\* The environment's choice between a good and a bad outcome.
Outcome(ok) == (ok \/ faults < MaxFaults) /\ faults' = IF ok THEN faults ELSE faults + 1

-----------------------------------------------------------------------------
(* Access phase *)

\* apply_cors answers an OPTIONS request (204 or 403) before any check.
Preflight(r) ==
  /\ req[r].pc = "idle" /\ Turn(r)
  /\ Logged(r, TRUE)
  /\ UNCHANGED <<shm, call, streak, inFlight, health, faults>>

Limit == IF shm[Global].state = HALF_OPEN
           THEN IF MaxConcurrency \div 10 > 1 THEN MaxConcurrency \div 10 ELSE 1
           ELSE MaxConcurrency

\* acquire; IN_FLIGHT belongs to the worker's process, so the undone
\* fetch_add of a refused request is seen by nobody.
Acquired(r) == shm[Global].state # OPEN /\ inFlight[WorkerOf[r]] < Limit

Admit(r) ==
  /\ req[r].pc = "idle" /\ Turn(r) /\ Acquired(r)
  /\ inFlight' = [inFlight EXCEPT ![WorkerOf[r]] = @ + 1]
  /\ req' = [req EXCEPT ![r].pc = "checks"]
  /\ UNCHANGED <<shm, call, streak, health, faults>>

Shed(r) ==
  /\ req[r].pc = "idle" /\ Turn(r) /\ ~ Acquired(r)
  /\ Logged(r, FALSE)
  /\ UNCHANGED <<shm, call, streak, inFlight, health, faults>>

Release(r) == inFlight' = [inFlight EXCEPT ![WorkerOf[r]] = @ - 1]

\* WAF, token, route, posture, body, auth, rate and quota: each may end the
\* request with a 4xx (ok) or a 5xx.
Reject(r) ==
  /\ req[r].pc = "checks"
  /\ \E ok \in BOOLEAN : Outcome(ok) /\ Logged(r, ok)
  /\ Release(r)
  /\ UNCHANGED <<shm, call, streak, health>>

\* The subset select_upstream tries first and the one it falls back to.
Splits ==
  LET stable == Upstreams \ Canary IN
  IF Canary = {} \/ stable = {} THEN {<<Upstreams, {}>>}
  ELSE {<<Canary, stable>>, <<stable, Canary>>}

Route(r, split) ==
  /\ req[r].pc = "checks"
  /\ req' = [req EXCEPT ![r].pc = "select", ![r].todo = split[1], ![r].rest = split[2]]
  /\ UNCHANGED <<shm, call, streak, inFlight, health, faults>>

\* collect_healthy_distinct: the next pool member, in ring order.
Ask(r) ==
  /\ req[r].pc = "select" /\ Returned(r)
  /\ \E u \in req[r].todo :
       /\ req' = [req EXCEPT ![r].pc = "asked", ![r].cur = u, ![r].todo = @ \ {u}]
       /\ IsOpen(r, u)
  /\ UNCHANGED <<inFlight, health, faults>>

Answered(r) ==
  /\ req[r].pc = "asked" /\ Returned(r)
  /\ LET u == req[r].cur
         ok == ~ call[r].open /\ health[u].up
     IN req' = [req EXCEPT ![r].pc = "select", ![r].cur = NoUpstream,
                           ![r].usable = IF ok THEN @ \cup {u} ELSE @]
  /\ UNCHANGED <<shm, call, streak, inFlight, health, faults>>

Exhausted(r) == req[r].pc = "select" /\ req[r].todo = {} /\ req[r].usable = {}

\* or_else: the chosen subset has no usable member.
FallBack(r) ==
  /\ Exhausted(r) /\ req[r].rest # {}
  /\ req' = [req EXCEPT ![r].todo = req[r].rest, ![r].rest = {}]
  /\ UNCHANGED <<shm, call, streak, inFlight, health, faults>>

\* Mutant: the path without a usable upstream keeps the slot.
NoneUsableLeaks(r) ==
  /\ Exhausted(r) /\ req[r].rest = {}
  /\ Logged(r, FALSE)
  /\ UNCHANGED <<shm, call, streak, inFlight, health, faults>>

NoneUsable(r) ==
  /\ Exhausted(r) /\ req[r].rest = {}
  /\ Logged(r, FALSE)
  /\ Release(r)
  /\ UNCHANGED <<shm, call, streak, health, faults>>

\* pick_p2c or the walk along the ring: hashes and latencies are abstracted
\* to a choice among the usable members.
Pick(r) ==
  /\ req[r].pc = "select" /\ req[r].todo = {}
  /\ \E u \in req[r].usable :
       req' = [req EXCEPT ![r].pc = "proxied", ![r].up = u, ![r].admitted = TRUE,
                          ![r].usable = {}, ![r].rest = {}]
  /\ UNCHANGED <<shm, call, streak, inFlight, health, faults>>

-----------------------------------------------------------------------------
(* Proxying and log phase *)

Respond(r) ==
  /\ req[r].pc = "proxied" /\ Turn(r)
  /\ \E ok \in BOOLEAN : Outcome(ok) /\ Logged(r, ok)
  /\ UNCHANGED <<shm, call, streak, inFlight, health>>

Record(r, n) == IF req[r].ok THEN RecordSuccess(r, n) ELSE RecordFailure(r, n)

\* report_telemetry: the upstream's breaker first, when there is one, ...
ReportUpstream(r) ==
  /\ req[r].pc = "log" /\ req[r].up # NoUpstream
  /\ Record(r, req[r].up)
  /\ req' = [req EXCEPT ![r].pc = "logUpstream"]
  /\ UNCHANGED <<inFlight, health, faults>>

\* ... then the node's.
ReportGlobal(r) ==
  /\ \/ req[r].pc = "log" /\ req[r].up = NoUpstream
     \/ req[r].pc = "logUpstream"
  /\ Record(r, Global)
  /\ req' = [req EXCEPT ![r].pc = "logGlobal"]
  /\ UNCHANGED <<inFlight, health, faults>>

\* Mutant: the log phase releases a slot for every request.
FinishAlways(r) ==
  /\ req[r].pc = "logGlobal" /\ Returned(r)
  /\ Release(r)
  /\ req' = [req EXCEPT ![r] = Idle]
  /\ UNCHANGED <<shm, call, streak, health, faults>>

Finish(r) ==
  /\ req[r].pc = "logGlobal" /\ Returned(r)
  /\ IF req[r].admitted THEN Release(r) ELSE UNCHANGED inFlight
  /\ req' = [req EXCEPT ![r] = Idle]
  /\ UNCHANGED <<shm, call, streak, health, faults>>

-----------------------------------------------------------------------------
(* Active health checks; a counter stops where the thresholds stop looking. *)

Saturate(n, top) == IF n < top THEN n ELSE top

\* apply_probe
ProbeHealth(u, ok) ==
  LET h == health[u]
      oks == IF ok THEN Saturate(h.oks + 1, HealthyAfter) ELSE 0
      fails == IF ok THEN 0 ELSE Saturate(h.fails + 1, UnhealthyAfter)
      up == IF h.up THEN fails < UnhealthyAfter ELSE oks >= HealthyAfter
  IN /\ Outcome(ok)
     /\ health' = [health EXCEPT ![u] = [up |-> up, fails |-> fails, oks |-> oks]]
     /\ UNCHANGED <<shm, call, streak, inFlight, req>>

-----------------------------------------------------------------------------
Handle(r) ==
  \/ Reject(r) \/ \E split \in Splits : Route(r, split)
  \/ Ask(r) \/ Answered(r) \/ FallBack(r) \/ NoneUsable(r) \/ Pick(r)
  \/ ReportUpstream(r) \/ ReportGlobal(r) \/ Finish(r)
  \/ BreakerStep(r) /\ UNCHANGED <<inFlight, health, req, faults>>

EdgeInit ==
  /\ BreakerInit
  /\ inFlight = [w \in Workers |-> 0]
  /\ health = [u \in Upstreams |-> [up |-> TRUE, fails |-> 0, oks |-> 0]]
  /\ req = [r \in Callers |-> Idle]
  /\ faults = 0

EdgeNext ==
  \/ \E r \in Callers : Preflight(r) \/ Admit(r) \/ Shed(r) \/ Respond(r) \/ Handle(r)
  \/ \E u \in Upstreams, ok \in BOOLEAN : ProbeHealth(u, ok)
  \/ Tick /\ UNCHANGED <<inFlight, health, req, faults>>

EdgeSpec == EdgeInit /\ [][EdgeNext]_edgeVars

\* A worker finishes what it runs, an upstream answers or is timed out by the
\* proxy, time passes; and, as for any claim about recovery, clients keep
\* asking: some of their requests pass the checks, for either subset.
EdgeFairness ==
  /\ \A r \in Callers :
       /\ WF_edgeVars(Handle(r))
       /\ WF_edgeVars(Respond(r))
       /\ SF_edgeVars(Admit(r))
       /\ \A split \in Splits : SF_edgeVars(Route(r, split))
  /\ WF_edgeVars(Tick /\ UNCHANGED <<inFlight, health, req, faults>>)

EdgeFairSpec == EdgeSpec /\ EdgeFairness

-----------------------------------------------------------------------------
HoldsSlot(r) == req[r].admitted \/ req[r].pc \in {"checks", "select", "asked"}

\* Types of the breakers, the gauge, the health slots and the requests.
EdgeTypeOK ==
  /\ BreakerTypeOK
  /\ inFlight \in [Workers -> Nat]
  /\ health \in [Upstreams -> [up : BOOLEAN, fails : 0 .. UnhealthyAfter, oks : 0 .. HealthyAfter]]
  /\ req \in [Callers ->
       [pc : {"idle", "checks", "select", "asked", "proxied", "log", "logUpstream", "logGlobal"},
        todo : SUBSET Upstreams, rest : SUBSET Upstreams, usable : SUBSET Upstreams,
        cur : Upstreams \cup {NoUpstream}, up : Upstreams \cup {NoUpstream},
        ok : BOOLEAN, admitted : BOOLEAN]]
  /\ faults \in 0 .. MaxFaults

\* The in-flight gauge of a worker is the number of its requests that hold a
\* slot, on every path through process_request and the log phase: acquire is
\* paired with exactly one release, and the limit is never exceeded.
SlotsBalanced ==
  \A w \in Workers :
    /\ inFlight[w] = Cardinality({r \in Callers : WorkerOf[r] = w /\ HoldsSlot(r)})
    /\ inFlight[w] <= MaxConcurrency

\* record_failure decides to trip a breaker only when FAILURE_THRESHOLD
\* failures were counted since the last success took effect, or while another
\* worker stands between "state = CLOSED" and "failures = 0" of record_success.
TripEarned ==
  [][\A p \in Callers :
       (call[p].pc = "count" /\ call'[p].pc = "trip") =>
         \/ streak'[call[p].name] >= FailureThreshold
         \/ \E q \in Callers : call[q].pc = "reset" /\ call[q].name = call[p].name]_edgeVars

\* While clients keep asking and the node's own breaker lets them in, an open
\* upstream breaker is probed again: is_open cannot leave it open for ever.
UpstreamRecovers ==
  \A u \in Upstreams :
    shm[u].state = OPEN ~> (shm[u].state # OPEN \/ shm[Global].state = OPEN)

\* The node's breaker does not stay open: after the cooldown it is probed,
\* and traffic is admitted again (global_state, acquire).
GlobalRecovers == shm[Global].state = OPEN ~> shm[Global].state # OPEN
=============================================================================
