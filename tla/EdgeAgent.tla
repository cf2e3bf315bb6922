----------------------------- MODULE EdgeAgent ------------------------------
(***************************************************************************)
(* The config sync agent of an edge (gateway-edge/config-sidecar):         *)
(* snapshot, then change stream, then periodic reconcile.  Two threads     *)
(* share SyncState behind a mutex: "stream" (main and run_stream) and      *)
(* "reconcile".  Both activate snapshots through fetch_and_apply, whose    *)
(* GET /config runs without the lock, so replies race.                     *)
(*                                                                         *)
(* What the control plane answers is a parameter of the actions.           *)
(* Heartbeats only set a metric and are left out; so is validate_snapshot, *)
(* whose refusal is one of the ways RequestFails.                          *)
(***************************************************************************)
EXTENDS Naturals

CONSTANTS
  Agents,         \* edges
  Snapshots,      \* configuration snapshots
  NoSnapshot,     \* SyncState's empty version; no file written yet
  MaxNetFaults,   \* bound: failed requests
  MaxRestarts     \* bound: restarts of an agent process

ASSUME NoSnapshotAssumption == NoSnapshot \notin Snapshots
ASSUME AgentBoundsAssumption == MaxNetFaults \in Nat /\ MaxRestarts \in Nat

VARIABLES
  sync,       \* sync[e]: SyncState, [rev, cfg]
  file,       \* file[e]: the config file the workers watch, [rev, cfg]
  thread,     \* thread[e][t]: program counter and locals of thread t
  netFaults, restarts

agentVars == <<sync, file, thread, netFaults, restarts>>

Threads == {"stream", "reconcile"}

Nothing == [rev |-> 0, cfg |-> NoSnapshot]
Applied == [rev : Nat, cfg : Snapshots \cup {NoSnapshot}]

\* back: where fetch_and_apply returns to; rev: a revision held in a local.
At(label) == [pc |-> label, back |-> label, rev |-> 0, cfg |-> NoSnapshot]
Fetching(origin) == [pc |-> "get", back |-> origin, rev |-> 0, cfg |-> NoSnapshot]
ThreadRecords ==
  [pc : {"unborn", "start", "connect", "opening", "reading", "sleep", "asked",
         "get", "got", "reply"},
   back : {"unborn", "start", "connect", "opening", "reading", "sleep", "asked"},
   rev : Nat, cfg : Snapshots \cup {NoSnapshot}]

Fresh == [t \in Threads |-> IF t = "stream" THEN At("start") ELSE At("unborn")]

Move(e, t, to) == thread' = [thread EXCEPT ![e][t] = to]

-----------------------------------------------------------------------------
(* fetch_and_apply *)

\* The GET /config handler loads the live snapshot ...
GetLive(e, t, c) ==
  /\ thread[e][t].pc = "get"
  /\ Move(e, t, [thread[e][t] EXCEPT !.pc = "got", !.cfg = c])
  /\ UNCHANGED <<sync, file, netFaults, restarts>>

\* ... and then the revision, and the reply is on its way.
GetRevision(e, t, r) ==
  /\ thread[e][t].pc = "got"
  /\ Move(e, t, [thread[e][t] EXCEPT !.pc = "reply", !.rev = r])
  /\ UNCHANGED <<sync, file, netFaults, restarts>>

\* Mutants: a reply is dropped only if it equals the state, or unless it is at
\* least two revisions ahead.
UpToDateIfEqual(s, r, c) == s # Nothing /\ r = s.rev
UpToDateOffByOne(s, r, c) == s # Nothing /\ r <= s.rev + 1

\* Is the reply (revision r, snapshot c) no news to SyncState s?
UpToDate(s, r, c) ==
  IF s = Nothing THEN FALSE
  ELSE IF r = 0 THEN c = s.cfg
  ELSE r <= s.rev

\* Where a thread goes when fetch_and_apply returns Ok: main leaves the initial
\* snapshot phase for the stream loop and spawns the reconcile thread.
Returned(e, t) ==
  IF thread[e][t].back = "start"
  THEN [thread[e] EXCEPT !["stream"] = At("connect"), !["reconcile"] = At("sleep")]
  ELSE [thread[e] EXCEPT ![t] = At(thread[e][t].back)]

\* Under the lock: the freshness test, the atomic file write, the new state.
Activate(e, t) ==
  LET got == [rev |-> thread[e][t].rev, cfg |-> thread[e][t].cfg]
      fresh == ~ UpToDate(sync[e], got.rev, got.cfg)
  IN
  /\ thread[e][t].pc = "reply"
  /\ file' = IF fresh THEN [file EXCEPT ![e] = got] ELSE file
  /\ sync' = IF fresh THEN [sync EXCEPT ![e] = got] ELSE sync
  /\ thread' = [thread EXCEPT ![e] = Returned(e, t)]
  /\ UNCHANGED <<netFaults, restarts>>

\* A request times out, its reply does not validate, or the file cannot be
\* written: the error is logged and the thread resumes where it was.
Resumed(e, t) == At(IF thread[e][t].pc = "asked" THEN "sleep" ELSE thread[e][t].back)

RequestFails(e, t) ==
  /\ thread[e][t].pc \in {"asked", "get", "got", "reply"}
  /\ netFaults < MaxNetFaults
  /\ netFaults' = netFaults + 1
  /\ Move(e, t, Resumed(e, t))
  /\ UNCHANGED <<sync, file, restarts>>

-----------------------------------------------------------------------------
(* main and run_stream *)

InitialFetch(e) ==
  /\ thread[e]["stream"].pc = "start"
  /\ Move(e, "stream", Fetching("start"))
  /\ UNCHANGED <<sync, file, netFaults, restarts>>

\* Open the stream with the active revision as Last-Event-ID.
OpenStream(e) ==
  /\ thread[e]["stream"].pc = "connect"
  /\ Move(e, "stream", [At("opening") EXCEPT !.rev = sync[e].rev])
  /\ UNCHANGED <<sync, file, netFaults, restarts>>

StreamOpened(e) ==
  /\ thread[e]["stream"].pc = "opening"
  /\ Move(e, "stream", At("reading"))
  /\ UNCHANGED <<sync, file, netFaults, restarts>>

StreamLost(e) ==
  /\ thread[e]["stream"].pc \in {"opening", "reading"}
  /\ Move(e, "stream", At("connect"))
  /\ UNCHANGED <<sync, file, netFaults, restarts>>

DecideFetch(current, received) == received > current

\* config_stale always fetches, config_changed only for a newer revision.
ReadFrame(e, frame) ==
  /\ thread[e]["stream"].pc = "reading"
  /\ IF frame.event = "config_stale" \/ DecideFetch(sync[e].rev, frame.rev)
       THEN Move(e, "stream", Fetching("reading"))
       ELSE UNCHANGED thread
  /\ UNCHANGED <<sync, file, netFaults, restarts>>

-----------------------------------------------------------------------------
(* reconcile *)

ReconcileAsk(e) ==
  /\ thread[e]["reconcile"].pc = "sleep"
  /\ Move(e, "reconcile", [At("asked") EXCEPT !.rev = sync[e].rev])
  /\ UNCHANGED <<sync, file, netFaults, restarts>>

\* GET /config/version: 304 and equal revisions end the round, any other
\* revision is drift.
ReconcileAnswer(e, r) ==
  /\ thread[e]["reconcile"].pc = "asked"
  /\ Move(e, "reconcile",
          IF r = thread[e]["reconcile"].rev THEN At("sleep") ELSE Fetching("sleep"))
  /\ UNCHANGED <<sync, file, netFaults, restarts>>

\* The process restarts: SyncState is lost, the file stays.
AgentRestart(e) ==
  /\ restarts < MaxRestarts
  /\ restarts' = restarts + 1
  /\ sync' = [sync EXCEPT ![e] = Nothing]
  /\ thread' = [thread EXCEPT ![e] = Fresh]
  /\ UNCHANGED <<file, netFaults>>

-----------------------------------------------------------------------------
AgentInit ==
  /\ sync = [e \in Agents |-> Nothing]
  /\ file = [e \in Agents |-> Nothing]
  /\ thread = [e \in Agents |-> Fresh]
  /\ netFaults = 0
  /\ restarts = 0

AgentTypeOK ==
  /\ sync \in [Agents -> Applied]
  /\ file \in [Agents -> Applied]
  /\ thread \in [Agents -> [Threads -> ThreadRecords]]
  /\ netFaults \in 0 .. MaxNetFaults
  /\ restarts \in 0 .. MaxRestarts
=============================================================================
