----------------------------- MODULE ConfigSync -----------------------------
(***************************************************************************)
(* Configuration delivery end to end: the control plane (ControlPlane)     *)
(* and the sync agents of the edges (EdgeAgent), joined by GET /config,    *)
(* GET /config/version and the change stream GET /config/stream.           *)
(***************************************************************************)
EXTENDS ControlPlane, EdgeAgent

CONSTANT MaxFaults   \* bound: failures of all kinds in a behaviour

ASSUME SameEdges == Agents = Edges
ASSUME SameSnapshots == Snapshots = Configs

vars == <<cpVars, agentVars>>

FaultsLeft == crashes + dbFaults + breaks + netFaults + restarts < MaxFaults

-----------------------------------------------------------------------------
(* Requests of the agents, answered by the control plane *)

\* get_config loads the live snapshot first and the revision after it.
LoadLive(e, t) == GetLive(e, t, live) /\ UNCHANGED cpVars
LoadRevision(e, t) == GetRevision(e, t, revision) /\ UNCHANGED cpVars
Apply(e, t) == Activate(e, t) /\ UNCHANGED cpVars
Fail(e, t) == FaultsLeft /\ RequestFails(e, t) /\ UNCHANGED cpVars

Bootstrap(e) == InitialFetch(e) /\ UNCHANGED cpVars
Connect(e) == OpenStream(e) /\ UNCHANGED cpVars
Accept(e) == thread[e]["stream"].pc = "opening" /\ Subscribe(e) /\ UNCHANGED agentVars
Open(e) == StreamOpened(e) /\ Replay(e, thread[e]["stream"].rev)
Forward(e) == Pump(e) /\ UNCHANGED agentVars
Break(e) == FaultsLeft /\ StreamBreaks(e) /\ UNCHANGED agentVars
Read(e) == conn[e] \in {"open", "closed"} /\ Deliver(e) /\ ReadFrame(e, Head(wire[e]))
Lose(e) == conn[e] = "closed" /\ StreamLost(e) /\ Hangup(e)

Ask(e) == ReconcileAsk(e) /\ UNCHANGED cpVars
Answer(e) == ReconcileAnswer(e, revision) /\ UNCHANGED cpVars

RestartAgent(e) == FaultsLeft /\ AgentRestart(e) /\ Hangup(e)

\* A control-plane crash also breaks the requests it was serving; one that was
\* still to arrive may find the new process instead.
Interrupted ==
  \E late \in SUBSET (Agents \X Threads) :
    thread' = [e \in Agents |-> [t \in Threads |->
      IF \/ thread[e][t].pc = "got"
         \/ thread[e][t].pc \in {"asked", "get"} /\ <<e, t>> \notin late
      THEN Resumed(e, t) ELSE thread[e][t]]]

Crash ==
  /\ FaultsLeft
  /\ RestartFromRows \/ RestartFromSeed
  /\ Interrupted
  /\ UNCHANGED <<sync, file, netFaults, restarts>>

-----------------------------------------------------------------------------
Init == CPInit /\ AgentInit

\* What an admin request, an agent thread and a stream do by themselves.
AdminNext(q) == Admin(q) /\ UNCHANGED agentVars
HandlerNext(q) == Handler(q) /\ UNCHANGED agentVars
RejectedNext(q) == FaultsLeft /\ Rejected(q) /\ UNCHANGED agentVars
FetchNext(e, t) == LoadLive(e, t) \/ LoadRevision(e, t) \/ Apply(e, t)
StreamNext(e) == Bootstrap(e) \/ Connect(e) \/ Accept(e) \/ Open(e) \/ Read(e) \/ Lose(e)
ReconcileNext(e) == Ask(e) \/ Answer(e)

Next ==
  \/ \E q \in Requests : AdminNext(q) \/ HandlerNext(q) \/ RejectedNext(q)
  \/ \E e \in Edges :
       \/ StreamNext(e) \/ ReconcileNext(e)
       \/ Forward(e) \/ Break(e) \/ RestartAgent(e)
       \/ \E t \in Threads : FetchNext(e, t) \/ Fail(e, t)
  \/ Crash

\* A request that was accepted is carried out, an agent thread and the pump
\* keep running.  Admin requests, failures and crashes need never happen.
Fairness ==
  /\ \A q \in Requests : WF_vars(HandlerNext(q))
  /\ \A e \in Edges :
       /\ WF_vars(StreamNext(e))
       /\ WF_vars(ReconcileNext(e))
       /\ WF_vars(Forward(e))
       /\ \A t \in Threads : WF_vars(FetchNext(e, t))

Spec == Init /\ [][Next]_vars
FairSpec == Spec /\ Fairness

-----------------------------------------------------------------------------
(* Properties *)

\* Every variable of the control plane and of the agents has its type.
TypeOK == CPTypeOK /\ StreamTypeOK /\ AgentTypeOK

\* ConfigStore::current never finds an empty history, whatever posts, rollbacks
\* and restarts did, and the history never outgrows CONFIG_HISTORY_LIMIT.
HistoryUsable == Len(history) > 0 /\ Len(history) <= HistoryLimit

\* Durable first (post_config): a snapshot that is live, can be rolled back to
\* or is served by an edge has a row in Postgres, even when writes fail,
\* handlers overlap and the control plane restarts.
Recorded == {rows[i] : i \in 1 .. Len(rows)}
ServedIsAudited ==
  /\ live \in Recorded
  /\ \A i \in 1 .. Len(history) : history[i] \in Recorded
  /\ \A e \in Edges : file[e] # Nothing => file[e].cfg \in Recorded

\* fetch_and_apply: until the control plane restarts, no edge runs or is about
\* to run a revision the control plane has not published.
EdgeNeverAhead ==
  crashes = 0 => \A e \in Edges :
    /\ file[e].rev <= revision
    /\ sync[e].rev <= revision
    /\ \A t \in Threads : thread[e][t].rev <= revision

\* fetch_and_apply: two threads of an agent race with replies of any age and
\* the agent may restart and forget its revision, yet the file the workers
\* watch never goes back to an older revision, unless both the agent and the
\* control plane restarted.
FileRevisionMonotone ==
  [][crashes' = 0 \/ restarts' = 0 =>
       \A e \in Edges : file'[e].rev >= file[e].rev]_vars

\* config_stream subscribes before it replays the ring: while an edge's stream
\* is open and no request of the agents has failed, an edge that is behind has
\* a frame, an event or a fetch on its way that will bring it to the current
\* revision.  Two overlapping publications can leave an older event at the end
\* of the ring, which select_missed_events takes for the latest: then it waits
\* for the next event or for reconcile.
RingInOrder == LastOf(ring) = revision
BeingPublished == \E q \in Requests : request[q].pc \in {"ring", "send"}
OnItsWay(e) ==
  \/ lagged[e]
  \/ \E i \in 1 .. Len(rx[e]) : rx[e][i] > sync[e].rev
  \/ \E i \in 1 .. Len(wire[e]) : wire[e][i] = Stale \/ wire[e][i].rev > sync[e].rev
  \/ thread[e]["stream"].pc \in {"get", "got"}
  \/ thread[e]["stream"].pc = "reply" /\ thread[e]["stream"].rev = revision
NoMissedRevision ==
  \A e \in Edges :
    conn[e] = "open" /\ netFaults = 0 /\ RingInOrder /\ ~ BeingPublished
      => sync[e].rev >= revision \/ OnItsWay(e)

\* reconcile: after the last admin request every edge reaches the control
\* plane's revision, whatever frames, replies and connections were lost, if the
\* control plane did not restart.
RevisionConverges == <>[](crashes = 0 => \A e \in Edges : sync[e].rev = revision)

\* The comment on AppState.revision, "Monotonic config revision": it does not
\* survive a restart, which seeds it from the length of the rebuilt history.
RevisionMonotone == [][revision' >= revision]_vars

\* "full state transfer" (config-sidecar): once changes stop, an edge serves the
\* live snapshot.  get_config reads snapshot and revision separately, so a reply
\* can label an old snapshot with the new revision.
SnapshotConverges == <>[](\A e \in Edges : file[e].cfg = live)
=============================================================================
