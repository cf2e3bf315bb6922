-------------------------- MODULE ConfigSyncProofs --------------------------
(***************************************************************************)
(* Proofs about delivery end to end, for any number of edges, admin        *)
(* requests, snapshots and failures: no file goes back, the snapshots of   *)
(* the store and of the edges have their rows, and an open stream never    *)
(* loses sight of the current revision.                                    *)
(***************************************************************************)
EXTENDS ConfigProofs

USE SeedAssumption, BoundsAssumption, NoRequestAssumption, NoSnapshotAssumption,
    AgentBoundsAssumption, SameEdges, SameSnapshots

-----------------------------------------------------------------------------
(* Files do not go back *)

\* Only the activation of a reply writes a config file.
LEMMA OnlyApplyWrites ==
  ASSUME [Next]_vars
  PROVE  file' = file \/ \E e \in Edges, t \in Threads : Apply(e, t)
<1>1. ASSUME NEW q \in Requests, AdminNext(q) \/ HandlerNext(q) \/ RejectedNext(q) PROVE file' = file
  BY <1>1, Zenon DEF AdminNext, HandlerNext, RejectedNext, agentVars
<1>2. ASSUME NEW e \in Edges, StreamNext(e) \/ ReconcileNext(e) PROVE file' = file
  BY <1>2, Zenon DEF StreamNext, ReconcileNext, Bootstrap, Connect, Accept, Open, Read, Lose, Ask, Answer,
              InitialFetch, OpenStream, StreamOpened, ReadFrame, StreamLost, ReconcileAsk,
              ReconcileAnswer, agentVars
<1>3. ASSUME NEW e \in Edges, Forward(e) \/ Break(e) \/ RestartAgent(e) PROVE file' = file
  BY <1>3, Zenon DEF Forward, Break, RestartAgent, AgentRestart, agentVars
<1>4. ASSUME NEW e \in Edges, NEW t \in Threads, LoadLive(e, t) \/ LoadRevision(e, t) \/ Fail(e, t)
      PROVE  file' = file
  BY <1>4, Zenon DEF LoadLive, LoadRevision, Fail, GetLive, GetRevision, RequestFails
<1>5. CASE Crash
  BY <1>5, Zenon DEF Crash
<1>6. CASE UNCHANGED vars
  BY <1>6, Zenon DEF vars, agentVars
<1> QED
  BY <1>1, <1>2, <1>3, <1>4, <1>5, <1>6, Zenon DEF Next, FetchNext

\* The file the workers watch never goes back to an older revision, whatever
\* replies race and however often the agent restarts, unless the agent and the
\* control plane have both restarted (fetch_and_apply).
THEOREM FileNeverRegresses == Spec => FileRevisionMonotone
<1>1. ASSUME StoreInv, DeliveryInv, [Next]_vars, crashes' = 0 \/ restarts' = 0, NEW f \in Edges
      PROVE  file'[f].rev >= file[f].rev
  <2>1. file[f].rev \in Nat
    BY <1>1, Zenon DEF DeliveryInv, AgentTypeOK, Applied
  <2>2. CASE file' = file
    BY <2>1, <2>2
  <2>3. ASSUME NEW e \in Edges, NEW t \in Threads, Apply(e, t) PROVE file'[f].rev >= file[f].rev
    <3>1. CASE f # e
      BY <1>1, <2>1, <2>3, <3>1, ActivateFacts, SMTT(30)
    <3>2. CASE f = e
      <4>1. /\ sync[e] = file[e] \/ (sync[e] = Nothing /\ restarts > 0)
            /\ crashes = 0 /\ sync[e] = Nothing => thread[e][t].rev >= file[e].rev
            /\ restarts \in Nat
        <5>1. thread[e][t].pc = "reply"
          BY <2>3, Zenon DEF Apply, Activate
        <5>2. restarts \in Nat
          BY <1>1 DEF DeliveryInv, AgentTypeOK
        <5> QED
          BY <1>1, <5>1, <5>2, SMTT(30) DEF DeliveryInv
      <4>2. file[e].rev \in Nat /\ sync[e].rev \in Nat /\ thread[e][t].rev \in Nat
        BY <1>1, SMTT(30) DEF DeliveryInv, AgentTypeOK, Applied, ThreadRecords
      <4>3. restarts' = restarts /\ crashes' = crashes
        BY <1>1, <2>3, ActivateFacts, SMTT(30)
      <4>4. \/ file' = file
            \/ /\ file'[e].rev = thread[e][t].rev /\ file'[e].rev > 0
               /\ sync[e] = Nothing \/ file'[e].rev > sync[e].rev
        BY <1>1, <2>3, ActivateFacts, Zenon
      <4>5. CASE sync[e] = file[e]
        BY <3>2, <4>2, <4>4, <4>5, SMTT(30) DEF Nothing
      <4>6. CASE sync[e] = Nothing /\ restarts > 0
        <5>1. crashes = 0
          <6>1. restarts' = 0 => restarts = 0
            BY <4>3, Zenon
          <6>2. ~ (restarts' = 0)
            BY <4>1, <4>6, <6>1
          <6> QED
            BY <1>1, <4>3, <6>2, Zenon
        <5>2. thread[e][t].rev >= file[e].rev
          BY <4>1, <4>6, <5>1, Zenon
        <5> QED
          BY <3>2, <4>2, <4>4, <5>2
      <4> QED
        BY <4>1, <4>5, <4>6, Zenon
    <3> QED
      BY <3>1, <3>2, Zenon
  <2> QED
    BY <1>1, <2>2, <2>3, OnlyApplyWrites, Zenon
<1>2. StoreInv /\ DeliveryInv /\ [Next]_vars =>
        [crashes' = 0 \/ restarts' = 0 => \A e \in Edges : file'[e].rev >= file[e].rev]_vars
  BY <1>1, Zenon
<1> QED
  BY <1>2, StoreInductive, DeliveryInductive, PTL DEF Spec, FileRevisionMonotone

-----------------------------------------------------------------------------
(* Durable first *)

\* What a handler is about to make live and what a reply carries is recorded
\* too.
StoreAudit ==
  /\ live \in Recorded /\ Seed \in Recorded
  /\ \A i \in 1 .. Len(history) : history[i] \in Recorded
  /\ \A q \in Requests : request[q].pc # "idle" => request[q].cfg \in Recorded
AgentAudit ==
  \A e \in Edges :
    /\ file[e] # Nothing => file[e].cfg \in Recorded
    /\ \A t \in Threads : thread[e][t].pc \in {"got", "reply"} => thread[e][t].cfg \in Recorded

\* A row that is appended is found, and so is every earlier one.
LEMMA AppendRecords ==
  ASSUME rows \in Seq(Configs), NEW c \in Configs, rows' = Append(rows, c)
  PROVE  Recorded \subseteq Recorded' /\ c \in Recorded'
<1>1. Len(rows') = Len(rows) + 1 /\ Len(rows) \in Nat
  OBVIOUS
<1>2. rows'[Len(rows) + 1] = c /\ \A i \in 1 .. Len(rows) : rows'[i] = rows[i]
  OBVIOUS
<1> QED
  BY <1>1, <1>2 DEF Recorded

\* Rows are never removed.
LEMMA RowsStay ==
  ASSUME StoreInv, [Next]_vars
  PROVE  Recorded \subseteq Recorded'
<1>1. rows \in Seq(Configs) /\ \A q \in Requests : request[q].cfg \in Configs
  BY RequestFacts, ZenonT(30) DEF StoreInv, CPTypeOK
<1>2. rows' = rows \/ \E c \in Configs : rows' = Append(rows, c)
  <2>1. ASSUME NEW q \in Requests, Admin(q) \/ Rejected(q)
        PROVE  rows' = rows \/ \E c \in Configs : rows' = Append(rows, c)
    BY <1>1, <2>1, SMTT(30) DEF Admin, Rejected, PostRecord, PostRejected, RollbackPop, RollbackRejected, RecordFails
  <2>2. ASSUME NEW q \in Requests, Handler(q)
        PROVE  rows' = rows \/ \E c \in Configs : rows' = Append(rows, c)
    BY <1>1, <2>2, Zenon DEF Handler, PostActivate, RollbackStore, PublishBump, PublishRing, PublishSend,
                      RollbackRecord
  <2>3. CASE Crash
    BY <2>3, Zenon DEF Crash, RestartFromRows, RestartFromSeed
  <2>4. CASE UNCHANGED configVars
    BY <2>4, Zenon DEF configVars
  <2> QED
    BY <2>1, <2>2, <2>3, <2>4, OthersKeepStore, Zenon
<1>3. CASE rows' = rows
  BY <1>3, Zenon DEF Recorded
<1> QED
  BY <1>1, <1>2, <1>3, AppendRecords, Zenon

\* Handlers keep the store audited.
LEMMA HandlersKeepAudit ==
  ASSUME StoreInv, StoreAudit, [Next]_vars, NEW q \in Requests,
         Admin(q) \/ Handler(q) \/ Rejected(q)
  PROVE  StoreAudit'
<1> USE DEF StoreAudit, Arrives, Goto
<1>1. /\ history \in Seq(Configs) /\ Len(history) > 0 /\ Len(history) <= HistoryLimit
      /\ rows \in Seq(Configs) /\ request[q].cfg \in Configs
  BY RequestFacts, ZenonT(30) DEF StoreInv, CPTypeOK, HistoryUsable
<1>2. Recorded \subseteq Recorded'
  BY RowsStay, Zenon
<1>3. ASSUME NEW to, request' = [request EXCEPT ![q] = to], to.pc = "idle" \/ to.cfg \in Recorded'
      PROVE  \A p \in Requests : request'[p].pc # "idle" => request'[p].cfg \in Recorded'
  BY <1>2, <1>3, Zenon DEF StoreInv, CPTypeOK
<1>4. ASSUME NEW label, Goto(q, label), request[q].pc # "idle"
      PROVE  \A p \in Requests : request'[p].pc # "idle" => request'[p].cfg \in Recorded'
  BY <1>2, <1>4, ZenonT(30) DEF StoreInv, CPTypeOK, RequestRecords
<1>5. ASSUME NEW c \in Configs, PostRecord(q, c) PROVE StoreAudit'
  <2>1. c \in Recorded'
    BY <1>1, <1>5, AppendRecords, Zenon DEF PostRecord
  <2> QED
    BY <1>2, <1>3, <1>5, <2>1, Zenon DEF PostRecord
<1>6. ASSUME NEW c \in Configs, PostRejected(q, c) PROVE StoreAudit'
  BY <1>2, <1>6, Zenon DEF PostRejected
<1>7. CASE PostActivate(q)
  <2>1. request[q].cfg \in Recorded
    BY <1>7, Zenon DEF PostActivate
  <2>2. history' = Push(history, request[q].cfg) /\ live' = request[q].cfg
    BY <1>7, Zenon DEF PostActivate
  <2>3. \A i \in 1 .. Len(history') : history'[i] \in Recorded
    <3> DEFINE h == Push(history, request[q].cfg)
    <3>1. \A i \in 1 .. Len(h) : h[i] = request[q].cfg \/ \E j \in 1 .. Len(history) : h[i] = history[j]
      BY <1>1, PushFacts, ZenonT(30)
    <3> HIDE DEF h
    <3>2. \A i \in 1 .. Len(h) : h[i] \in Recorded
      BY <2>1, <3>1, Zenon
    <3> QED
      BY <2>2, <3>2, Zenon DEF h
  <2>4. \A p \in Requests : request'[p].pc # "idle" => request'[p].cfg \in Recorded'
    BY <1>4, <1>7, ZenonT(30) DEF PostActivate
  <2> QED
    BY <1>2, <2>1, <2>2, <2>3, <2>4, Zenon
<1>8. CASE RollbackPop(q)
  <2>1. history' = Pop(history) /\ live' = live
    BY <1>8, Zenon DEF RollbackPop
  <2>2. \A i \in 1 .. Len(history') : history'[i] \in Recorded
    BY <1>1, <2>1, PopFacts, Zenon
  <2>3. LastOf(Pop(history)) \in Recorded
    <3>1. \E i \in 1 .. Len(Pop(history)) : LastOf(Pop(history)) = Pop(history)[i]
      BY <1>1, PopFacts, LastFacts, Zenon
    <3> QED
      BY <2>1, <2>2, <3>1, Zenon
  <2>4. \A p \in Requests : request'[p].pc # "idle" => request'[p].cfg \in Recorded'
    BY <1>2, <1>3, <1>8, <2>3, Zenon DEF RollbackPop
  <2> QED
    BY <1>2, <2>1, <2>2, <2>4, Zenon
<1>9. CASE RollbackStore(q)
  <2>1. \A p \in Requests : request'[p].pc # "idle" => request'[p].cfg \in Recorded'
    BY <1>4, <1>9, ZenonT(30) DEF RollbackStore
  <2> QED
    BY <1>2, <1>9, <2>1, Zenon DEF RollbackStore
<1>10. CASE RollbackRecord(q) \/ RollbackRejected(q)
  <2>1. \A p \in Requests : request'[p].pc # "idle" => request'[p].cfg \in Recorded'
    BY <1>3, <1>10, ZenonT(30) DEF RollbackRecord, RollbackRejected, Idle
  <2> QED
    BY <1>2, <1>10, <2>1, Zenon DEF RollbackRecord, RollbackRejected
<1>11. CASE PublishBump(q)
  <2>1. \A p \in Requests : request'[p].pc # "idle" => request'[p].cfg \in Recorded'
    BY <1>2, <1>3, <1>11, Zenon DEF PublishBump
  <2> QED
    BY <1>2, <1>11, <2>1, Zenon DEF PublishBump
<1>12. CASE PublishRing(q)
  <2>1. \A p \in Requests : request'[p].pc # "idle" => request'[p].cfg \in Recorded'
    BY <1>4, <1>12, ZenonT(30) DEF PublishRing
  <2> QED
    BY <1>2, <1>12, <2>1, Zenon DEF PublishRing
<1>13. CASE PublishSend(q)
  <2>1. \A p \in Requests : request'[p].pc # "idle" => request'[p].cfg \in Recorded'
    BY <1>3, <1>4, <1>13, ZenonT(30) DEF PublishSend, Idle
  <2> QED
    BY <1>2, <1>13, <2>1, Zenon DEF PublishSend
<1> QED
  BY <1>5, <1>6, <1>7, <1>8, <1>9, <1>10, <1>11, <1>12, <1>13 DEF Admin, Handler, Rejected

\* So does a restart: what it rebuilds the history from are the rows.
LEMMA CrashKeepsAudit ==
  ASSUME StoreInv, StoreAudit, [Next]_vars, Crash
  PROVE  StoreAudit'
<1>1. rows \in Seq(Configs) /\ Len(rows) > 0
  BY Zenon DEF StoreInv, CPTypeOK
<1>2. Recorded \subseteq Recorded' /\ Seed \in Recorded
  BY RowsStay, Zenon DEF StoreAudit
<1>3. ASSUME NEW h \in Seq(Configs), Len(h) > 0, Boot(h), \A i \in 1 .. Len(h) : h[i] \in Recorded
      PROVE  StoreAudit'
  <2>1. live' \in Recorded
    BY <1>3, LastFacts, Zenon DEF Boot
  <2>2. \A p \in Requests : request'[p].pc = "idle"
    BY <1>3, Zenon DEF Boot, Idle
  <2>3. history' = h
    BY <1>3, Zenon DEF Boot
  <2> QED
    BY <1>2, <1>3, <2>1, <2>2, <2>3, Zenon DEF StoreAudit
<1>4. CASE RestartFromRows
  <2> DEFINE h == Newest(rows, HistoryLimit)
  <2>1. /\ h \in Seq(Configs) /\ Len(h) > 0
        /\ \A i \in 1 .. Len(h) : \E j \in 1 .. Len(rows) : h[i] = rows[j]
    BY <1>1, NewestFacts
  <2>2. Boot(h)
    BY <1>4, Zenon DEF RestartFromRows
  <2> HIDE DEF h
  <2>3. \A i \in 1 .. Len(h) : h[i] \in Recorded
    BY <2>1, Zenon DEF Recorded
  <2> QED
    BY <1>3, <2>1, <2>2, <2>3, Zenon
<1>5. CASE RestartFromSeed
  <2> DEFINE h == <<Seed>>
  <2>1. h \in Seq(Configs) /\ Len(h) > 0 /\ \A i \in 1 .. Len(h) : h[i] = Seed
    OBVIOUS
  <2>2. Boot(h)
    BY <1>5, Zenon DEF RestartFromSeed
  <2> HIDE DEF h
  <2> QED
    BY <1>2, <1>3, <2>1, <2>2, Zenon
<1> QED
  BY <1>4, <1>5, Zenon DEF Crash

\* An agent's step keeps the audit if the snapshot it takes along is recorded.
LEMMA MoveKeepsAudit ==
  ASSUME AgentTypeOK, AgentAudit, Recorded \subseteq Recorded',
         NEW e \in Edges, NEW t \in Threads, NEW to,
         thread' = [thread EXCEPT ![e][t] = to], file' = file,
         to.pc \in {"got", "reply"} => to.cfg \in Recorded
  PROVE  AgentAudit'
<1>1. \A f \in Edges : \A u \in Threads :
        thread'[f][u] = IF f = e /\ u = t THEN to ELSE thread[f][u]
  BY Zenon DEF AgentTypeOK
<1> QED
  BY <1>1 DEF AgentAudit

\* Every step keeps AgentAudit.
LEMMA StepsKeepAgentAudit ==
  ASSUME StoreInv, DeliveryInv, StoreAudit, AgentAudit, [Next]_vars
  PROVE  AgentAudit'
<1> USE DEF Move
<1>0. AgentTypeOK /\ Recorded \subseteq Recorded' /\ "stream" \in Threads /\ "reconcile" \in Threads
  BY RowsStay, Zenon DEF DeliveryInv, Threads
<1>1. file' = file /\ thread' = thread => AgentAudit'
  BY <1>0, Zenon DEF AgentAudit
<1>2. ASSUME NEW q \in Requests, AdminNext(q) \/ HandlerNext(q) \/ RejectedNext(q) PROVE AgentAudit'
  BY <1>1, <1>2, Zenon DEF AdminNext, HandlerNext, RejectedNext, agentVars
<1>3. ASSUME NEW e \in Edges, StreamNext(e) PROVE AgentAudit'
  <2>1. CASE Bootstrap(e)
    BY <1>0, <2>1, MoveKeepsAudit, ZenonT(30) DEF Bootstrap, InitialFetch, Fetching
  <2>2. CASE Connect(e)
    <3>1. [At("opening") EXCEPT !.rev = sync[e].rev].pc = "opening"
      BY Zenon DEF At
    <3> QED
      BY <1>0, <2>2, <3>1, MoveKeepsAudit, ZenonT(30) DEF Connect, OpenStream
  <2>3. CASE Accept(e)
    BY <1>1, <2>3, Zenon DEF Accept, agentVars
  <2>4. CASE Open(e)
    BY <1>0, <2>4, MoveKeepsAudit, ZenonT(30) DEF Open, StreamOpened, At
  <2>5. CASE Read(e)
    BY <1>0, <1>1, <2>5, MoveKeepsAudit DEF Read, ReadFrame, Fetching
  <2>6. CASE Lose(e)
    BY <1>0, <2>6, MoveKeepsAudit, ZenonT(30) DEF Lose, StreamLost, At
  <2> QED
    BY <1>3, <2>1, <2>2, <2>3, <2>4, <2>5, <2>6 DEF StreamNext
<1>4. ASSUME NEW e \in Edges, ReconcileNext(e) PROVE AgentAudit'
  <2>1. CASE Ask(e)
    <3>1. [At("asked") EXCEPT !.rev = sync[e].rev].pc = "asked"
      BY Zenon DEF At
    <3> QED
      BY <1>0, <2>1, <3>1, MoveKeepsAudit, ZenonT(30) DEF Ask, ReconcileAsk
  <2>2. CASE Answer(e)
    <3>1. PICK to \in {At("sleep"), Fetching("sleep")} :
            thread' = [thread EXCEPT ![e]["reconcile"] = to] /\ file' = file
      BY <2>2, Zenon DEF Answer, ReconcileAnswer
    <3>2. to.pc \notin {"got", "reply"}
      BY <3>1 DEF At, Fetching
    <3> QED
      BY <1>0, <3>1, <3>2, MoveKeepsAudit, ZenonT(30)
  <2> QED
    BY <1>4, <2>1, <2>2, Zenon DEF ReconcileNext
<1>5. ASSUME NEW e \in Edges, Forward(e) \/ Break(e) PROVE AgentAudit'
  BY <1>1, <1>5, Zenon DEF Forward, Break, agentVars
<1>6. ASSUME NEW e \in Edges, RestartAgent(e) PROVE AgentAudit'
  <2>1. \A t \in Threads : Fresh[t].pc \notin {"got", "reply"}
    BY Zenon DEF Fresh, At
  <2>2. thread'[e] = Fresh /\ \A f \in Edges \ {e} : thread'[f] = thread[f]
    BY <1>0, <1>6, Zenon DEF RestartAgent, AgentRestart, AgentTypeOK
  <2> QED
    BY <1>0, <1>6, <2>1, <2>2 DEF AgentAudit, RestartAgent, AgentRestart
<1>7. ASSUME NEW e \in Edges, NEW t \in Threads, FetchNext(e, t) \/ Fail(e, t) PROVE AgentAudit'
  <2>0. thread[e][t] \in ThreadRecords
    BY <1>0, Zenon DEF AgentTypeOK
  <2>1. CASE LoadLive(e, t)
    <3>1. live \in Recorded
      BY Zenon DEF StoreAudit
    <3>2. [thread[e][t] EXCEPT !.pc = "got", !.cfg = live].cfg = live
      BY <2>0, Zenon DEF ThreadRecords
    <3> QED
      BY <1>0, <2>1, <3>1, <3>2, MoveKeepsAudit, ZenonT(30) DEF LoadLive, GetLive
  <2>2. CASE LoadRevision(e, t)
    <3>1. thread[e][t].cfg \in Recorded
      BY <2>2, Zenon DEF LoadRevision, GetRevision, AgentAudit
    <3>2. [thread[e][t] EXCEPT !.pc = "reply", !.rev = revision].cfg = thread[e][t].cfg
      BY <2>0, Zenon DEF ThreadRecords
    <3> QED
      BY <1>0, <2>2, <3>1, <3>2, MoveKeepsAudit, ZenonT(30) DEF LoadRevision, GetRevision
  <2>3. CASE Fail(e, t)
    <3>1. thread[e][t].back \notin {"got", "reply"}
      BY <2>0, Zenon DEF ThreadRecords
    <3> QED
      <4> DEFINE to == Resumed(e, t)
      <4>1. to.pc \notin {"got", "reply"}
        BY <3>1, Zenon DEF Resumed, At
      <4>2. thread' = [thread EXCEPT ![e][t] = to] /\ file' = file
        BY <2>3, Zenon DEF Fail, RequestFails
      <4> HIDE DEF to
      <4> QED
        BY <1>0, <4>1, <4>2, MoveKeepsAudit, ZenonT(30)
  <2>4. CASE Apply(e, t)
    <3>1. \A f \in Edges \ {e} : thread'[f] = thread[f] /\ file'[f] = file[f]
      BY <2>4, ActivateFacts, Zenon
    <3>2. \A u \in Threads : thread'[e][u].pc \in {"got", "reply"} => thread'[e][u] = thread[e][u]
      <4>1. thread[e] \in [Threads -> ThreadRecords] /\ thread \in [Agents -> [Threads -> ThreadRecords]]
        BY <1>0, Zenon DEF AgentTypeOK
      <4>2. thread'[e] = Returned(e, t)
        BY <2>4, <4>1 DEF Apply, Activate
      <4>3. thread[e][t].back \notin {"got", "reply"}
        BY <2>0, Zenon DEF ThreadRecords
      <4>4. \A label : At(label).pc = label
        BY Zenon DEF At
      <4>5. CASE thread[e][t].back = "start"
        <5> DEFINE a == At("connect")
                   b == At("sleep")
        <5>1. a.pc = "connect" /\ b.pc = "sleep"
          BY <4>4, Zenon
        <5>2. thread'[e] = [thread[e] EXCEPT !["stream"] = a, !["reconcile"] = b]
          BY <4>2, <4>5, Zenon DEF Returned
        <5> HIDE DEF a, b
        <5> QED
          BY <4>1, <5>1, <5>2, Zenon
      <4>6. CASE thread[e][t].back # "start"
        <5> DEFINE a == At(thread[e][t].back)
        <5>1. a.pc = thread[e][t].back
          BY <4>4, Zenon
        <5>2. thread'[e] = [thread[e] EXCEPT ![t] = a]
          BY <4>2, <4>6, Zenon DEF Returned
        <5> HIDE DEF a
        <5> QED
          BY <4>1, <4>3, <5>1, <5>2
      <4> QED
        BY <4>5, <4>6, Zenon
    <3>3. thread[e][t].cfg \in Recorded
      BY <2>4, Zenon DEF Apply, Activate, AgentAudit
    <3>4. file'[e] = file[e] \/ file'[e].cfg = thread[e][t].cfg
      BY <1>0, <2>4, Zenon DEF Apply, Activate, AgentTypeOK
    <3>5. ASSUME NEW f \in Edges, file'[f] # Nothing PROVE file'[f].cfg \in Recorded'
      <4>1. file'[f] = file[f] \/ file'[f].cfg = thread[e][t].cfg
        BY <3>1, <3>4, Zenon
      <4>2. file[f] # Nothing => file[f].cfg \in Recorded
        BY Zenon DEF AgentAudit
      <4> QED
        BY <1>0, <3>3, <3>5, <4>1, <4>2
    <3>6. ASSUME NEW f \in Edges, NEW u \in Threads, thread'[f][u].pc \in {"got", "reply"}
          PROVE  thread'[f][u].cfg \in Recorded'
      <4>1. thread'[f][u] = thread[f][u]
        BY <3>1, <3>2, <3>6, Zenon
      <4>2. thread[f][u].cfg \in Recorded
        BY <3>6, <4>1, Zenon DEF AgentAudit
      <4> QED
        BY <1>0, <4>1, <4>2, Zenon
    <3> QED
      BY <3>5, <3>6, Zenon DEF AgentAudit
  <2> QED
    BY <1>7, <2>1, <2>2, <2>3, <2>4, Zenon DEF FetchNext
<1>8. CASE Crash
  <2>1. \A e \in Edges : \A t \in Threads :
          thread'[e][t].pc \in {"got", "reply"} => thread'[e][t] = thread[e][t]
    BY <1>0, <1>8, InterruptedFacts, Zenon DEF Crash
  <2> QED
    BY <1>0, <1>8, <2>1 DEF AgentAudit, Crash
<1>9. CASE UNCHANGED vars
  BY <1>1, <1>9, Zenon DEF vars, agentVars
<1> QED
  BY <1>2, <1>3, <1>4, <1>5, <1>6, <1>7, <1>8, <1>9, Zenon DEF Next

\* Durable first: nothing is live, restorable or served by an edge that Postgres
\* has no row for (post_config, rollback_config, rebuild_initial_state).
THEOREM ServedConfigsAreAudited == Spec => []ServedIsAudited
<1>1. Init => StoreAudit /\ AgentAudit
  <2> SUFFICES ASSUME Init PROVE StoreAudit /\ AgentAudit
    BY Zenon
  <2>1. Recorded = {Seed}
    <3>1. rows = <<Seed>> /\ Len(rows) = 1 /\ rows[1] = Seed
      BY Zenon DEF Init, CPInit
    <3> QED
      BY <3>1 DEF Recorded
  <2>2. StoreAudit
    BY <2>1 DEF Init, CPInit, StoreAudit, Idle
  <2>3. AgentAudit
    BY Zenon DEF Init, AgentInit, AgentAudit, Fresh, At
  <2> QED
    BY <2>2, <2>3, Zenon
<1>2. StoreInv /\ StoreAudit /\ [Next]_vars => StoreAudit'
  <2>1. StoreAudit /\ UNCHANGED configVars => StoreAudit'
    BY DEF StoreAudit, Recorded, configVars
  <2> QED
    BY <2>1, HandlersKeepAudit, CrashKeepsAudit, OthersKeepStore, Zenon
<1>3. StoreInv /\ DeliveryInv /\ StoreAudit /\ AgentAudit /\ [Next]_vars => AgentAudit'
  BY StepsKeepAgentAudit, Zenon
<1>4. StoreAudit /\ AgentAudit => ServedIsAudited
  BY Zenon DEF StoreAudit, AgentAudit, ServedIsAudited
<1> QED
  BY <1>1, <1>2, <1>3, <1>4, StoreInductive, DeliveryInductive, PTL DEF Spec

-----------------------------------------------------------------------------
(* The change stream *)

\* The edge's end of the connection goes away: nothing is promised until the
\* stream is open again.
LEMMA HangupKeepsStream ==
  ASSUME StreamInv, NEW e \in Edges, Lose(e) \/ RestartAgent(e), DeliveryInv
  PROVE  StreamInv'
<1>0. /\ thread \in [Agents -> [Threads -> ThreadRecords]] /\ sync \in [Agents -> Applied]
      /\ "stream" \in Threads /\ "reconcile" \in Threads /\ breaks \in 0 .. MaxBreaks
      /\ conn \in [Edges -> {"none", "subscribed", "open", "closed"}]
  BY Zenon DEF DeliveryInv, AgentTypeOK, StreamInv, StreamTypeOK, Threads
<1>1. /\ conn' = [conn EXCEPT ![e] = "none"] /\ rx' = [rx EXCEPT ![e] = <<>>]
      /\ lagged' = [lagged EXCEPT ![e] = FALSE] /\ wire' = [wire EXCEPT ![e] = <<>>]
      /\ UNCHANGED <<ring, revision, request, breaks, netFaults>>
  BY Zenon DEF Lose, RestartAgent, Hangup, Disconnected, StreamLost, AgentRestart, configVars
<1>2. conn'[e] # "open"
  BY <1>0, <1>1, Zenon
<1>3. NotMissed(e)'
  BY <1>2, Zenon DEF NotMissed
<1>4. LastIdIsHeld(e)' /\ \A f \in Edges \ {e} : sync'[f] = sync[f] /\ thread'[f] = thread[f]
  <2>1. CASE Lose(e)
    <3>1. thread' = [thread EXCEPT ![e]["stream"] = At("connect")] /\ sync' = sync
      BY <2>1, Zenon DEF Lose, StreamLost, Move
    <3>2. At("connect").pc = "connect"
      BY ThreadRecordFacts, Zenon
    <3>3. thread'[e]["stream"].pc = "connect" /\ thread'[e]["reconcile"] = thread[e]["reconcile"]
      BY <1>0, <3>1, <3>2, Zenon
    <3> QED
      BY <1>0, <3>1, <3>3, Zenon DEF StreamInv, LastIdIsHeld
  <2>2. CASE RestartAgent(e)
    <3>1. thread' = [thread EXCEPT ![e] = Fresh] /\ sync' = [sync EXCEPT ![e] = Nothing]
      BY <2>2, Zenon DEF RestartAgent, AgentRestart
    <3>2. Fresh["stream"].pc = "start" /\ Fresh["reconcile"].back = "unborn"
      BY <1>0, Zenon DEF Fresh, At
    <3>3. thread'[e] = Fresh
      BY <1>0, <3>1, Zenon
    <3> QED
      BY <1>0, <3>1, <3>2, <3>3, Zenon DEF LastIdIsHeld
  <2> QED
    BY <2>1, <2>2, Zenon
<1>5. <<>> \in Seq(Nat) /\ Len(<<>>) <= ChannelCap /\ <<>> \in Seq(Frames)
  OBVIOUS
<1> QED
  BY <1>0, <1>1, <1>3, <1>4, <1>5, OneStream, ZenonT(30)

\* The replay: an edge that is behind the newest event of the ring is sent it,
\* or a config_stale.
LEMMA OpenKeepsStream ==
  ASSUME StoreInv, DeliveryInv, StreamInv, NEW e \in Edges, Open(e)
  PROVE  StreamInv'
<1> DEFINE lastId == thread[e]["stream"].rev
           sel == SelectMissed(ring, lastId)
           stale == IF sel.stale THEN <<Stale>> ELSE <<>>
           missed == [i \in 1 .. Len(sel.missed) |-> Changed(sel.missed[i])]
           w == stale \o missed
<1>0. /\ thread \in [Agents -> [Threads -> ThreadRecords]] /\ sync[e].rev \in Nat
      /\ "stream" \in Threads /\ "reconcile" \in Threads /\ breaks \in 0 .. MaxBreaks
      /\ conn \in [Edges -> {"none", "subscribed", "open", "closed"}]
      /\ rx \in [Edges -> Seq(Nat)] /\ lagged \in [Edges -> BOOLEAN] /\ Len(rx[e]) <= ChannelCap
      /\ ring \in Seq(Nat) /\ Len(ring) > 0 /\ lastId \in Nat /\ lastId <= sync[e].rev
      /\ wire \in [Edges -> Seq(Frames)]
  BY DEF DeliveryInv, AgentTypeOK, StreamInv, StreamTypeOK, Threads, Applied, ThreadRecords, Open,
         StreamOpened, LastIdIsHeld
<1>1. /\ thread' = [thread EXCEPT ![e]["stream"] = At("reading")]
      /\ conn' = [conn EXCEPT ![e] = "open"] /\ wire' = [wire EXCEPT ![e] = w]
      /\ UNCHANGED <<sync, netFaults, ring, revision, request, rx, lagged, breaks>>
  BY ZenonT(30) DEF Open, StreamOpened, Replay, Move, configVars
<1>2. LastIdIsHeld(e)' /\ \A f \in Edges \ {e} : sync'[f] = sync[f] /\ thread'[f] = thread[f]
  <2>1. At("reading").pc = "reading"
    BY ThreadRecordFacts, Zenon
  <2>2. thread'[e]["stream"].pc = "reading" /\ thread'[e]["reconcile"] = thread[e]["reconcile"]
    BY <1>0, <1>1, <2>1, ZenonT(30)
  <2> QED
    BY <1>0, <1>1, <2>2, ZenonT(30) DEF StreamInv, LastIdIsHeld
<1> HIDE DEF lastId
<1>3. /\ sel.missed \in Seq(Nat) /\ sel.stale \in BOOLEAN
      /\ \/ lastId >= LastOf(ring)
         \/ sel.stale
         \/ \E i \in 1 .. Len(sel.missed) : sel.missed[i] = LastOf(ring)
  BY <1>0, MissedFacts, ZenonT(30)
<1> HIDE DEF sel
<1>4. /\ missed \in Seq(Frames) /\ Len(missed) = Len(sel.missed)
      /\ \A i \in 1 .. Len(missed) : missed[i].rev = sel.missed[i]
  BY <1>3 DEF Changed, Frames
<1>5. /\ stale \in Seq(Frames) /\ Len(stale) \in Nat
      /\ sel.stale => 1 \in 1 .. Len(stale) /\ stale[1] = Stale
  <2>1. Stale \in Frames
    BY Zenon DEF Stale, Frames
  <2>2. CASE sel.stale
    <3>1. stale = <<Stale>>
      BY <2>2, Zenon
    <3> HIDE DEF stale
    <3> QED
      BY <2>1, <3>1
  <2>3. CASE ~ sel.stale
    <3>1. stale = <<>>
      BY <2>3, Zenon
    <3> HIDE DEF stale
    <3> QED
      BY <2>3, <3>1
  <2> QED
    BY <1>3, <2>2, <2>3, Zenon
<1> HIDE DEF stale, missed
<1>6. /\ w \in Seq(Frames) /\ Len(w) = Len(stale) + Len(missed)
      /\ \A i \in 1 .. Len(stale) : w[i] = stale[i]
      /\ \A i \in 1 .. Len(missed) : w[Len(stale) + i] = missed[i]
  BY <1>4, <1>5, Z3T(30)
<1> HIDE DEF w
<1>7. wire'[e] = w
  BY <1>0, <1>1, Zenon
<1>8. NotMissed(e)'
  <2> SUFFICES ASSUME LastOf(ring) = revision PROVE Coming(e)'
    BY <1>1, Zenon DEF NotMissed, RingInOrder
  <2>1. CASE lastId >= LastOf(ring)
    <3>1. revision \in Nat
      BY Zenon DEF StoreInv, CPTypeOK
    <3>2. sync[e].rev >= revision
      BY <1>0, <2>1, <3>1, Z3T(30)
    <3> QED
      BY <1>1, <3>2, Zenon DEF Coming
  <2>2. CASE sel.stale
    <3>1. 1 \in 1 .. Len(w) /\ w[1] = Stale
      BY <1>4, <1>5, <1>6, <2>2
    <3> QED
      BY <1>7, <3>1, Zenon DEF Coming
  <2>3. CASE \E i \in 1 .. Len(sel.missed) : sel.missed[i] = LastOf(ring)
    <3>1. PICK i \in 1 .. Len(missed) : missed[i].rev = revision
      BY <1>4, <2>3, Zenon
    <3>2. Len(stale) + i \in 1 .. Len(w)
      BY <1>4, <1>5, <1>6
    <3>3. w[Len(stale) + i].rev = revision
      BY <1>6, <3>1, ZenonT(30)
    <3> QED
      BY <1>1, <1>7, <3>2, <3>3, ZenonT(30) DEF Coming
  <2> QED
    BY <1>3, <2>1, <2>2, <2>3, Zenon
<1>9. rx[e] \in Seq(Nat) /\ lagged[e] \in BOOLEAN
      /\ rx' = [rx EXCEPT ![e] = rx[e]] /\ lagged' = [lagged EXCEPT ![e] = lagged[e]]
  BY <1>0, <1>1, Zenon
<1> QED
  BY <1>0, <1>1, <1>2, <1>6, <1>8, <1>9, OneStream, ZenonT(30)

\* A thread that moves on keeps StreamInv if it does not forget a fetch that
\* will bring the current revision, and holds no Last-Event-ID ahead of
\* SyncState.
LEMMA MoveKeepsStream ==
  ASSUME DeliveryInv, StreamInv, NEW e \in Edges, NEW t \in Threads, NEW to \in ThreadRecords,
         thread' = [thread EXCEPT ![e][t] = to], UNCHANGED <<sync, cpVars>>,
         netFaults' = 0 => netFaults = 0,
         t = "stream" /\ to.pc = "opening" => to.rev <= sync[e].rev,
         t = "reconcile" => to.back \in {"unborn", "sleep", "asked"},
         \/ t = "reconcile" \/ thread[e][t].pc \notin {"get", "got", "reply"}
         \/ netFaults' # 0 \/ to.pc \in {"get", "got"} \/ (to.pc = "reply" /\ to.rev = revision)
  PROVE  StreamInv'
<1>0. /\ thread \in [Agents -> [Threads -> ThreadRecords]]
      /\ "stream" \in Threads /\ "reconcile" \in Threads
  BY Zenon DEF DeliveryInv, AgentTypeOK, Threads
<1>1. \A f \in Edges : \A u \in Threads : thread'[f][u] = IF f = e /\ u = t THEN to ELSE thread[f][u]
  BY <1>0, Zenon
<1>2. StreamTypeOK' /\ Len(ring') > 0 /\ \A f \in Edges : Len(rx'[f]) <= ChannelCap
  BY ZenonT(30) DEF StreamInv, StreamTypeOK, cpVars
<1>3. \A f \in Edges : LastIdIsHeld(f)'
  BY <1>0, <1>1 DEF StreamInv, LastIdIsHeld
<1>4. RingInOrder' = RingInOrder /\ Published' = Published
  BY Zenon DEF RingInOrder, Published, cpVars
<1>5. ASSUME NEW f \in Edges PROVE NotMissed(f)'
  <2>1. CASE thread'[f]["stream"] = thread[f]["stream"]
    BY <1>4, <2>1, Untouched, Zenon DEF StreamInv, cpVars
  <2>2. CASE f = e /\ t = "stream"
    <3>1. thread'[e]["stream"] = to
      BY <1>0, <1>1, <2>2, Zenon
    <3>2. NotMissed(e)
      BY Zenon DEF StreamInv
    <3>3. CASE thread[e]["stream"].pc \notin {"get", "got", "reply"}
      BY <1>4, <2>2, <3>2, <3>3, Zenon DEF NotMissed, Coming, cpVars
    <3>4. CASE thread[e]["stream"].pc \in {"get", "got", "reply"}
      BY <2>2, <3>1, <3>4, Zenon DEF NotMissed, Coming, cpVars
    <3> QED
      BY <3>3, <3>4, Zenon
  <2> QED
    BY <1>0, <1>1, <2>1, <2>2
<1> QED
  BY <1>2, <1>3, <1>5, Zenon DEF StreamInv

\* The steps of the agents' threads that neither read a frame nor activate.
LEMMA ThreadsKeepStream ==
  ASSUME StoreInv, DeliveryInv, StreamInv, NEW e \in Edges,
         \/ Bootstrap(e) \/ Connect(e) \/ Ask(e) \/ Answer(e)
         \/ \E t \in Threads : LoadLive(e, t) \/ LoadRevision(e, t) \/ Fail(e, t)
  PROVE  StreamInv'
<1> USE DEF Move
<1>0. /\ \A t \in Threads : thread[e][t] \in ThreadRecords
      /\ thread \in [Agents -> [Threads -> ThreadRecords]]
      /\ sync[e].rev \in Nat /\ revision \in Nat /\ netFaults \in Nat
      /\ "stream" \in Threads /\ "reconcile" \in Threads /\ "stream" # "reconcile"
      /\ thread[e]["reconcile"].back \in {"unborn", "sleep", "asked"}
  BY DEF DeliveryInv, AgentTypeOK, StoreInv, CPTypeOK, Threads, Applied, StreamInv, LastIdIsHeld
<1>1. ASSUME NEW t \in Threads, LoadLive(e, t) PROVE StreamInv'
  <2> DEFINE to == [thread[e][t] EXCEPT !.pc = "got", !.cfg = live]
  <2>1. to \in ThreadRecords /\ to.pc = "got" /\ to.back = thread[e][t].back
    BY <1>0, ZenonT(30) DEF ThreadRecords, StoreInv, CPTypeOK
  <2>2. thread' = [thread EXCEPT ![e][t] = to] /\ UNCHANGED <<sync, cpVars, netFaults>>
    BY <1>1, ZenonT(30) DEF LoadLive, GetLive
  <2> HIDE DEF to
  <2>3. t = "reconcile" => to.back \in {"unborn", "sleep", "asked"}
    BY <1>0, <2>1, Zenon
  <2> QED
    BY <2>1, <2>2, <2>3, MoveKeepsStream, ZenonT(30)
<1>2. ASSUME NEW t \in Threads, LoadRevision(e, t) PROVE StreamInv'
  <2> DEFINE to == [thread[e][t] EXCEPT !.pc = "reply", !.rev = revision]
  <2>1. to \in ThreadRecords /\ to.pc = "reply" /\ to.rev = revision /\ to.back = thread[e][t].back
    BY <1>0, ZenonT(30) DEF ThreadRecords
  <2>2. thread' = [thread EXCEPT ![e][t] = to] /\ UNCHANGED <<sync, cpVars, netFaults>>
    BY <1>2, ZenonT(30) DEF LoadRevision, GetRevision
  <2> HIDE DEF to
  <2>3. t = "reconcile" => to.back \in {"unborn", "sleep", "asked"}
    BY <1>0, <2>1, Zenon
  <2> QED
    BY <2>1, <2>2, <2>3, MoveKeepsStream, ZenonT(30)
<1>3. ASSUME NEW t \in Threads, Fail(e, t) PROVE StreamInv'
  <2> DEFINE label == IF thread[e][t].pc = "asked" THEN "sleep" ELSE thread[e][t].back
             to == At(label)
  <2>1. label \in {"unborn", "start", "connect", "opening", "reading", "sleep", "asked"}
        /\ (t = "reconcile" => label \in {"unborn", "sleep", "asked"})
    BY <1>0, Zenon DEF ThreadRecords
  <2>2. thread' = [thread EXCEPT ![e][t] = to] /\ UNCHANGED <<sync, cpVars>> /\ netFaults' = netFaults + 1
    BY <1>3, Zenon DEF Fail, RequestFails, Resumed
  <2> HIDE DEF label
  <2>3. to \in ThreadRecords /\ to.back = label /\ to.rev = 0
    BY <2>1, ThreadRecordFacts DEF At
  <2>4. netFaults' # 0 /\ to.rev <= sync[e].rev
    BY <1>0, <2>2, <2>3
  <2> HIDE DEF to
  <2> QED
    BY <2>1, <2>2, <2>3, <2>4, MoveKeepsStream, ZenonT(30)
<1>4. CASE Bootstrap(e)
  <2> DEFINE to == Fetching("start")
  <2>1. to \in ThreadRecords /\ to.pc = "get"
    BY ThreadRecordFacts, Zenon
  <2>2. thread' = [thread EXCEPT ![e]["stream"] = to] /\ UNCHANGED <<sync, cpVars, netFaults>>
    BY <1>4, Zenon DEF Bootstrap, InitialFetch
  <2> HIDE DEF to
  <2> QED
    BY <1>0, <2>1, <2>2, MoveKeepsStream, ZenonT(30)
<1>5. CASE Connect(e)
  <2> DEFINE to == [At("opening") EXCEPT !.rev = sync[e].rev]
  <2>1. to \in ThreadRecords /\ to.rev = sync[e].rev
    BY <1>0, ThreadRecordFacts
  <2>2. /\ thread' = [thread EXCEPT ![e]["stream"] = to] /\ UNCHANGED <<sync, cpVars, netFaults>>
        /\ thread[e]["stream"].pc = "connect"
    BY <1>5, Zenon DEF Connect, OpenStream
  <2> HIDE DEF to
  <2>3. to.rev <= sync[e].rev
    BY <1>0, <2>1
  <2> QED
    BY <1>0, <2>1, <2>2, <2>3, MoveKeepsStream, ZenonT(30)
<1>6. CASE Ask(e) \/ Answer(e)
  <2>1. PICK to \in {[At("asked") EXCEPT !.rev = sync[e].rev], At("sleep"), Fetching("sleep")} :
          thread' = [thread EXCEPT ![e]["reconcile"] = to] /\ UNCHANGED <<sync, cpVars, netFaults>>
    BY <1>6, Zenon DEF Ask, Answer, ReconcileAsk, ReconcileAnswer
  <2>2. to \in ThreadRecords
    BY <1>0, ThreadRecordFacts
  <2>3. to.back \in {"unborn", "sleep", "asked"}
    BY DEF At, Fetching
  <2> QED
    BY <1>0, <2>1, <2>2, <2>3, MoveKeepsStream, ZenonT(30)
<1> QED
  BY <1>1, <1>2, <1>3, <1>4, <1>5, <1>6, Zenon

\* Reading a frame: one that speaks of the current revision starts a fetch
\* unless the edge has it already, any other leaves the rest of the queue.
LEMMA ReadKeepsStream ==
  ASSUME StoreInv, DeliveryInv, StreamInv, NEW e \in Edges, Read(e)
  PROVE  StreamInv'
<1> DEFINE frame == Head(wire[e])
           w == Tail(wire[e])
           fetch == frame.event = "config_stale" \/ DecideFetch(sync[e].rev, frame.rev)
<1>0. /\ thread \in [Agents -> [Threads -> ThreadRecords]] /\ sync[e].rev \in Nat
      /\ "stream" \in Threads /\ "reconcile" \in Threads /\ breaks \in 0 .. MaxBreaks
      /\ conn \in [Edges -> {"none", "subscribed", "open", "closed"}]
      /\ rx \in [Edges -> Seq(Nat)] /\ lagged \in [Edges -> BOOLEAN] /\ Len(rx[e]) <= ChannelCap
      /\ wire \in [Edges -> Seq(Frames)] /\ wire[e] \in Seq(Frames) /\ revision \in Nat
      /\ NotMissed(e) /\ LastIdIsHeld(e)
  BY Zenon DEF DeliveryInv, AgentTypeOK, StreamInv, StreamTypeOK, Threads, Applied, StoreInv, CPTypeOK
<1>1. /\ wire[e] # <<>> /\ wire' = [wire EXCEPT ![e] = w] /\ thread[e]["stream"].pc = "reading"
      /\ UNCHANGED <<conn, rx, lagged, breaks, ring, revision, request, sync, netFaults>>
      /\ thread' = IF fetch THEN [thread EXCEPT ![e]["stream"] = Fetching("reading")] ELSE thread
  BY Zenon DEF Read, Deliver, ReadFrame, Move, configVars
<1>2. /\ frame \in Frames /\ frame = wire[e][1] /\ Len(wire[e]) \in Nat \ {0}
      /\ w \in Seq(Frames) /\ Len(w) = Len(wire[e]) - 1
      /\ \A i \in 1 .. Len(w) : w[i] = wire[e][i + 1]
  BY <1>0, <1>1, TakeFacts, Zenon
<1>3. wire'[e] = w
  BY <1>0, <1>1, Zenon
<1>4. RingInOrder' = RingInOrder /\ Published' = Published
  BY <1>1, Zenon DEF RingInOrder, Published
<1>5. (frame = Stale \/ frame.rev = revision) => fetch \/ sync[e].rev >= revision
  <2>1. Stale.event = "config_stale"
    BY Zenon DEF Stale
  <2>2. frame.rev = revision => DecideFetch(sync[e].rev, frame.rev) \/ sync[e].rev >= revision
    BY <1>0, SMTT(30) DEF DecideFetch
  <2> QED
    BY <2>1, <2>2, Zenon
<1> HIDE DEF frame, w, fetch
<1>6. /\ \A f \in Edges \ {e} : sync'[f] = sync[f] /\ thread'[f] = thread[f]
      /\ LastIdIsHeld(e)' /\ NotMissed(e)'
  <2>1. CASE fetch
    <3>1. thread' = [thread EXCEPT ![e]["stream"] = Fetching("reading")]
      BY <1>1, <2>1, Zenon
    <3>2. Fetching("reading").pc = "get"
      BY ThreadRecordFacts, Zenon
    <3>3. thread'[e]["stream"].pc = "get" /\ thread'[e]["reconcile"] = thread[e]["reconcile"]
      BY <1>0, <3>1, <3>2, Zenon
    <3>4. \A f \in Edges \ {e} : thread'[f] = thread[f]
      BY <1>0, <3>1, ZenonT(30)
    <3> QED
      BY <1>0, <1>1, <3>3, <3>4, Zenon DEF LastIdIsHeld, NotMissed, Coming
  <2>2. CASE ~ fetch
    <3>1. thread' = thread
      BY <1>1, <2>2, ZenonT(30)
    <3>2. Coming(e) => Coming(e)'
      <4>1. CASE \E i \in 1 .. Len(wire[e]) : wire[e][i] = Stale \/ wire[e][i].rev = revision
        <5>1. PICK i \in 1 .. Len(wire[e]) : wire[e][i] = Stale \/ wire[e][i].rev = revision
          BY <4>1, Zenon
        <5>2. CASE i = 1
          <6>1. sync[e].rev >= revision
            BY <1>2, <1>5, <2>2, <5>1, <5>2, ZenonT(30)
          <6> QED
            BY <1>1, <6>1, Zenon DEF Coming
        <5>3. CASE i # 1
          <6>1. i - 1 \in 1 .. Len(w) /\ (i - 1) + 1 = i
            BY <1>2, <5>3
          <6>2. w[i - 1] = wire[e][i]
            BY <1>2, <6>1, ZenonT(30)
          <6>3. \E j \in 1 .. Len(w) : w[j] = Stale \/ w[j].rev = revision
            BY <5>1, <6>1, <6>2, ZenonT(30)
          <6> QED
            BY <1>1, <1>3, <6>3, ZenonT(30) DEF Coming
        <5> QED
          BY <5>2, <5>3, Zenon
      <4> QED
        BY <1>1, <3>1, <4>1, Zenon DEF Coming
    <3> QED
      BY <1>0, <1>1, <1>4, <3>1, <3>2, Zenon DEF LastIdIsHeld, NotMissed
  <2> QED
    BY <2>1, <2>2, ZenonT(30)
<1>7. /\ conn[e] \in {"none", "subscribed", "open", "closed"} /\ rx[e] \in Seq(Nat)
      /\ lagged[e] \in BOOLEAN /\ conn' = [conn EXCEPT ![e] = conn[e]]
      /\ rx' = [rx EXCEPT ![e] = rx[e]] /\ lagged' = [lagged EXCEPT ![e] = lagged[e]]
  BY <1>0, <1>1, Zenon
<1> QED
  BY <1>0, <1>1, <1>2, <1>6, <1>7, OneStream, ZenonT(30)

\* Activation: a reply with the current revision brings the edge to it, and no
\* activation takes SyncState back.
LEMMA ActivateKeepsStream ==
  ASSUME StoreInv, DeliveryInv, StreamInv, NEW e \in Edges, NEW t \in Threads, Apply(e, t)
  PROVE  StreamInv'
<1>0. /\ thread[e] \in [Threads -> ThreadRecords] /\ sync[e].rev \in Nat /\ revision \in Nat
      /\ thread[e][t].rev \in Nat /\ thread[e][t].rev > 0 /\ thread[e][t].pc = "reply"
      /\ "stream" \in Threads /\ "reconcile" \in Threads /\ Threads = {"stream", "reconcile"}
      /\ NotMissed(e) /\ LastIdIsHeld(e) /\ thread[e][t] \in ThreadRecords
  BY DEF DeliveryInv, AgentTypeOK, StreamInv, Threads, Applied, ThreadRecords, StoreInv, CPTypeOK,
         Apply, Activate
<1>1. UNCHANGED <<cpVars, netFaults>> /\ thread' = [thread EXCEPT ![e] = Returned(e, t)]
  BY Zenon DEF Apply, Activate
<1>2. thread'[e] = Returned(e, t)
      /\ \A f \in Edges \ {e} : thread'[f] = thread[f] /\ sync'[f] = sync[f]
  BY <1>1, ActivateFacts, ZenonT(30) DEF DeliveryInv, AgentTypeOK
<1>3. sync'[e].rev \in Nat /\ sync'[e].rev >= sync[e].rev /\ sync'[e].rev >= thread[e][t].rev
  <2> DEFINE r == thread[e][t].rev
             got == [rev |-> r, cfg |-> thread[e][t].cfg]
             c == thread[e][t].cfg
  <2>1. sync'[e] = IF ~ UpToDate(sync[e], r, c) THEN got ELSE sync[e]
    BY Zenon DEF Apply, Activate, DeliveryInv, AgentTypeOK
  <2>2. got.rev = r /\ r \in Nat /\ r > 0 /\ Nothing.rev = 0
    BY <1>0, ZenonT(30) DEF Nothing
  <2> HIDE DEF r, got, c
  <2>3. CASE UpToDate(sync[e], r, c)
    <3>1. r <= sync[e].rev
      BY <1>0, <2>2, <2>3 DEF UpToDate
    <3> QED
      BY <1>0, <2>1, <2>2, <2>3, <3>1 DEF r
  <2>4. CASE ~ UpToDate(sync[e], r, c)
    <3>1. sync[e].rev <= r
      BY <1>0, <2>2, <2>4 DEF UpToDate
    <3> QED
      BY <1>0, <2>1, <2>2, <2>4, <3>1, Z3T(30) DEF r
  <2> QED
    BY <2>3, <2>4, Zenon
<1>4. LastIdIsHeld(e)' /\ (t = "reconcile" => thread'[e]["stream"] = thread[e]["stream"])
  <2>1. CASE thread[e][t].back = "start"
    <3>1. t = "stream"
      BY <1>0, <2>1 DEF LastIdIsHeld
    <3>2. Returned(e, t) = [thread[e] EXCEPT !["stream"] = At("connect"), !["reconcile"] = At("sleep")]
      BY <2>1, ZenonT(30) DEF Returned
    <3>3. thread'[e]["stream"] = At("connect") /\ thread'[e]["reconcile"] = At("sleep")
      BY <1>0, <1>2, <3>2
    <3>4. At("connect").pc = "connect" /\ At("sleep").back = "sleep"
      BY DEF At
    <3> QED
      BY <3>1, <3>3, <3>4 DEF LastIdIsHeld
  <2>2. CASE thread[e][t].back # "start"
    <3> DEFINE to == At(thread[e][t].back)
    <3>1. /\ thread[e][t].back \in {"unborn", "start", "connect", "opening", "reading", "sleep", "asked"}
          /\ t = "reconcile" => thread[e][t].back \in {"unborn", "sleep", "asked"}
      BY <1>0 DEF ThreadRecords, LastIdIsHeld
    <3>2. to.rev = 0 /\ to.back = thread[e][t].back
      BY ZenonT(30) DEF At
    <3>3. \A u \in Threads : thread'[e][u] = IF u = t THEN to ELSE thread[e][u]
      BY <1>0, <1>2, <2>2, ZenonT(30) DEF Returned
    <3> HIDE DEF to
    <3>4. CASE t = "stream"
      BY <1>0, <1>3, <3>2, <3>3, <3>4 DEF LastIdIsHeld
    <3>5. CASE t = "reconcile"
      BY <1>0, <1>3, <3>1, <3>2, <3>3, <3>5 DEF LastIdIsHeld, ThreadRecords
    <3> QED
      BY <1>0, <3>4, <3>5, ZenonT(30)
  <2> QED
    BY <2>1, <2>2
<1>5. RingInOrder' = RingInOrder /\ Published' = Published
  BY <1>1, ZenonT(30) DEF RingInOrder, Published, cpVars
<1>6. NotMissed(e)'
  <2>1. CASE sync'[e].rev >= revision
    BY <1>1, <2>1 DEF NotMissed, Coming, cpVars
  <2>2. CASE ~ (sync'[e].rev >= revision)
    <3>1. ~ (sync[e].rev >= revision) /\ thread[e][t].rev # revision
      BY <1>0, <1>3, <2>2
    <3>2. CASE t = "reconcile"
      BY <1>0, <1>1, <1>4, <1>5, <3>1, <3>2, ZenonT(30) DEF NotMissed, Coming, cpVars
    <3>3. CASE t = "stream"
      BY <1>0, <1>1, <1>5, <3>1, <3>3 DEF NotMissed, Coming, cpVars
    <3> QED
      BY <1>0, <3>2, <3>3
  <2> QED
    BY <2>1, <2>2, ZenonT(30)
<1>7. ASSUME NEW f \in Edges \ {e} PROVE LastIdIsHeld(f)' /\ NotMissed(f)'
  <2>1. LastIdIsHeld(f)'
    BY <1>2, ZenonT(30) DEF StreamInv, LastIdIsHeld
  <2>2. NotMissed(f)'
    BY <1>1, <1>2, <1>5, Untouched DEF StreamInv, cpVars
  <2> QED
    BY <2>1, <2>2, ZenonT(30)
<1>8. StreamTypeOK' /\ Len(ring') > 0 /\ \A f \in Edges : Len(rx'[f]) <= ChannelCap
  BY <1>1, SMTT(30) DEF StreamInv, StreamTypeOK, cpVars
<1> QED
  BY <1>4, <1>6, <1>7, <1>8, ZenonT(30) DEF StreamInv

\* A crash of the control plane closes every stream.
LEMMA CrashKeepsStream ==
  ASSUME StoreInv, DeliveryInv, StreamInv, Crash
  PROVE  StreamInv'
<1>1. PICK h \in Seq(Configs) : Boot(h)
  <2>1. Newest(rows, HistoryLimit) \in Seq(Configs)
    BY NewestFacts DEF StoreInv, CPTypeOK
  <2>2. <<Seed>> \in Seq(Configs)
    OBVIOUS
  <2> QED
    BY <2>1, <2>2, ZenonT(30) DEF Crash, RestartFromRows, RestartFromSeed
<1>2. ring' \in Seq(Nat) /\ Len(ring') > 0
  <2>1. SeedRevision(h) \in Nat /\ ring' = <<SeedRevision(h)>>
    BY <1>1 DEF SeedRevision, Boot
  <2> QED
    BY <2>1
<1>3. /\ rx' = [e \in Edges |-> <<>>] /\ lagged' = [e \in Edges |-> FALSE]
      /\ conn' = [e \in Edges |-> IF conn[e] = "none" THEN "none" ELSE "closed"]
      /\ UNCHANGED <<wire, breaks>>
  BY <1>1 DEF Boot
<1>4. /\ StreamTypeOK'
      /\ \A e \in Edges : Len(rx'[e]) <= ChannelCap /\ conn'[e] # "open"
  BY <1>2, <1>3 DEF StreamInv, StreamTypeOK
<1>5. ASSUME NEW e \in Edges PROVE LastIdIsHeld(e)'
  <2>1. /\ "stream" \in Threads /\ "reconcile" \in Threads /\ sync' = sync
        /\ thread[e]["stream"] \in ThreadRecords /\ sync[e].rev \in Nat /\ LastIdIsHeld(e)
    BY DEF Threads, Crash, DeliveryInv, AgentTypeOK, Applied, StreamInv
  <2>2. \A t \in Threads : thread'[e][t] = thread[e][t] \/ thread'[e][t] = Resumed(e, t)
    BY SameEdges, SMTT(30) DEF Crash, Interrupted
  <2>3. ASSUME NEW t \in Threads
        PROVE  Resumed(e, t).rev = 0 /\ Resumed(e, t).back \in {"sleep", thread[e][t].back}
    BY DEF Resumed, At
  <2>4. thread'[e]["stream"].pc = "opening" => thread'[e]["stream"].rev <= sync[e].rev
    BY <2>1, <2>2, <2>3 DEF LastIdIsHeld
  <2>5. thread'[e]["reconcile"].back \in {"unborn", "sleep", "asked"}
    BY <2>1, <2>2, <2>3 DEF LastIdIsHeld
  <2> QED
    BY <2>1, <2>4, <2>5 DEF LastIdIsHeld
<1> QED
  BY <1>2, <1>4, <1>5 DEF StreamInv, NotMissed

\* StreamInv is inductive relative to StoreInv and DeliveryInv.
LEMMA StreamInductive ==
  /\ Init => StreamInv
  /\ StoreInv /\ DeliveryInv /\ StreamInv /\ [Next]_vars => StreamInv'
<1>1. ASSUME Init PROVE StreamInv
  <2>1. StreamTypeOK /\ Len(ring) > 0 /\ \A e \in Edges : Len(rx[e]) <= ChannelCap /\ conn[e] # "open"
    BY <1>1 DEF Init, CPInit, StreamTypeOK
  <2>2. Fresh["stream"].pc = "start" /\ Fresh["reconcile"].back = "unborn"
    BY DEF Fresh, At, Threads
  <2>3. \A e \in Edges : LastIdIsHeld(e)
    BY <1>1, <2>2 DEF Init, AgentInit, LastIdIsHeld
  <2> QED
    BY <2>1, <2>3 DEF StreamInv, NotMissed
<1>2. ASSUME StoreInv, DeliveryInv, StreamInv, [Next]_vars PROVE StreamInv'
  <2>1. ASSUME NEW q \in Requests, AdminNext(q) \/ HandlerNext(q) \/ RejectedNext(q)
        PROVE  StreamInv'
    BY <1>2, <2>1, HandlersKeepStream, SendKeepsStream, ZenonT(30) DEF AdminNext, HandlerNext, RejectedNext
  <2>2. ASSUME NEW e \in Edges, StreamNext(e) \/ ReconcileNext(e) PROVE StreamInv'
    BY <1>2, <2>2, ThreadsKeepStream, ConnectionKeepsStream, OpenKeepsStream, ReadKeepsStream,
       HangupKeepsStream DEF StreamNext, ReconcileNext, Accept
  <2>3. ASSUME NEW e \in Edges, NEW t \in Threads, FetchNext(e, t) \/ Fail(e, t) PROVE StreamInv'
    BY <1>2, <2>3, ThreadsKeepStream, ActivateKeepsStream DEF FetchNext
  <2>4. ASSUME NEW e \in Edges, Forward(e) \/ Break(e) \/ RestartAgent(e) PROVE StreamInv'
    BY <1>2, <2>4, ConnectionKeepsStream, HangupKeepsStream DEF Forward, Break
  <2>5. CASE UNCHANGED vars
    BY <1>2, <2>5, ZenonT(30) DEF StreamInv, StreamTypeOK, LastIdIsHeld, NotMissed, Coming, RingInOrder, Published,
                      vars, cpVars, agentVars
  <2> QED
    BY <1>2, <2>1, <2>2, <2>3, <2>4, <2>5, CrashKeepsStream DEF Next
<1> QED
  BY <1>1, <1>2

\* Type correctness of the whole: store, handlers, streams and agents.
THEOREM TypesHold == Spec => []TypeOK
<1>1. StoreInv /\ DeliveryInv /\ StreamInv => TypeOK
  BY DEF StoreInv, DeliveryInv, StreamInv, TypeOK
<1> QED
  BY <1>1, StoreInductive, DeliveryInductive, StreamInductive, PTL DEF Spec

\* config_stream subscribes before it replays, select_missed_events answers
\* with the newest event or "stale", and an overrun receiver is told: an edge
\* with an open stream that is behind has something on its way, whatever
\* publications, replays, reads and fetches interleave.
THEOREM NothingMissed == Spec => []NoMissedRevision
<1>1. ASSUME StoreInv, DeliveryInv, StreamInv PROVE NoMissedRevision
  <2> SUFFICES ASSUME NEW e \in Edges, conn[e] = "open", netFaults = 0, RingInOrder, ~ BeingPublished
               PROVE  sync[e].rev >= revision \/ OnItsWay(e)
    BY DEF NoMissedRevision
  <2>1. Coming(e)
    BY <1>1 DEF StreamInv, NotMissed, Published, BeingPublished
  <2>2. sync[e].rev \in Nat /\ revision \in Nat
    BY <1>1 DEF DeliveryInv, AgentTypeOK, Applied, StoreInv, CPTypeOK
  <2> QED
    BY <2>1, <2>2 DEF Coming, OnItsWay
<1> QED
  BY <1>1, StoreInductive, DeliveryInductive, StreamInductive, PTL DEF Spec
=============================================================================
