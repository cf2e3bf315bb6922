---------------------------- MODULE ConfigProofs ----------------------------
(***************************************************************************)
(* Proofs about the control plane and the agents, for any number of edges, *)
(* admin requests, snapshots and failures, any history limit, ring and     *)
(* channel: the store, its side of the change streams, and that no edge    *)
(* runs ahead of the control plane.                                        *)
(***************************************************************************)
EXTENDS ConfigSync, ListProofs

USE SeedAssumption, BoundsAssumption, NoRequestAssumption, NoSnapshotAssumption,
    AgentBoundsAssumption, SameEdges, SameSnapshots

-----------------------------------------------------------------------------
(* The sequence operators of the store and of the ring *)

\* Newest returns a suffix: a sequence over the same set, no longer than n, not
\* empty if s is not, whose elements are elements of s.
LEMMA NewestFacts ==
  ASSUME NEW S, NEW s \in Seq(S), NEW n \in Nat, n > 0
  PROVE  /\ Newest(s, n) \in Seq(S)
         /\ Len(Newest(s, n)) <= n
         /\ Len(s) > 0 => Len(Newest(s, n)) > 0
         /\ \A i \in 1 .. Len(Newest(s, n)) : \E j \in 1 .. Len(s) : Newest(s, n)[i] = s[j]
<1>1. CASE Len(s) <= n
  BY <1>1, Zenon DEF Newest
<1>2. CASE ~ (Len(s) <= n)
  <2> DEFINE t == SubSeq(s, Len(s) - n + 1, Len(s))
  <2>1. Newest(s, n) = t
    BY <1>2, Zenon DEF Newest
  <2>2. Len(s) \in Nat
    OBVIOUS
  <2>3. t \in Seq(S) /\ Len(t) = n
    BY <1>2, <2>2
  <2>4. \A i \in 1 .. n : t[i] = s[Len(s) - n + i]
    BY <1>2, <2>2
  <2>5. \A i \in 1 .. n : Len(s) - n + i \in 1 .. Len(s)
    BY <1>2, <2>2
  <2> HIDE DEF t
  <2>6. n \in Nat /\ n <= n /\ (Len(s) > 0 => n > 0)
    BY <1>2, <2>2
  <2> QED
    BY <2>1, <2>3, <2>4, <2>5, <2>6, Zenon
<1> QED
  BY <1>1, <1>2, Zenon

\* ConfigStore::push keeps the history within the limit and not empty, and adds
\* only the pushed snapshot.
LEMMA PushFacts ==
  ASSUME NEW h \in Seq(Configs), Len(h) <= HistoryLimit, NEW c \in Configs
  PROVE  /\ Push(h, c) \in Seq(Configs)
         /\ Len(Push(h, c)) > 0
         /\ Len(Push(h, c)) <= HistoryLimit
         /\ \A i \in 1 .. Len(Push(h, c)) :
              Push(h, c)[i] = c \/ \E j \in 1 .. Len(h) : Push(h, c)[i] = h[j]
<1> DEFINE a == Append(h, c)
<1>1. a \in Seq(Configs) /\ Len(a) = Len(h) + 1
  OBVIOUS
<1>2. \A i \in 1 .. Len(a) : a[i] = c \/ \E j \in 1 .. Len(h) : a[i] = h[j]
  OBVIOUS
<1>3. CASE Len(h) + 1 > HistoryLimit
  <2>1. Push(h, c) = Tail(a)
    BY <1>3, Zenon DEF Push
  <2>2. Tail(a) \in Seq(Configs) /\ Len(Tail(a)) = Len(h)
    BY <1>1
  <2>3. \A i \in 1 .. Len(Tail(a)) : Tail(a)[i] = a[i + 1] /\ i + 1 \in 1 .. Len(a)
    BY <1>1
  <2>4. Len(h) > 0
    BY <1>3
  <2> HIDE DEF a
  <2> QED
    BY <2>1, <2>2, <2>3, <2>4, <1>2, Zenon
<1>4. CASE ~ (Len(h) + 1 > HistoryLimit)
  <2>1. Push(h, c) = a
    BY <1>4, Zenon DEF Push
  <2>2. Len(a) > 0 /\ Len(a) <= HistoryLimit
    BY <1>1, <1>4
  <2> HIDE DEF a
  <2> QED
    BY <2>1, <2>2, <1>1, <1>2, Zenon
<1> QED
  BY <1>3, <1>4, Zenon

\* ConfigStore::pop never empties the history and adds nothing to it.
LEMMA PopFacts ==
  ASSUME NEW h \in Seq(Configs), Len(h) > 0
  PROVE  /\ Pop(h) \in Seq(Configs)
         /\ Len(Pop(h)) > 0
         /\ Len(Pop(h)) <= Len(h)
         /\ \A i \in 1 .. Len(Pop(h)) : Pop(h)[i] = h[i] /\ i \in 1 .. Len(h)
<1>1. CASE Len(h) > 1
  <2> DEFINE p == SubSeq(h, 1, Len(h) - 1)
  <2>1. Pop(h) = p
    BY <1>1, Zenon DEF Pop
  <2>2. p \in Seq(Configs) /\ Len(p) = Len(h) - 1
    BY <1>1
  <2>3. \A i \in 1 .. Len(p) : p[i] = h[i] /\ i \in 1 .. Len(h)
    BY <1>1, <2>2
  <2> HIDE DEF p
  <2> QED
    BY <1>1, <2>1, <2>2, <2>3
<1>2. CASE ~ (Len(h) > 1)
  BY <1>2 DEF Pop
<1> QED
  BY <1>1, <1>2, Zenon

\* The last element of a sequence that is not empty.
LEMMA LastFacts ==
  ASSUME NEW S, NEW s \in Seq(S), Len(s) > 0
  PROVE  LastOf(s) \in S /\ Len(s) \in Nat \ {0} /\ \E i \in 1 .. Len(s) : LastOf(s) = s[i]
BY DEF LastOf

-----------------------------------------------------------------------------
(* The control plane's store *)

\* The inductive invariant of the store: types, a usable history, and a table
\* that a restart can rebuild it from.
StoreInv == CPTypeOK /\ HistoryUsable /\ Len(rows) > 0

\* Appending a row keeps the table a table.
LEMMA RowsGrow ==
  ASSUME rows \in Seq(Configs), Len(rows) > 0, NEW c \in Configs,
         rows' = Append(rows, c) \/ rows' \in {rows, Append(rows, c)}
  PROVE  rows' \in Seq(Configs) /\ Len(rows') > 0
OBVIOUS

\* The updates handlers make to their program counters and locals.
LEMMA RequestFacts ==
  ASSUME request \in [Requests -> RequestRecords], NEW q \in Requests
  PROVE  /\ request[q].cfg \in Configs
         /\ [request EXCEPT ![q] = Idle] \in [Requests -> RequestRecords]
         /\ \A label \in {"bump", "send", "record"} :
              [request EXCEPT ![q].pc = label] \in [Requests -> RequestRecords]
         /\ \A label \in {"activate", "store"} : \A k \in {"post", "rollback"} : \A c \in Configs :
              [request EXCEPT ![q] = [pc |-> label, kind |-> k, cfg |-> c, rev |-> 0]]
                \in [Requests -> RequestRecords]
BY Zenon DEF RequestRecords, Idle

\* publish_revision writes its revision into a local.
LEMMA BumpFacts ==
  ASSUME request \in [Requests -> RequestRecords], revision \in Nat, NEW q \in Requests,
         PublishBump(q)
  PROVE  request' \in [Requests -> RequestRecords]
<1> DEFINE rec == [pc |-> "ring", kind |-> request[q].kind, cfg |-> request[q].cfg, rev |-> revision + 1]
<1>1. rec \in RequestRecords
  BY DEF RequestRecords
<1>2. request' = [request EXCEPT ![q] = rec]
  BY Zenon DEF PublishBump
<1> HIDE DEF rec
<1> QED
  BY <1>1, <1>2, Zenon

\* The end of publish_revision.
LEMMA SendFacts ==
  ASSUME request \in [Requests -> RequestRecords], NEW q \in Requests, PublishSend(q)
  PROVE  request' \in [Requests -> RequestRecords]
<1>1. CASE request[q].kind = "post"
  <2>1. request' = [request EXCEPT ![q] = Idle]
    BY <1>1, Zenon DEF PublishSend
  <2> QED
    BY <2>1, RequestFacts, ZenonT(30)
<1>2. CASE request[q].kind # "post"
  <2>1. request' = [request EXCEPT ![q].pc = "record"]
    BY <1>2, ZenonT(30) DEF PublishSend, Goto
  <2> QED
    BY <2>1, RequestFacts, ZenonT(30)
<1> QED
  BY <1>1, <1>2, Zenon

\* Every step of a posting or rolling back handler keeps StoreInv.
LEMMA AdminKeepsStore ==
  ASSUME StoreInv, NEW q \in Requests,
         Admin(q) \/ Handler(q) \/ Rejected(q)
  PROVE  StoreInv'
<1> USE DEF StoreInv, CPTypeOK, HistoryUsable, Arrives, RecordFails, Goto
<1>1. ASSUME NEW c \in Configs, PostRecord(q, c) PROVE StoreInv'
  <2>1. rows' \in Seq(Configs) /\ Len(rows') > 0
    BY <1>1, RowsGrow, Zenon DEF PostRecord
  <2>2. request' \in [Requests -> RequestRecords]
    BY <1>1, RequestFacts, ZenonT(30) DEF PostRecord
  <2>3. mutations' \in 0 .. MaxMutations
    BY <1>1 DEF PostRecord
  <2> QED
    BY <1>1, <2>1, <2>2, <2>3, Zenon DEF PostRecord
<1>2. ASSUME NEW c \in Configs, PostRejected(q, c) PROVE StoreInv'
  <2>1. rows' \in Seq(Configs) /\ Len(rows') > 0
    BY <1>2, RowsGrow, Zenon DEF PostRejected
  <2>2. dbFaults' \in 0 .. MaxDbFaults
    BY <1>2 DEF PostRejected
  <2>3. request' \in [Requests -> RequestRecords]
    BY <1>2, Zenon DEF PostRejected
  <2>4. mutations' \in 0 .. MaxMutations
    BY <1>2 DEF PostRejected
  <2> QED
    BY <1>2, <2>1, <2>2, <2>3, <2>4, Zenon DEF PostRejected
<1>3. CASE PostActivate(q)
  <2>1. request[q].cfg \in Configs
    BY RequestFacts, ZenonT(30)
  <2>2. history' \in Seq(Configs) /\ Len(history') > 0 /\ Len(history') <= HistoryLimit
    BY <1>3, <2>1, PushFacts, ZenonT(30) DEF PostActivate
  <2> QED
    BY <1>3, <2>1, <2>2, RequestFacts, ZenonT(30) DEF PostActivate
<1>4. CASE RollbackPop(q)
  <2>1. history' \in Seq(Configs) /\ Len(history') > 0 /\ Len(history') <= HistoryLimit
    BY <1>4, PopFacts DEF RollbackPop
  <2>2. LastOf(Pop(history)) \in Configs
    BY PopFacts, LastFacts, Zenon
  <2>3. request' \in [Requests -> RequestRecords]
    BY <1>4, <2>2, RequestFacts, ZenonT(30) DEF RollbackPop
  <2> QED
    BY <1>4, <2>1, <2>3 DEF RollbackPop
<1>5. CASE RollbackStore(q)
  BY <1>5, RequestFacts, ZenonT(30) DEF RollbackStore
<1>6. CASE RollbackRecord(q)
  <2>1. rows' \in Seq(Configs) /\ Len(rows') > 0
    BY <1>6, RowsGrow, RequestFacts, ZenonT(30) DEF RollbackRecord
  <2> QED
    BY <1>6, <2>1, RequestFacts, ZenonT(30) DEF RollbackRecord
<1>7. CASE RollbackRejected(q)
  <2>1. rows' \in Seq(Configs) /\ Len(rows') > 0
    BY <1>7, RowsGrow, RequestFacts, ZenonT(30) DEF RollbackRejected
  <2>2. dbFaults' \in 0 .. MaxDbFaults
    BY <1>7 DEF RollbackRejected
  <2>3. request' \in [Requests -> RequestRecords]
    BY <1>7, RequestFacts, ZenonT(30) DEF RollbackRejected
  <2>4. mutations' \in 0 .. MaxMutations
    BY <1>7, Zenon DEF RollbackRejected
  <2> QED
    BY <1>7, <2>1, <2>2, <2>3, <2>4, Zenon DEF RollbackRejected
<1>8. CASE PublishBump(q)
  <2>1. request' \in [Requests -> RequestRecords]
    BY <1>8, BumpFacts, Zenon
  <2>2. revision' \in Nat /\ revision' > 0
    BY <1>8, Z3T(30) DEF PublishBump
  <2> QED
    BY <1>8, <2>1, <2>2, Zenon DEF PublishBump
<1>9. CASE PublishRing(q)
  BY <1>9, RequestFacts, ZenonT(30) DEF PublishRing
<1>10. CASE PublishSend(q)
  <2>1. request' \in [Requests -> RequestRecords]
    BY <1>10, SendFacts, Zenon
  <2>2. storeLock' \in Requests \cup {NoRequest}
    BY <1>10, Zenon DEF PublishSend
  <2> QED
    BY <1>10, <2>1, <2>2, Zenon DEF PublishSend
<1> QED
  BY <1>1, <1>2, <1>3, <1>4, <1>5, <1>6, <1>7, <1>8, <1>9, <1>10, Zenon DEF Admin, Handler, Rejected

\* A restart rebuilds a store that satisfies StoreInv.
LEMMA CrashKeepsStore ==
  ASSUME StoreInv, Crash
  PROVE  StoreInv'
<1> USE DEF StoreInv, CPTypeOK, HistoryUsable
<1>1. ASSUME NEW h \in Seq(Configs), Len(h) > 0, Len(h) <= HistoryLimit, Boot(h),
             rows' \in Seq(Configs), Len(rows') > 0, dbFaults' \in 0 .. MaxDbFaults
      PROVE  StoreInv'
  <2>1. live' \in Configs /\ revision' \in Nat /\ revision' > 0
    BY <1>1, LastFacts DEF Boot, SeedRevision
  <2>2. request' \in [Requests -> RequestRecords]
    BY <1>1, Zenon DEF Boot, RequestRecords, Idle
  <2> QED
    BY <1>1, <2>1, <2>2 DEF Boot
<1>2. CASE RestartFromRows
  <2>1. /\ Newest(rows, HistoryLimit) \in Seq(Configs)
        /\ Len(Newest(rows, HistoryLimit)) > 0
        /\ Len(Newest(rows, HistoryLimit)) <= HistoryLimit
    BY NewestFacts, Zenon
  <2> QED
    BY <1>1, <1>2, <2>1, Zenon DEF RestartFromRows
<1>3. CASE RestartFromSeed
  <2> DEFINE h == <<Seed>>
  <2>1. h \in Seq(Configs) /\ Len(h) > 0 /\ Len(h) <= HistoryLimit
    OBVIOUS
  <2>2. rows' \in Seq(Configs) /\ Len(rows') > 0
    BY <1>3, RowsGrow, Zenon DEF RestartFromSeed
  <2>3. dbFaults' \in 0 .. MaxDbFaults
    BY <1>3 DEF RestartFromSeed
  <2>4. Boot(h)
    BY <1>3, Zenon DEF RestartFromSeed
  <2> HIDE DEF h
  <2> QED
    BY <1>1, <2>1, <2>2, <2>3, <2>4, Zenon
<1> QED
  BY <1>2, <1>3, Zenon DEF Crash

\* No other step touches the store.
LEMMA OthersKeepStore ==
  ASSUME [Next]_vars
  PROVE  \/ UNCHANGED configVars
         \/ \E q \in Requests : Admin(q) \/ Handler(q) \/ Rejected(q)
         \/ Crash
<1> USE DEF vars, cpVars, configVars
<1>1. ASSUME NEW q \in Requests, AdminNext(q) \/ HandlerNext(q) \/ RejectedNext(q)
      PROVE  Admin(q) \/ Handler(q) \/ Rejected(q)
  BY <1>1, Zenon DEF AdminNext, HandlerNext, RejectedNext
<1>2. ASSUME NEW e \in Edges, StreamNext(e) \/ ReconcileNext(e) PROVE UNCHANGED configVars
  BY <1>2, ZenonT(30) DEF StreamNext, ReconcileNext, Bootstrap, Connect, Accept, Open, Read, Lose, Ask,
              Answer, Subscribe, Replay, Deliver, Hangup
<1>3. ASSUME NEW e \in Edges, Forward(e) \/ Break(e) \/ RestartAgent(e)
      PROVE  UNCHANGED configVars
  BY <1>3, Zenon DEF Forward, Break, RestartAgent, Pump, StreamBreaks, Hangup
<1>4. ASSUME NEW e \in Edges, NEW t \in Threads, FetchNext(e, t) \/ Fail(e, t)
      PROVE  UNCHANGED configVars
  BY <1>4, Zenon DEF FetchNext, Fail, LoadLive, LoadRevision, Apply
<1>5. CASE UNCHANGED vars
  BY <1>5, Zenon
<1> QED
  BY <1>1, <1>2, <1>3, <1>4, <1>5, Zenon DEF Next

\* StoreInv is inductive.
LEMMA StoreInductive ==
  /\ Init => StoreInv
  /\ StoreInv /\ [Next]_vars => StoreInv'
<1>1. Init => StoreInv
  BY DEF Init, CPInit, StoreInv, CPTypeOK, HistoryUsable, RequestRecords, Idle
<1>2. StoreInv /\ UNCHANGED configVars => StoreInv'
  BY Zenon DEF StoreInv, CPTypeOK, HistoryUsable, configVars
<1> QED
  BY <1>1, <1>2, AdminKeepsStore, CrashKeepsStore, OthersKeepStore, Zenon

\* ConfigStore::current always finds a snapshot and the history stays within
\* CONFIG_HISTORY_LIMIT (ConfigStore, rebuild_initial_state).
THEOREM HistoryIsUsable == Spec => []HistoryUsable
<1>1. StoreInv => HistoryUsable
  BY Zenon DEF StoreInv
<1> QED
  BY <1>1, StoreInductive, PTL DEF Spec

-----------------------------------------------------------------------------
(* What an open stream promises *)

\* No handler still has the current revision to put into the ring or to send.
Published == \A q \in Requests : request[q].pc \in {"ring", "send"} => request[q].rev # revision

\* Edge e has the current revision, or what brings it there is under way.
Coming(e) ==
  \/ sync[e].rev >= revision
  \/ lagged[e]
  \/ \E i \in 1 .. Len(rx[e]) : rx[e][i] = revision
  \/ \E i \in 1 .. Len(wire[e]) : wire[e][i] = Stale \/ wire[e][i].rev = revision
  \/ thread[e]["stream"].pc \in {"get", "got"}
  \/ thread[e]["stream"].pc = "reply" /\ thread[e]["stream"].rev = revision

NotMissed(e) == conn[e] = "open" /\ netFaults = 0 /\ RingInOrder /\ Published => Coming(e)

\* A Last-Event-ID is never ahead of SyncState; only the stream thread can be
\* in the initial fetch.
LastIdIsHeld(e) ==
  /\ thread[e]["stream"].pc = "opening" => thread[e]["stream"].rev <= sync[e].rev
  /\ thread[e]["reconcile"].back \in {"unborn", "sleep", "asked"}

StreamInv ==
  /\ StreamTypeOK
  /\ Len(ring) > 0
  /\ \A e \in Edges : Len(rx[e]) <= ChannelCap /\ LastIdIsHeld(e) /\ NotMissed(e)

-----------------------------------------------------------------------------
(* The ring, the channel and the replay *)

\* q is queue s after x entered it, a queue of at most n elements: x is last,
\* and nothing was dropped if there was room.
Entered(q, s, x, n) ==
  /\ q \in Seq(Nat) /\ Len(q) > 0 /\ Len(q) <= n /\ q[Len(q)] = x
  /\ Len(s) < n => \A i \in 1 .. Len(s) : i \in 1 .. Len(q) /\ q[i] = s[i]

\* That is what the ring and the channel do on publication.
LEMMA QueueFacts ==
  ASSUME NEW s \in Seq(Nat), NEW x \in Nat, NEW n \in Nat \ {0}
  PROVE  Entered(Newest(Append(s, x), n), s, x, n)
<1> DEFINE a == Append(s, x)
           q == Newest(a, n)
<1> SUFFICES Entered(q, s, x, n)
  BY Zenon
<1> USE DEF Entered
<1>1. /\ a \in Seq(Nat) /\ Len(a) = Len(s) + 1 /\ Len(s) \in Nat /\ a[Len(s) + 1] = x
      /\ \A i \in 1 .. Len(s) : a[i] = s[i]
  OBVIOUS
<1>2. q = Newest(a, n)
  BY Zenon
<1> HIDE DEF a, q
<1>3. q \in Seq(Nat) /\ Len(q) > 0 /\ Len(q) <= n
  BY <1>1, <1>2, NewestFacts
<1>4. CASE Len(a) <= n
  <2>1. q = a
    BY <1>2, <1>4, Zenon DEF Newest
  <2> QED
    BY <1>1, <1>3, <2>1
<1>5. CASE ~ (Len(a) <= n)
  <2>1. q = SubSeq(a, Len(a) - n + 1, Len(a))
    BY <1>2, <1>5, Zenon DEF Newest
  <2>2. Len(q) = n /\ q[n] = a[Len(a)]
    BY <1>1, <1>5, <2>1
  <2> QED
    BY <1>1, <1>3, <1>5, <2>2
<1> QED
  BY <1>4, <1>5, Zenon

\* select_missed_events: a client that is behind the newest event of the ring
\* is sent that event, or told that it is stale.
LEMMA MissedFacts ==
  ASSUME NEW s \in Seq(Nat), Len(s) > 0, NEW lastId \in Nat,
         NEW sel, sel = SelectMissed(s, lastId)
  PROVE  /\ sel.missed \in Seq(Nat) /\ sel.stale \in BOOLEAN
         /\ \/ lastId >= LastOf(s)
            \/ sel.stale
            \/ \E i \in 1 .. Len(sel.missed) : sel.missed[i] = LastOf(s)
<1>1. s # <<>> /\ Len(s) \in Nat /\ LastOf(s) \in Nat /\ LastOf(s) = s[Len(s)]
  BY DEF LastOf
<1>2. CASE lastId >= LastOf(s)
  <2>1. sel = [missed |-> <<>>, stale |-> FALSE]
    BY <1>1, <1>2, Zenon DEF SelectMissed
  <2> QED
    BY <1>2, <2>1
<1>3. CASE ~ (lastId >= LastOf(s)) /\ (lastId > 0 /\ lastId + 1 < Head(s))
  <2>1. sel = [missed |-> <<>>, stale |-> TRUE]
    BY <1>1, <1>3, Zenon DEF SelectMissed
  <2> QED
    BY <2>1
<1>4. CASE ~ (lastId >= LastOf(s)) /\ ~ (lastId > 0 /\ lastId + 1 < Head(s))
  <2> DEFINE wanted == {x \in ListOf(s) : x > lastId}
             newer == NewerThan(s, lastId)
             n == IF Len(newer) > RingCap THEN RingCap ELSE Len(newer)
  <2>1. sel = [missed |-> SubSeq(newer, 1, n), stale |-> Len(newer) > RingCap]
    BY <1>1, <1>4, Zenon DEF SelectMissed
  <2>2. s[Len(s)] \in wanted
    BY <1>1, <1>4 DEF ListOf
  <2>3. newer = Only(s, wanted)
    BY Zenon DEF NewerThan
  <2> HIDE DEF wanted, newer
  <2>4. newer \in Seq(Nat \cap wanted) /\ Len(newer) > 0 /\ newer[Len(newer)] = s[Len(s)]
    BY <1>1, <2>2, <2>3, OnlyFacts, ZenonT(30)
  <2>5. newer \in Seq(Nat) /\ Len(newer) \in Nat
    BY <2>4
  <2>6. n \in Nat /\ n <= Len(newer) /\ (~ (Len(newer) > RingCap) => n = Len(newer))
    BY <2>5
  <2> HIDE DEF n
  <2>7. SubSeq(newer, 1, n) \in Seq(Nat) /\ Len(SubSeq(newer, 1, n)) = n
        /\ \A i \in 1 .. n : SubSeq(newer, 1, n)[i] = newer[i]
    BY <2>5, <2>6
  <2> DEFINE missed == SubSeq(newer, 1, n)
             stale == Len(newer) > RingCap
  <2>8. stale \in BOOLEAN /\ (~ stale => n = Len(newer))
    BY <2>6
  <2>9. ~ stale => \E i \in 1 .. Len(missed) : missed[i] = LastOf(s)
    BY <1>1, <2>4, <2>5, <2>7, <2>8
  <2>10. missed \in Seq(Nat) /\ sel = [missed |-> missed, stale |-> stale]
    BY <2>1, <2>7, Zenon
  <2> HIDE DEF missed, stale
  <2>11. sel.missed = missed /\ sel.stale = stale
    BY <2>10
  <2> QED
    BY <2>8, <2>9, <2>10, <2>11, ZenonT(30)
<1> QED
  BY <1>2, <1>3, <1>4, Zenon

-----------------------------------------------------------------------------
(* StreamInv is inductive *)

\* A step that leaves edge f's side of the stream and the revision alone, and
\* restores none of NotMissed's conditions, keeps NotMissed(f).
LEMMA Untouched ==
  ASSUME NEW f \in Edges, NotMissed(f),
         sync'[f] = sync[f], lagged'[f] = lagged[f], rx'[f] = rx[f], wire'[f] = wire[f],
         thread'[f]["stream"] = thread[f]["stream"], conn'[f] = conn[f], revision' = revision,
         netFaults' = 0 => netFaults = 0,
         RingInOrder' /\ Published' => RingInOrder /\ Published
  PROVE  NotMissed(f)'
BY Zenon DEF NotMissed, Coming

\* The parts of StreamInv a step that leaves the agents alone has to restore.
LEMMA AgentsUntouched ==
  ASSUME StreamInv, UNCHANGED agentVars
  PROVE  \A f \in Edges : LastIdIsHeld(f)'
BY Zenon DEF StreamInv, LastIdIsHeld, agentVars

\* The handlers up to the ring: a new revision is not yet Published, and an
\* older one that arrives late in the ring takes RingInOrder away.
LEMMA HandlersKeepStream ==
  ASSUME StoreInv, StreamInv, NEW q \in Requests, UNCHANGED agentVars,
         Admin(q) \/ Rejected(q) \/ (Handler(q) /\ ~ PublishSend(q))
  PROVE  StreamInv'
<1>0. request \in [Requests -> RequestRecords] /\ revision \in Nat
  BY DEF StoreInv, CPTypeOK
<1>1. \A f \in Edges : LastIdIsHeld(f)'
  BY AgentsUntouched, SMTT(30)
<1>2. UNCHANGED streamVars
  BY SMTT(30) DEF Admin, Rejected, Handler, PostRecord, PostRejected, RollbackPop, RollbackRejected, PostActivate,
         RollbackStore, PublishBump, PublishRing, RollbackRecord
<1>3. ring' \in Seq(Nat) /\ Len(ring') > 0
  <2>1. CASE ring' = ring
    BY <2>1, Zenon DEF StreamInv, StreamTypeOK
  <2>2. CASE PublishRing(q)
    <3>1. request[q].rev \in Nat /\ RingCap \in Nat \ {0}
      BY <1>0, SMTT(30) DEF RequestRecords
    <3> QED
      BY <2>2, <3>1, QueueFacts, ZenonT(30) DEF PublishRing, StreamInv, StreamTypeOK, Entered
  <2>3. ring' = ring \/ PublishRing(q)
    BY SMTT(30) DEF Admin, Rejected, Handler, PostRecord, PostRejected, RollbackPop, RollbackRejected,
           PostActivate, RollbackStore, PublishBump, RollbackRecord
  <2> QED
    BY <2>1, <2>2, <2>3, Zenon
<1>4. StreamTypeOK' /\ \A f \in Edges : Len(rx'[f]) <= ChannelCap
  BY <1>2, <1>3, Zenon DEF StreamInv, StreamTypeOK, streamVars
<1>5. ASSUME NEW f \in Edges PROVE NotMissed(f)'
  <2>1. CASE PublishBump(q)
    <3>1. request'[q].pc = "ring" /\ request'[q].rev = revision'
      BY <1>0, <2>1, ZenonT(30) DEF PublishBump
    <3> QED
      BY <3>1, Zenon DEF NotMissed, Published
  <2>2. CASE PublishRing(q)
    <3>1. /\ request'[q].pc = "send" /\ request'[q].rev = request[q].rev /\ revision' = revision
          /\ request[q].rev \in Nat /\ RingCap \in Nat \ {0}
      BY <1>0, <2>2 DEF PublishRing, Goto, RequestRecords
    <3>2. LastOf(ring') = request[q].rev
      <4>1. Entered(ring', ring, request[q].rev, RingCap)
        BY <2>2, <3>1, QueueFacts, ZenonT(30) DEF PublishRing, StreamInv, StreamTypeOK
      <4> QED
        BY <4>1, ZenonT(30) DEF Entered, LastOf
    <3> QED
      BY <3>1, <3>2, Zenon DEF NotMissed, Published, RingInOrder
  <2>3. CASE ~ PublishBump(q) /\ ~ PublishRing(q)
    <3>1. revision' = revision /\ ring' = ring
      BY <2>3, SMTT(30) DEF Admin, Rejected, Handler, PostRecord, PostRejected, RollbackPop, RollbackRejected,
             PostActivate, RollbackStore, RollbackRecord
    <3>2. request[q].pc \notin {"ring", "send"} /\ \A p \in Requests \ {q} : request'[p] = request[p]
      BY <1>0, <2>3, ZenonT(30) DEF Admin, Rejected, Handler, PostRecord, PostRejected, RollbackPop, RollbackRejected,
             PostActivate, RollbackStore, RollbackRecord, Arrives, Goto
    <3>3. RingInOrder' /\ Published' => RingInOrder /\ Published
      BY <3>1, <3>2, Zenon DEF RingInOrder, Published
    <3> QED
      BY <1>2, <3>1, <3>3, Untouched, ZenonT(30) DEF StreamInv, agentVars, streamVars
  <2> QED
    BY <2>1, <2>2, <2>3, Zenon
<1> QED
  BY <1>1, <1>3, <1>4, <1>5, Zenon DEF StreamInv

\* The fanout: a receiver gets the new event, and one that is overrun is told.
LEMMA SendKeepsStream ==
  ASSUME StoreInv, StreamInv, NEW q \in Requests, UNCHANGED agentVars, PublishSend(q)
  PROVE  StreamInv'
<1> DEFINE r == request[q].rev
<1>0. request \in [Requests -> RequestRecords] /\ r \in Nat
  BY Zenon DEF StoreInv, CPTypeOK, RequestRecords
<1>1. UNCHANGED <<ring, revision, conn, wire, breaks, sync, thread, netFaults>>
  BY ZenonT(30) DEF PublishSend, agentVars
<1>2. /\ rx' = [e \in Edges |-> IF e \in Subscribers THEN Newest(Append(rx[e], r), ChannelCap) ELSE rx[e]]
      /\ lagged' = [e \in Edges |-> lagged[e] \/ (e \in Subscribers /\ Len(rx[e]) = ChannelCap)]
  BY Zenon DEF PublishSend
<1>3. \A p \in Requests \ {q} : request'[p] = request[p]
  BY <1>0, Zenon DEF PublishSend, Goto
<1> HIDE DEF r
<1>4. ASSUME NEW e \in Edges
      PROVE  /\ rx'[e] \in Seq(Nat) /\ Len(rx'[e]) <= ChannelCap /\ NotMissed(e)'
  <2>1. rx[e] \in Seq(Nat) /\ Len(rx[e]) <= ChannelCap /\ NotMissed(e) /\ lagged[e] \in BOOLEAN
        /\ ChannelCap \in Nat \ {0}
    BY DEF StreamInv, StreamTypeOK
  <2>2. CASE e \notin Subscribers
    <3>1. rx'[e] = rx[e] /\ conn'[e] # "open"
      BY <1>1, <1>2, <2>2, Zenon DEF Subscribers
    <3> QED
      BY <2>1, <3>1, ZenonT(30) DEF NotMissed
  <2>3. CASE e \in Subscribers
    <3>1. rx'[e] = Newest(Append(rx[e], r), ChannelCap)
      BY <1>2, <2>3, Zenon
    <3>2. /\ rx'[e] \in Seq(Nat) /\ Len(rx'[e]) > 0 /\ Len(rx'[e]) <= ChannelCap
          /\ rx'[e][Len(rx'[e])] = r
          /\ Len(rx[e]) < ChannelCap =>
               \A i \in 1 .. Len(rx[e]) : i \in 1 .. Len(rx'[e]) /\ rx'[e][i] = rx[e][i]
      <4>1. Entered(rx'[e], rx[e], r, ChannelCap)
        BY <1>0, <2>1, <3>1, QueueFacts
      <4> QED
        BY <4>1, Zenon DEF Entered
    <3>3. lagged'[e] = (lagged[e] \/ Len(rx[e]) = ChannelCap)
      BY <1>2, <2>3, Zenon
    <3>4. CASE r = revision
      BY <1>1, <3>2, <3>4 DEF NotMissed, Coming
    <3>5. CASE r # revision
      <4>1. Published' => Published
        BY <1>1, <1>3, <3>5, Zenon DEF Published, r
      <4>2. RingInOrder' => RingInOrder
        BY <1>1, Zenon DEF RingInOrder
      <4>3. Coming(e) => Coming(e)'
        <5>1. CASE lagged'[e]
          BY <5>1, ZenonT(30) DEF Coming
        <5>2. CASE ~ lagged'[e]
          <6>1. ~ lagged[e] /\ Len(rx[e]) # ChannelCap
            BY <3>3, <5>2, ZenonT(30)
          <6>2. Len(rx[e]) < ChannelCap
            BY <2>1, <6>1
          <6> QED
            BY <1>1, <3>2, <6>1, <6>2, ZenonT(30) DEF Coming
        <5> QED
          BY <5>1, <5>2, Zenon
      <4> QED
        BY <1>1, <2>1, <3>2, <4>1, <4>2, <4>3, ZenonT(30) DEF NotMissed
    <3> QED
      BY <3>2, <3>4, <3>5, Zenon
  <2> QED
    BY <2>2, <2>3, Zenon
<1>5. rx' \in [Edges -> Seq(Nat)]
  BY <1>2, <1>4, Zenon
<1>6. lagged' \in [Edges -> BOOLEAN]
  BY <1>2, ZenonT(30) DEF StreamInv, StreamTypeOK
<1> QED
  BY <1>1, <1>4, <1>5, <1>6, AgentsUntouched, Zenon DEF StreamInv, StreamTypeOK

\* A step of edge e's connection that leaves the store alone keeps StreamInv if
\* it keeps it for e.
LEMMA OneStream ==
  ASSUME StreamInv, NEW e \in Edges, NEW c \in {"none", "subscribed", "open", "closed"},
         NEW x \in Seq(Nat), NEW l \in BOOLEAN, NEW w \in Seq(Frames),
         UNCHANGED <<ring, revision, request>>, breaks' \in 0 .. MaxBreaks,
         netFaults' = 0 => netFaults = 0,
         conn' = [conn EXCEPT ![e] = c], rx' = [rx EXCEPT ![e] = x],
         lagged' = [lagged EXCEPT ![e] = l], wire' = [wire EXCEPT ![e] = w],
         \A f \in Edges \ {e} : sync'[f] = sync[f] /\ thread'[f] = thread[f],
         Len(x) <= ChannelCap, LastIdIsHeld(e)', NotMissed(e)'
  PROVE  StreamInv'
<1>1. StreamTypeOK'
  BY ZenonT(30) DEF StreamInv, StreamTypeOK
<1>2. /\ rx'[e] = x
      /\ \A f \in Edges \ {e} : /\ conn'[f] = conn[f] /\ rx'[f] = rx[f]
                                /\ lagged'[f] = lagged[f] /\ wire'[f] = wire[f]
  BY Zenon DEF StreamInv, StreamTypeOK
<1>3. RingInOrder' = RingInOrder /\ Published' = Published
  BY ZenonT(30) DEF RingInOrder, Published
<1>4. ASSUME NEW f \in Edges \ {e} PROVE LastIdIsHeld(f)' /\ NotMissed(f)' /\ Len(rx'[f]) <= ChannelCap
  <2>1. LastIdIsHeld(f)'
    BY ZenonT(30) DEF StreamInv, LastIdIsHeld
  <2>2. NotMissed(f)'
    BY <1>2, <1>3, Untouched, ZenonT(30) DEF StreamInv
  <2> QED
    BY <1>2, <2>1, <2>2, Zenon DEF StreamInv
<1> QED
  BY <1>1, <1>2, <1>4, ZenonT(30) DEF StreamInv

\* Taking the first element off a queue.
LEMMA TakeFacts ==
  ASSUME NEW S, NEW s \in Seq(S), s # <<>>
  PROVE  /\ Head(s) \in S /\ Head(s) = s[1] /\ Len(s) \in Nat \ {0}
         /\ Tail(s) \in Seq(S) /\ Len(Tail(s)) = Len(s) - 1
         /\ \A i \in 1 .. Len(Tail(s)) : Tail(s)[i] = s[i + 1]
OBVIOUS

\* Subscribe, Pump and a broken connection.
LEMMA ConnectionKeepsStream ==
  ASSUME StoreInv, StreamInv, NEW e \in Edges, UNCHANGED agentVars,
         Subscribe(e) \/ Pump(e) \/ StreamBreaks(e)
  PROVE  StreamInv'
<1>0. /\ conn \in [Edges -> {"none", "subscribed", "open", "closed"}] /\ rx \in [Edges -> Seq(Nat)]
      /\ lagged \in [Edges -> BOOLEAN] /\ wire \in [Edges -> Seq(Frames)] /\ breaks \in 0 .. MaxBreaks
      /\ Len(rx[e]) <= ChannelCap /\ NotMissed(e)
  BY SMTT(30) DEF StreamInv, StreamTypeOK
<1>1. /\ conn[e] \in {"none", "subscribed", "open", "closed"} /\ rx[e] \in Seq(Nat)
      /\ lagged[e] \in BOOLEAN /\ wire[e] \in Seq(Frames)
      /\ conn = [conn EXCEPT ![e] = conn[e]] /\ rx = [rx EXCEPT ![e] = rx[e]]
      /\ lagged = [lagged EXCEPT ![e] = lagged[e]] /\ wire = [wire EXCEPT ![e] = wire[e]]
  BY <1>0, ZenonT(30)
<1>2. LastIdIsHeld(e)' /\ UNCHANGED <<ring, revision, request, sync, thread, netFaults>>
  BY AgentsUntouched, Zenon DEF Subscribe, Pump, StreamBreaks, configVars, agentVars
<1>3. RingInOrder' = RingInOrder /\ Published' = Published
  BY <1>2, ZenonT(30) DEF RingInOrder, Published
<1>4. CASE Subscribe(e)
  <2>1. conn' = [conn EXCEPT ![e] = "subscribed"] /\ UNCHANGED <<rx, lagged, wire, breaks>>
    BY <1>4, Zenon DEF Subscribe
  <2>2. NotMissed(e)'
    BY <1>0, <2>1, Zenon DEF NotMissed
  <2> QED
    BY <1>0, <1>1, <1>2, <2>1, <2>2, OneStream, ZenonT(30)
<1>5. CASE StreamBreaks(e)
  <2>1. /\ conn' = [conn EXCEPT ![e] = "closed"] /\ rx' = [rx EXCEPT ![e] = <<>>]
        /\ lagged' = [lagged EXCEPT ![e] = FALSE] /\ wire' = wire /\ breaks' \in 0 .. MaxBreaks
    BY <1>0, <1>5 DEF StreamBreaks, Disconnected
  <2>2. NotMissed(e)'
    BY <1>0, <2>1, Zenon DEF NotMissed
  <2>3. <<>> \in Seq(Nat) /\ Len(<<>>) <= ChannelCap
    OBVIOUS
  <2> QED
    BY <1>1, <1>2, <2>1, <2>2, <2>3, OneStream, ZenonT(30)
<1>6. CASE Pump(e) /\ lagged[e]
  <2> DEFINE w == Append(wire[e], Stale)
  <2>1. /\ lagged' = [lagged EXCEPT ![e] = FALSE] /\ wire' = [wire EXCEPT ![e] = w]
        /\ UNCHANGED <<conn, rx, breaks>>
    BY <1>6, Zenon DEF Pump
  <2>2. Stale \in Frames
    BY Zenon DEF Stale, Frames
  <2>3. w \in Seq(Frames) /\ Len(w) > 0 /\ w[Len(w)] = Stale /\ Len(w) \in 1 .. Len(w)
    BY <1>1, <2>2, AppendFacts
  <2> HIDE DEF w
  <2>4. NotMissed(e)'
    BY <1>0, <2>1, <2>3, ZenonT(30) DEF NotMissed, Coming
  <2> QED
    BY <1>0, <1>1, <1>2, <2>1, <2>3, <2>4, OneStream, ZenonT(30)
<1>7. CASE Pump(e) /\ ~ lagged[e]
  <2> DEFINE h == Head(rx[e])
             w == Append(wire[e], Changed(h))
             x == Tail(rx[e])
  <2>1. /\ rx' = [rx EXCEPT ![e] = x] /\ wire' = [wire EXCEPT ![e] = w]
        /\ UNCHANGED <<conn, lagged, breaks>> /\ rx[e] # <<>>
    BY <1>7, Zenon DEF Pump
  <2>2. h \in Nat /\ h = rx[e][1] /\ Len(rx[e]) \in Nat \ {0}
    BY <1>1, <2>1, TakeFacts, ZenonT(30)
  <2>b. Len(wire[e]) \in Nat
    BY <1>1
  <2> HIDE DEF h
  <2>a. Changed(h) \in Frames /\ Changed(h).rev = h
    BY <2>2, ZenonT(30) DEF Changed, Frames
  <2>3. /\ w \in Seq(Frames) /\ Len(w) = Len(wire[e]) + 1
        /\ w[Len(wire[e]) + 1] = Changed(h) /\ \A i \in 1 .. Len(wire[e]) : w[i] = wire[e][i]
    BY <1>1, <2>a, AppendFacts
  <2>4. /\ x \in Seq(Nat) /\ Len(x) = Len(rx[e]) - 1 /\ Len(x) <= ChannelCap
        /\ \A i \in 1 .. Len(x) : x[i] = rx[e][i + 1]
    BY <1>0, <1>1, <2>1
  <2>5. rx'[e] = x /\ wire'[e] = w
    BY <1>0, <2>1, Zenon
  <2> HIDE DEF w, x
  <2>6. Coming(e) => Coming(e)'
    <3>1. CASE \E i \in 1 .. Len(rx[e]) : rx[e][i] = revision
      <4>1. PICK i \in 1 .. Len(rx[e]) : rx[e][i] = revision
        BY <3>1, Zenon
      <4>2. CASE i = 1
        <5>1. Len(w) \in 1 .. Len(w)
          BY <2>2, <2>3, <2>b
        <5>2. w[Len(w)].rev = revision
          BY <2>2, <2>3, <2>a, <4>1, <4>2, ZenonT(30)
        <5> QED
          BY <1>2, <2>5, <5>1, <5>2, ZenonT(30) DEF Coming
      <4>3. CASE i # 1
        <5>1. i - 1 \in 1 .. Len(x) /\ (i - 1) + 1 = i
          <6>1. /\ Len(rx[e]) \in Nat /\ Len(x) = Len(rx[e]) - 1
                /\ i \in 1 .. Len(rx[e]) /\ i # 1
            BY <2>2, <2>4, <4>1, <4>3, Zenon
          <6> QED
            BY ONLY <6>1
        <5>2. x[i - 1] = revision
          BY <2>4, <4>1, <5>1, ZenonT(30)
        <5> QED
          BY <1>2, <2>5, <5>1, <5>2, ZenonT(30) DEF Coming
      <4> QED
        BY <4>2, <4>3, Zenon
    <3>2. CASE \E i \in 1 .. Len(wire[e]) : wire[e][i] = Stale \/ wire[e][i].rev = revision
      <4>1. \E i \in 1 .. Len(w) : w[i] = Stale \/ w[i].rev = revision
        <5>1. PICK i \in 1 .. Len(wire[e]) : wire[e][i] = Stale \/ wire[e][i].rev = revision
          BY <3>2, ZenonT(30)
        <5>2. i \in 1 .. Len(w)
          BY <2>2, <2>3, <2>b
        <5>3. w[i] = wire[e][i]
          BY <2>3, ZenonT(30)
        <5> QED
          BY <5>1, <5>2, <5>3, ZenonT(30)
      <4> QED
        BY <1>2, <2>5, <4>1 DEF Coming
    <3> QED
      BY <1>2, <2>1, <3>1, <3>2, ZenonT(30) DEF Coming
  <2>7. NotMissed(e)'
    BY <1>0, <1>2, <1>3, <2>1, <2>6 DEF NotMissed
  <2> QED
    BY <1>0, <1>1, <1>2, <2>1, <2>3, <2>4, <2>7, OneStream, ZenonT(30)
<1> QED
  BY <1>4, <1>5, <1>6, <1>7

-----------------------------------------------------------------------------
(* The agents *)

\* What relates an agent's state, its file and the replies it is waiting to
\* apply to the control plane's revision.  SyncState and the file agree unless
\* the agent restarted; a reply that meets an empty SyncState is not older than
\* the file.
DeliveryInv ==
  /\ AgentTypeOK
  /\ EdgeNeverAhead
  /\ \A e \in Edges : sync[e] = file[e] \/ (sync[e] = Nothing /\ restarts > 0)
  /\ \A e \in Edges : \A t \in Threads : thread[e][t].pc = "reply" =>
       /\ thread[e][t].rev > 0
       /\ crashes = 0 /\ sync[e] = Nothing => thread[e][t].rev >= file[e].rev

\* The thread states the agents move to.
LEMMA ThreadRecordFacts ==
  /\ \A label \in {"unborn", "start", "connect", "opening", "reading", "sleep", "asked"} :
       /\ At(label) \in ThreadRecords
       /\ At(label).pc = label /\ At(label).rev = 0
       /\ Fetching(label) \in ThreadRecords
       /\ Fetching(label).pc = "get" /\ Fetching(label).rev = 0
       /\ \A r \in Nat : /\ [At(label) EXCEPT !.rev = r] \in ThreadRecords
                         /\ [At(label) EXCEPT !.rev = r].pc = label
                         /\ [At(label) EXCEPT !.rev = r].rev = r
BY DEF At, Fetching, ThreadRecords

\* A thread that only moves on keeps DeliveryInv if what it holds is fit to.
LEMMA MoveKeepsDelivery ==
  ASSUME StoreInv, DeliveryInv, NEW e \in Edges, NEW t \in Threads, NEW to \in ThreadRecords,
         thread' = [thread EXCEPT ![e][t] = to],
         UNCHANGED <<sync, file, restarts, revision, crashes>>,
         netFaults' \in 0 .. MaxNetFaults,
         to.rev = 0 \/ (crashes = 0 => to.rev <= revision),
         to.pc = "reply" => to.rev > 0 /\ (crashes = 0 => to.rev >= file[e].rev)
  PROVE  DeliveryInv'
<1>1. thread' \in [Agents -> [Threads -> ThreadRecords]]
  BY Zenon DEF DeliveryInv, AgentTypeOK
<1>2. \A f \in Edges : \A u \in Threads :
        thread'[f][u] = IF f = e /\ u = t THEN to ELSE thread[f][u]
  BY Zenon DEF DeliveryInv, AgentTypeOK
<1>3. AgentTypeOK'
  BY <1>1, Zenon DEF DeliveryInv, AgentTypeOK
<1>4. EdgeNeverAhead'
  BY <1>2, Z3T(30) DEF DeliveryInv, EdgeNeverAhead, StoreInv, CPTypeOK
<1> QED
  BY <1>2, <1>3, <1>4 DEF DeliveryInv

\* Requests, replies, frames and failures, except the activation of a reply.
LEMMA AgentStepsKeepDelivery ==
  ASSUME StoreInv, DeliveryInv, NEW e \in Edges,
         \/ StreamNext(e) \/ ReconcileNext(e)
         \/ \E t \in Threads : LoadLive(e, t) \/ LoadRevision(e, t) \/ Fail(e, t)
  PROVE  DeliveryInv'
<1> USE DEF Move
<1>0. /\ thread \in [Agents -> [Threads -> ThreadRecords]] /\ netFaults \in 0 .. MaxNetFaults
      /\ \A t \in Threads : thread[e][t] \in ThreadRecords
      /\ sync[e].rev \in Nat /\ revision \in Nat /\ revision > 0
      /\ "stream" \in Threads /\ "reconcile" \in Threads
  BY DEF DeliveryInv, AgentTypeOK, StoreInv, CPTypeOK, Threads, Applied
<1>1. ASSUME NEW t \in Threads, LoadLive(e, t) PROVE DeliveryInv'
  <2> DEFINE to == [thread[e][t] EXCEPT !.pc = "got", !.cfg = live]
  <2>1. to \in ThreadRecords /\ to.pc = "got" /\ to.rev = thread[e][t].rev
    BY <1>0, ZenonT(30) DEF ThreadRecords, StoreInv, CPTypeOK
  <2>2. crashes = 0 => to.rev <= revision
    BY <2>1, Zenon DEF DeliveryInv, EdgeNeverAhead
  <2>3. thread' = [thread EXCEPT ![e][t] = to]
        /\ UNCHANGED <<sync, file, restarts, revision, crashes, netFaults>>
    BY <1>1, ZenonT(30) DEF LoadLive, GetLive, cpVars
  <2> HIDE DEF to
  <2> QED
    BY <1>0, <2>1, <2>2, <2>3, MoveKeepsDelivery, ZenonT(30)
<1>2. ASSUME NEW t \in Threads, LoadRevision(e, t) PROVE DeliveryInv'
  <2> DEFINE to == [thread[e][t] EXCEPT !.pc = "reply", !.rev = revision]
  <2>1. to \in ThreadRecords /\ to.pc = "reply" /\ to.rev = revision
    BY <1>0, ZenonT(30) DEF ThreadRecords
  <2>2. crashes = 0 => to.rev >= file[e].rev
    BY <2>1, Zenon DEF DeliveryInv, EdgeNeverAhead
  <2>3. thread' = [thread EXCEPT ![e][t] = to]
        /\ UNCHANGED <<sync, file, restarts, revision, crashes, netFaults>>
    BY <1>2, ZenonT(30) DEF LoadRevision, GetRevision, cpVars
  <2>4. to.rev > 0 /\ to.rev <= revision /\ to \in ThreadRecords
    BY <1>0, <2>1
  <2> HIDE DEF to
  <2> QED
    BY <1>0, <2>2, <2>3, <2>4, MoveKeepsDelivery, ZenonT(30)
<1>3. ASSUME NEW t \in Threads, Fail(e, t) PROVE DeliveryInv'
  <2> DEFINE label == IF thread[e][t].pc = "asked" THEN "sleep" ELSE thread[e][t].back
  <2>1. label \in {"unborn", "start", "connect", "opening", "reading", "sleep", "asked"}
    BY <1>0, Zenon DEF ThreadRecords
  <2>2. thread' = [thread EXCEPT ![e][t] = At(label)]
        /\ UNCHANGED <<sync, file, restarts, revision, crashes>>
    BY <1>3, Zenon DEF Fail, RequestFails, Resumed, cpVars
  <2>3. netFaults' \in 0 .. MaxNetFaults
    BY <1>0, <1>3 DEF Fail, RequestFails
  <2> HIDE DEF label
  <2> QED
    BY <2>1, <2>2, <2>3, ThreadRecordFacts, MoveKeepsDelivery, ZenonT(30)
<1>4. ASSUME NEW t \in Threads, NEW label \in {"connect", "opening", "reading", "sleep", "asked"},
             NEW r \in Nat, r = 0 \/ (crashes = 0 => r <= revision),
             thread' = [thread EXCEPT ![e][t] = [At(label) EXCEPT !.rev = r]],
             UNCHANGED <<sync, file, restarts, revision, crashes, netFaults>>
      PROVE  DeliveryInv'
  <2> DEFINE to == [At(label) EXCEPT !.rev = r]
  <2>1. to \in ThreadRecords /\ to.pc # "reply" /\ to.rev = r
    BY ThreadRecordFacts
  <2> HIDE DEF to
  <2> QED
    BY <1>0, <1>4, <2>1, MoveKeepsDelivery, ZenonT(30) DEF to
<1>5. ASSUME NEW t \in Threads, NEW label \in {"start", "connect", "reading", "sleep"},
             NEW to \in {At(label), Fetching(label)},
             thread' = [thread EXCEPT ![e][t] = to],
             UNCHANGED <<sync, file, restarts, revision, crashes, netFaults>>
      PROVE  DeliveryInv'
  <2>1. to \in ThreadRecords /\ to.pc # "reply" /\ to.rev = 0
    BY ThreadRecordFacts
  <2> QED
    BY <1>0, <1>5, <2>1, MoveKeepsDelivery, ZenonT(30)
<1>6. UNCHANGED <<agentVars, revision, crashes>> => DeliveryInv'
  BY DEF DeliveryInv, AgentTypeOK, EdgeNeverAhead, agentVars
<1>7. crashes = 0 => sync[e].rev <= revision
  BY Zenon DEF DeliveryInv, EdgeNeverAhead
<1> USE DEF configVars, cpVars
<1>8. CASE Bootstrap(e)
  BY <1>0, <1>5, <1>8, ZenonT(30) DEF Bootstrap, InitialFetch
<1>9. CASE Connect(e)
  BY <1>0, <1>4, <1>7, <1>9, ZenonT(30) DEF Connect, OpenStream
<1>10. CASE Accept(e)
  BY <1>6, <1>10, Zenon DEF Accept, Subscribe
<1>11. CASE Open(e)
  BY <1>0, <1>5, <1>11, ZenonT(30) DEF Open, StreamOpened, Replay
<1>12. CASE Read(e)
  BY <1>0, <1>5, <1>6, <1>12, Zenon DEF Read, Deliver, ReadFrame, agentVars
<1>13. CASE Lose(e)
  BY <1>0, <1>5, <1>13, ZenonT(30) DEF Lose, StreamLost, Hangup
<1>14. CASE Ask(e)
  BY <1>0, <1>4, <1>7, <1>14, ZenonT(30) DEF Ask, ReconcileAsk
<1>15. CASE Answer(e)
  BY <1>0, <1>5, <1>15, ZenonT(30) DEF Answer, ReconcileAnswer
<1> QED
  BY <1>1, <1>2, <1>3, <1>8, <1>9, <1>10, <1>11, <1>12, <1>13, <1>14, <1>15, Zenon
     DEF StreamNext, ReconcileNext

\* Activate replaces file and state together, by a newer revision, or by one
\* that is not older than the file when the agent has just restarted.
LEMMA ActivateFacts ==
  ASSUME StoreInv, DeliveryInv, NEW e \in Edges, NEW t \in Threads, Apply(e, t)
  PROVE  /\ UNCHANGED <<restarts, crashes, revision, netFaults>>
         /\ thread' \in [Agents -> [Threads -> ThreadRecords]]
         /\ \A f \in Edges \ {e} : thread'[f] = thread[f] /\ sync'[f] = sync[f] /\ file'[f] = file[f]
         /\ \A u \in Threads : \/ thread'[e][u].rev = 0 /\ thread'[e][u].pc # "reply"
                               \/ thread'[e][u] = thread[e][u]
         /\ \/ file' = file /\ sync' = sync /\ sync[e] # Nothing
            \/ /\ sync'[e] = file'[e] /\ sync' \in [Agents -> Applied] /\ file' \in [Agents -> Applied]
               /\ file'[e].rev = thread[e][t].rev /\ file'[e].rev > 0
               /\ sync[e] = Nothing \/ file'[e].rev > sync[e].rev
<1> DEFINE got == [rev |-> thread[e][t].rev, cfg |-> thread[e][t].cfg]
           fresh == ~ UpToDate(sync[e], got.rev, got.cfg)
<1>1. /\ thread[e][t] \in ThreadRecords /\ sync[e] \in Applied /\ file[e] \in Applied
      /\ thread \in [Agents -> [Threads -> ThreadRecords]] /\ thread[e] \in [Threads -> ThreadRecords]
      /\ sync \in [Agents -> Applied] /\ file \in [Agents -> Applied]
  BY Zenon DEF DeliveryInv, AgentTypeOK
<1>2. got \in Applied /\ got.rev = thread[e][t].rev /\ got.rev \in Nat
  BY <1>1, Zenon DEF ThreadRecords, Applied
<1>3. got.rev > 0
  BY <1>2, Zenon DEF DeliveryInv, Apply, Activate
<1>4. /\ UNCHANGED <<restarts, crashes, revision, netFaults>>
      /\ file' = IF fresh THEN [file EXCEPT ![e] = got] ELSE file
      /\ sync' = IF fresh THEN [sync EXCEPT ![e] = got] ELSE sync
      /\ thread' = [thread EXCEPT ![e] = Returned(e, t)]
  BY Zenon DEF Apply, Activate, cpVars
<1>5. /\ Returned(e, t) \in [Threads -> ThreadRecords]
      /\ \A u \in Threads : \/ Returned(e, t)[u].rev = 0 /\ Returned(e, t)[u].pc # "reply"
                            \/ Returned(e, t)[u] = thread[e][u]
  <2>1. CASE thread[e][t].back = "start"
    <3> DEFINE a == At("connect")
               b == At("sleep")
    <3>1. /\ a \in ThreadRecords /\ a.rev = 0 /\ a.pc # "reply"
          /\ b \in ThreadRecords /\ b.rev = 0 /\ b.pc # "reply"
      BY ThreadRecordFacts, Zenon
    <3>2. Returned(e, t) = [thread[e] EXCEPT !["stream"] = a, !["reconcile"] = b]
      BY <2>1, Zenon DEF Returned
    <3> HIDE DEF a, b
    <3> QED
      BY <1>1, <3>1, <3>2, ZenonT(30)
  <2>2. CASE thread[e][t].back # "start"
    <3>1. thread[e][t].back \in {"unborn", "start", "connect", "opening", "reading", "sleep", "asked"}
      BY <1>1, Zenon DEF ThreadRecords
    <3> QED
      BY <1>1, <2>2, <3>1, ThreadRecordFacts DEF Returned
  <2> QED
    BY <2>1, <2>2, Zenon
<1>6. /\ thread' \in [Agents -> [Threads -> ThreadRecords]]
      /\ \A f \in Edges \ {e} : thread'[f] = thread[f]
      /\ thread'[e] = Returned(e, t)
  BY <1>1, <1>4, <1>5, Zenon
<1>7. fresh => sync[e] = Nothing \/ got.rev > sync[e].rev
  <2>1. sync[e].rev \in Nat
    BY <1>1, Zenon DEF Applied
  <2> DEFINE r == got.rev
             c == got.cfg
  <2>2. r \in Nat /\ r > 0
    BY <1>2, <1>3, Zenon
  <2> HIDE DEF got, r, c
  <2>3. ~ UpToDate(sync[e], r, c) => sync[e] = Nothing \/ r > sync[e].rev
    BY <2>1, <2>2 DEF UpToDate
  <2> QED
    BY <2>3, Zenon DEF r, c
<1>8. ~ fresh => sync[e] # Nothing
  BY Zenon DEF UpToDate
<1>9. CASE fresh
  <2>1. /\ file'[e] = got /\ sync'[e] = got
        /\ sync' \in [Agents -> Applied] /\ file' \in [Agents -> Applied]
        /\ \A f \in Edges \ {e} : sync'[f] = sync[f] /\ file'[f] = file[f]
    BY <1>1, <1>2, <1>4, <1>9
  <2> HIDE DEF got, fresh
  <2> QED
    BY <1>2, <1>3, <1>4, <1>5, <1>6, <1>7, <1>9, <2>1, Zenon
<1>10. CASE ~ fresh
  <2>1. file' = file /\ sync' = sync
    BY <1>4, <1>10, Zenon
  <2> HIDE DEF got, fresh
  <2> QED
    BY <1>4, <1>5, <1>6, <1>8, <1>10, <2>1, Zenon
<1> HIDE DEF got, fresh
<1> QED
  BY <1>9, <1>10, Zenon

\* Activating a reply keeps DeliveryInv.
LEMMA ActivateKeepsDelivery ==
  ASSUME StoreInv, DeliveryInv, NEW e \in Edges, NEW t \in Threads, Apply(e, t)
  PROVE  DeliveryInv'
<1>1. AgentTypeOK'
  BY ActivateFacts, Zenon DEF DeliveryInv, AgentTypeOK
<1>a. restarts' = restarts /\ crashes' = crashes /\ revision' = revision
  BY ActivateFacts, Zenon
<1>b. \A f \in Edges : f # e => thread'[f] = thread[f] /\ sync'[f] = sync[f] /\ file'[f] = file[f]
  BY ActivateFacts
<1>c. \A u \in Threads : \/ thread'[e][u].rev = 0 /\ thread'[e][u].pc # "reply"
                         \/ thread'[e][u] = thread[e][u]
  BY ActivateFacts, Zenon
<1>d. \/ file'[e] = file[e] /\ sync'[e] = sync[e] /\ sync[e] # Nothing
      \/ /\ sync'[e] = file'[e] /\ file'[e].rev = thread[e][t].rev /\ file'[e].rev > 0
  BY ActivateFacts
<1>2. EdgeNeverAhead'
  <2> SUFFICES ASSUME crashes' = 0, NEW f \in Edges
               PROVE  /\ file'[f].rev <= revision /\ sync'[f].rev <= revision
                      /\ \A u \in Threads : thread'[f][u].rev <= revision
    BY <1>a, Zenon DEF EdgeNeverAhead
  <2>1. crashes = 0 /\ revision \in Nat
    BY <1>a DEF StoreInv, CPTypeOK
  <2>2. \A g \in Edges : /\ file[g].rev <= revision /\ sync[g].rev <= revision
                         /\ \A u \in Threads : thread[g][u].rev <= revision
    BY <2>1, Zenon DEF DeliveryInv, EdgeNeverAhead
  <2>3. CASE f # e
    <3>1. thread'[f] = thread[f] /\ sync'[f] = sync[f] /\ file'[f] = file[f]
      BY <1>b, <2>3, Zenon
    <3> QED
      BY <2>2, <3>1, Zenon
  <2>4. CASE f = e
    <3>1. file'[e].rev <= revision /\ sync'[e].rev <= revision
      BY <1>d, <2>2, Zenon
    <3>2. ASSUME NEW u \in Threads PROVE thread'[e][u].rev <= revision
      <4>1. thread[e][u].rev <= revision /\ 0 <= revision
        BY <2>1, <2>2
      <4>2. thread'[e][u].rev = 0 \/ thread'[e][u] = thread[e][u]
        BY <1>c, Zenon
      <4> QED
        BY <4>1, <4>2, Zenon
    <3> QED
      BY <2>4, <3>1, <3>2, Zenon
  <2> QED
    BY <2>3, <2>4, Zenon
<1>3. ASSUME NEW f \in Edges PROVE sync'[f] = file'[f] \/ (sync'[f] = Nothing /\ restarts' > 0)
  <2>1. sync[f] = file[f] \/ (sync[f] = Nothing /\ restarts > 0)
    BY Zenon DEF DeliveryInv
  <2>2. CASE f # e
    BY <1>a, <1>b, <2>1, <2>2, Zenon
  <2>3. CASE f = e
    BY <1>a, <1>d, <2>1, <2>3, Zenon
  <2> QED
    BY <2>2, <2>3, Zenon
<1>4. ASSUME NEW f \in Edges, NEW u \in Threads, thread'[f][u].pc = "reply"
      PROVE  /\ thread'[f][u].rev > 0
             /\ crashes' = 0 /\ sync'[f] = Nothing => thread'[f][u].rev >= file'[f].rev
  <2>1. thread'[f][u] = thread[f][u]
    BY <1>4, <1>b, <1>c, Zenon
  <2>2. thread[f][u].rev > 0 /\ (crashes = 0 /\ sync[f] = Nothing => thread[f][u].rev >= file[f].rev)
    BY <1>4, <2>1, Zenon DEF DeliveryInv
  <2>3. CASE f # e
    BY <1>a, <1>b, <2>1, <2>2, <2>3, Zenon
  <2>4. CASE f = e
    <3>1. Nothing.rev = 0
      BY Zenon DEF Nothing
    <3>2. sync'[e] = Nothing => sync'[e].rev = 0
      BY <3>1, Zenon
    <3>3. (sync'[e] = sync[e] /\ sync[e] # Nothing) \/ sync'[e].rev > 0
      BY <1>d, Zenon
    <3>4. sync'[e] # Nothing
      BY <3>2, <3>3
    <3> QED
      BY <2>1, <2>2, <2>4, <3>4, Zenon
  <2> QED
    BY <2>3, <2>4
<1> QED
  BY <1>1, <1>2, <1>3, <1>4, Zenon DEF DeliveryInv

\* So does a restart of an agent, which forgets its replies and its state ...
LEMMA RestartKeepsDelivery ==
  ASSUME StoreInv, DeliveryInv, NEW e \in Edges, RestartAgent(e)
  PROVE  DeliveryInv'
<1>1. /\ sync' = [sync EXCEPT ![e] = Nothing] /\ thread' = [thread EXCEPT ![e] = Fresh]
      /\ UNCHANGED <<file, netFaults, revision, crashes>>
      /\ restarts < MaxRestarts /\ restarts' = restarts + 1
  BY Zenon DEF RestartAgent, AgentRestart, Hangup, configVars
<1>2. Nothing \in Applied /\ Nothing.rev = 0
  BY Zenon DEF Nothing, Applied
<1>3. Fresh \in [Threads -> ThreadRecords] /\ \A t \in Threads : Fresh[t].rev = 0 /\ Fresh[t].pc # "reply"
  BY ThreadRecordFacts, Zenon DEF Fresh
<1>4. /\ sync \in [Agents -> Applied] /\ thread \in [Agents -> [Threads -> ThreadRecords]]
      /\ restarts \in Nat
  BY DEF DeliveryInv, AgentTypeOK
<1>5. /\ sync' \in [Agents -> Applied] /\ thread' \in [Agents -> [Threads -> ThreadRecords]]
      /\ restarts' \in 0 .. MaxRestarts /\ restarts' > 0
  BY <1>1, <1>2, <1>3, <1>4
<1>6. /\ sync'[e] = Nothing /\ thread'[e] = Fresh
      /\ \A f \in Edges \ {e} : sync'[f] = sync[f] /\ thread'[f] = thread[f]
  BY <1>1, <1>4, Zenon
<1>7. AgentTypeOK'
  BY <1>1, <1>5, Zenon DEF DeliveryInv, AgentTypeOK
<1>8. EdgeNeverAhead'
  <2> SUFFICES ASSUME crashes' = 0, NEW f \in Edges
               PROVE  /\ file'[f].rev <= revision /\ sync'[f].rev <= revision
                      /\ \A t \in Threads : thread'[f][t].rev <= revision
    BY <1>1 DEF EdgeNeverAhead
  <2>1. revision \in Nat
    BY Zenon DEF StoreInv, CPTypeOK
  <2>2. /\ file[f].rev <= revision /\ sync[f].rev <= revision
        /\ \A t \in Threads : thread[f][t].rev <= revision
    BY <1>1, Zenon DEF DeliveryInv, EdgeNeverAhead
  <2>3. file'[f].rev <= revision
    BY <1>1, <2>2, Zenon
  <2>4. CASE f # e
    BY <1>6, <2>2, <2>3, <2>4, Zenon
  <2>5. CASE f = e
    <3>1. sync'[f].rev = 0 /\ \A t \in Threads : thread'[f][t].rev = 0
      BY <1>2, <1>3, <1>6, <2>5, Zenon
    <3> QED
      BY <2>1, <2>3, <3>1
  <2> QED
    BY <2>4, <2>5, Zenon
<1> QED
  BY <1>1, <1>3, <1>4, <1>5, <1>6, <1>7, <1>8 DEF DeliveryInv

\* A crash leaves every thread where it was or makes it resume.
LEMMA InterruptedFacts ==
  ASSUME AgentTypeOK, Interrupted
  PROVE  /\ thread' \in [Agents -> [Threads -> ThreadRecords]]
         /\ \A e \in Edges : \A t \in Threads :
              thread'[e][t].pc \in {"got", "reply"} => thread'[e][t] = thread[e][t]
<1>1. PICK late \in SUBSET (Agents \X Threads) :
        thread' = [e \in Agents |-> [t \in Threads |->
          IF \/ thread[e][t].pc = "got"
             \/ thread[e][t].pc \in {"asked", "get"} /\ <<e, t>> \notin late
          THEN Resumed(e, t) ELSE thread[e][t]]]
  BY Zenon DEF Interrupted
<1>2. \A e \in Agents : \A t \in Threads :
        /\ thread'[e][t] = thread[e][t] \/ (thread[e][t].pc # "reply" /\ thread'[e][t] = Resumed(e, t))
        /\ thread[e][t].pc = "got" => thread'[e][t] = Resumed(e, t)
  BY <1>1, ZenonT(30)
<1>3. \A e \in Agents : \A t \in Threads :
        /\ thread[e][t] \in ThreadRecords /\ Resumed(e, t) \in ThreadRecords
        /\ Resumed(e, t).pc \notin {"got", "reply"}
  <2> SUFFICES ASSUME NEW e \in Agents, NEW t \in Threads
               PROVE  /\ thread[e][t] \in ThreadRecords /\ Resumed(e, t) \in ThreadRecords
                      /\ Resumed(e, t).pc \notin {"got", "reply"}
    BY Zenon
  <2>1. thread[e][t] \in ThreadRecords
    BY DEF AgentTypeOK
  <2>2. thread[e][t].back \in {"unborn", "start", "connect", "opening", "reading", "sleep", "asked"}
    BY <2>1, Zenon DEF ThreadRecords
  <2> QED
    BY <2>1, <2>2, ThreadRecordFacts DEF Resumed
<1>4. \A e \in Agents : \A t \in Threads : thread'[e][t] \in ThreadRecords
  BY <1>2, <1>3
<1>5. thread' \in [Agents -> [Threads -> ThreadRecords]]
  <2>1. thread' = [e \in Agents |-> [t \in Threads |-> thread'[e][t]]]
    BY <1>1, Zenon
  <2> QED
    BY <2>1, <1>4, Zenon
<1> QED
  BY <1>2, <1>3, <1>5, SameEdges, Zenon

\* ... a crash of the control plane, which breaks the requests it was serving ...
LEMMA CrashKeepsDelivery ==
  ASSUME StoreInv, DeliveryInv, Crash
  PROVE  DeliveryInv'
<1>1. crashes' > 0 /\ UNCHANGED <<sync, file, netFaults, restarts>> /\ Interrupted
  <2>1. crashes \in Nat
    BY DEF StoreInv, CPTypeOK
  <2>2. crashes' = crashes + 1
    <3>1. ASSUME NEW h, Boot(h) PROVE crashes' = crashes + 1
      BY <3>1, Zenon DEF Boot
    <3> QED
      BY <3>1, Zenon DEF Crash, RestartFromRows, RestartFromSeed
  <2>3. UNCHANGED <<sync, file, netFaults, restarts>> /\ Interrupted
    BY Zenon DEF Crash
  <2> QED
    BY <2>1, <2>2, <2>3
<1>2. /\ thread' \in [Agents -> [Threads -> ThreadRecords]]
      /\ \A e \in Edges : \A t \in Threads :
           thread'[e][t].pc \in {"got", "reply"} => thread'[e][t] = thread[e][t]
  BY <1>1, InterruptedFacts, Zenon DEF DeliveryInv
<1>3. ~ (crashes' = 0)
  BY <1>1
<1>4. AgentTypeOK' /\ EdgeNeverAhead'
  <2>1. AgentTypeOK'
    BY <1>1, <1>2, Zenon DEF DeliveryInv, AgentTypeOK
  <2>2. EdgeNeverAhead'
    BY <1>3, Zenon DEF EdgeNeverAhead
  <2> QED
    BY <2>1, <2>2, Zenon
<1>5. \A e \in Edges : sync'[e] = file'[e] \/ (sync'[e] = Nothing /\ restarts' > 0)
  BY <1>1, Zenon DEF DeliveryInv
<1>6. ASSUME NEW e \in Edges, NEW t \in Threads, thread'[e][t].pc = "reply"
      PROVE  thread'[e][t].rev > 0
  <2>1. thread'[e][t] = thread[e][t]
    BY <1>2, <1>6, Zenon
  <2> QED
    BY <1>6, <2>1, Zenon DEF DeliveryInv
<1> QED
  BY <1>3, <1>4, <1>5, <1>6, Zenon DEF DeliveryInv

\* ... and the handlers of the control plane, which only raise the revision.
LEMMA HandlersKeepDelivery ==
  ASSUME StoreInv, DeliveryInv, UNCHANGED agentVars, crashes' = crashes,
         revision' \in Nat, revision' >= revision
  PROVE  DeliveryInv'
<1>1. EdgeNeverAhead'
  <2> SUFFICES ASSUME crashes' = 0, NEW e \in Edges
               PROVE  /\ file'[e].rev <= revision' /\ sync'[e].rev <= revision'
                      /\ \A t \in Threads : thread'[e][t].rev <= revision'
    BY Zenon DEF EdgeNeverAhead
  <2>1. /\ file[e].rev \in Nat /\ sync[e].rev \in Nat
        /\ \A t \in Threads : thread[e][t].rev \in Nat
    BY DEF DeliveryInv, AgentTypeOK, Applied, ThreadRecords
  <2>2. /\ file[e].rev <= revision /\ sync[e].rev <= revision
        /\ \A t \in Threads : thread[e][t].rev <= revision
    BY Zenon DEF DeliveryInv, EdgeNeverAhead
  <2>3. revision \in Nat
    BY Zenon DEF StoreInv, CPTypeOK
  <2>4. file'[e] = file[e] /\ sync'[e] = sync[e] /\ thread' = thread
    BY Zenon DEF agentVars
  <2>5. file'[e].rev <= revision' /\ sync'[e].rev <= revision'
    BY <2>1, <2>2, <2>3, <2>4
  <2>6. ASSUME NEW t \in Threads PROVE thread'[e][t].rev <= revision'
    <3>1. thread'[e][t].rev = thread[e][t].rev
      BY <2>4, Zenon
    <3> QED
      BY <2>1, <2>2, <2>3, <3>1
  <2> QED
    BY <2>5, <2>6, Zenon
<1> QED
  BY <1>1, Zenon DEF DeliveryInv, AgentTypeOK, agentVars

\* The handlers of the control plane never lower the revision.
LEMMA HandlersRaiseRevision ==
  ASSUME StoreInv, NEW q \in Requests, AdminNext(q) \/ HandlerNext(q) \/ RejectedNext(q)
  PROVE  UNCHANGED agentVars /\ crashes' = crashes /\ revision' \in Nat /\ revision' >= revision
<1>1. revision \in Nat
  BY Zenon DEF StoreInv, CPTypeOK
<1>2. UNCHANGED agentVars
  BY Zenon DEF AdminNext, HandlerNext, RejectedNext
<1>3. Admin(q) => crashes' = crashes /\ revision' = revision
  BY ZenonT(30) DEF Admin, PostRecord, RollbackPop
<1>4. Rejected(q) => crashes' = crashes /\ revision' = revision
  BY SMTT(30) DEF Rejected, PostRejected, RollbackRejected
<1>5. Handler(q) => crashes' = crashes /\ (revision' = revision \/ revision' = revision + 1)
  BY Zenon DEF Handler, PostActivate, RollbackStore, PublishBump, PublishRing, PublishSend, RollbackRecord
<1> QED
  BY <1>1, <1>2, <1>3, <1>4, <1>5 DEF AdminNext, HandlerNext, RejectedNext

\* The steps that leave agents, revision and crash count alone.
LEMMA QuietSteps ==
  ASSUME (\E e \in Edges : Forward(e) \/ Break(e)) \/ UNCHANGED vars
  PROVE  UNCHANGED agentVars /\ crashes' = crashes /\ revision' = revision
BY Zenon DEF Forward, Break, Pump, StreamBreaks, configVars, vars, cpVars, agentVars

\* DeliveryInv is inductive relative to StoreInv.
LEMMA DeliveryInductive ==
  /\ Init => DeliveryInv
  /\ StoreInv /\ DeliveryInv /\ [Next]_vars => DeliveryInv'
<1>1. Init => DeliveryInv
  <2> SUFFICES ASSUME Init PROVE DeliveryInv
    BY Zenon
  <2>1. Fresh \in [Threads -> ThreadRecords] /\ \A t \in Threads : Fresh[t].rev = 0 /\ Fresh[t].pc # "reply"
    BY ThreadRecordFacts, Zenon DEF Fresh
  <2>2. Nothing \in Applied /\ Nothing.rev = 0
    BY Zenon DEF Nothing, Applied
  <2> QED
    BY <2>1, <2>2 DEF Init, CPInit, AgentInit, DeliveryInv, AgentTypeOK, EdgeNeverAhead
<1>2. ASSUME StoreInv, DeliveryInv, [Next]_vars PROVE DeliveryInv'
  <2>1. ASSUME NEW q \in Requests, AdminNext(q) \/ HandlerNext(q) \/ RejectedNext(q)
        PROVE  DeliveryInv'
    BY <1>2, <2>1, HandlersRaiseRevision, HandlersKeepDelivery, Zenon
  <2>2. ASSUME NEW e \in Edges, StreamNext(e) \/ ReconcileNext(e) PROVE DeliveryInv'
    BY <1>2, <2>2, AgentStepsKeepDelivery, Zenon
  <2>3. ASSUME NEW e \in Edges, NEW t \in Threads, FetchNext(e, t) \/ Fail(e, t)
        PROVE  DeliveryInv'
    BY <1>2, <2>3, AgentStepsKeepDelivery, ActivateKeepsDelivery, Zenon DEF FetchNext
  <2>4. ASSUME NEW e \in Edges, RestartAgent(e) PROVE DeliveryInv'
    BY <1>2, <2>4, RestartKeepsDelivery, Zenon
  <2>5. CASE (\E e \in Edges : Forward(e) \/ Break(e)) \/ UNCHANGED vars
    <3>1. revision \in Nat
      BY <1>2, Zenon DEF StoreInv, CPTypeOK
    <3> QED
      BY <1>2, <2>5, <3>1, QuietSteps, HandlersKeepDelivery
  <2>6. CASE Crash
    BY <1>2, <2>6, CrashKeepsDelivery, Zenon
  <2> QED
    BY <1>2, <2>1, <2>2, <2>3, <2>4, <2>5, <2>6, Zenon DEF Next
<1> QED
  BY <1>1, <1>2, Zenon

\* Until the control plane restarts, no edge runs, or is about to run, a
\* revision that was not published (get_config, fetch_and_apply).
THEOREM EdgesNeverAhead == Spec => []EdgeNeverAhead
<1>1. DeliveryInv => EdgeNeverAhead
  BY Zenon DEF DeliveryInv
<1> QED
  BY <1>1, StoreInductive, DeliveryInductive, PTL DEF Spec
=============================================================================
