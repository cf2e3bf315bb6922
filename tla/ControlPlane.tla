---------------------------- MODULE ControlPlane ----------------------------
(***************************************************************************)
(* The control plane's configuration store and its change stream           *)
(* (gateway-control-plane/src/main.rs and store.rs), in the deployment     *)
(* with Postgres.  Handlers run concurrently on the Actix workers, so a    *)
(* handler is cut at every await, at every lock and between two atomics;   *)
(* request[q] is the program counter of admin request slot q.              *)
(*                                                                         *)
(* A configuration snapshot is an element of Configs: its version and its  *)
(* contents are one value.  Authentication, the admin rate limit, schema   *)
(* validation and dry runs return before any state changes and are the     *)
(* requests that are never issued here.                                    *)
(***************************************************************************)
EXTENDS Lists

CONSTANTS
  Configs,       \* configuration snapshots
  Seed,          \* the one conf.d yields
  Requests,      \* admin requests that can be in flight at once
  Edges,         \* edges, one change stream each
  HistoryLimit,  \* CONFIG_HISTORY_LIMIT
  RingCap,       \* EVENT_RING_CAP
  ChannelCap,    \* capacity of the broadcast channel
  MaxMutations,  \* bound: admin requests issued in a behaviour
  MaxCrashes,    \* bound: control-plane restarts
  MaxDbFaults,   \* bound: failed Postgres statements
  MaxBreaks      \* bound: broken streams

ASSUME SeedAssumption == Seed \in Configs
ASSUME BoundsAssumption ==
  /\ HistoryLimit \in Nat /\ HistoryLimit > 0
  /\ RingCap \in Nat /\ RingCap > 0
  /\ ChannelCap \in Nat /\ ChannelCap > 0
  /\ MaxMutations \in Nat /\ MaxCrashes \in Nat
  /\ MaxDbFaults \in Nat /\ MaxBreaks \in Nat

NoRequest == "no request"
ASSUME NoRequestAssumption == NoRequest \notin Requests

VARIABLES
  live,       \* AppState.live, the ArcSwap every GET /config reads
  history,    \* ConfigStore.history, oldest first
  storeLock,  \* the request holding the ConfigStore mutex across steps
  revision,   \* AppState.revision
  ring,       \* AppState.events: revisions of the retained events
  rows,       \* the Postgres revision table, in id order
  request,    \* admin handlers
  conn,       \* conn[e]: the change stream of edge e, seen by its handler
  rx,         \* rx[e]: its broadcast receiver
  lagged,     \* lagged[e]: the receiver was overrun
  wire,       \* wire[e]: frames sent and not read by the edge
  mutations, crashes, dbFaults, breaks

cpVars == <<live, history, storeLock, revision, ring, rows, request,
            conn, rx, lagged, wire, mutations, crashes, dbFaults, breaks>>
configVars == <<live, history, storeLock, revision, ring, rows, request,
                mutations, crashes, dbFaults>>
streamVars == <<conn, rx, lagged, wire, breaks>>

Idle == [pc |-> "idle", kind |-> "none", cfg |-> Seed, rev |-> 0]

Changed(r) == [event |-> "config_changed", rev |-> r]
Stale == [event |-> "config_stale", rev |-> 0]
Frames == [event : {"config_changed", "config_stale"}, rev : Nat]

RequestRecords ==
  [pc : {"idle", "activate", "store", "bump", "ring", "send", "record"},
   kind : {"none", "post", "rollback"}, cfg : Configs, rev : Nat]

-----------------------------------------------------------------------------
(* ConfigStore and the event ring *)

\* The newest n elements of s, all of them if there are fewer.
Newest(s, n) == IF Len(s) <= n THEN s ELSE SubSeq(s, Len(s) - n + 1, Len(s))

LastOf(s) == s[Len(s)]

\* Mutant: the history is not trimmed.
PushUntrimmed(h, c) == Append(h, c)

\* ConfigStore::push drops one entry when the limit is passed.
Push(h, c) == IF Len(h) + 1 > HistoryLimit THEN Tail(Append(h, c)) ELSE Append(h, c)

\* ConfigStore::pop keeps the last entry.
Pop(h) == IF Len(h) > 1 THEN SubSeq(h, 1, Len(h) - 1) ELSE h

NewerThan(s, r) == Only(s, {x \in ListOf(s) : x > r})

\* Mutant: an evicted gap is taken for "nothing missed".
SelectMissedGap(s, lastId) ==
  IF s = <<>> THEN [missed |-> <<>>, stale |-> lastId > 0]
  ELSE IF lastId >= LastOf(s) \/ (lastId > 0 /\ lastId + 1 < Head(s))
       THEN [missed |-> <<>>, stale |-> FALSE]
       ELSE [missed |-> NewerThan(s, lastId), stale |-> FALSE]

\* select_missed_events: [missed, stale].  The ring holds revisions.
SelectMissed(s, lastId) ==
  IF s = <<>> THEN [missed |-> <<>>, stale |-> lastId > 0]
  ELSE IF lastId >= LastOf(s) THEN [missed |-> <<>>, stale |-> FALSE]
  ELSE IF lastId > 0 /\ lastId + 1 < Head(s) THEN [missed |-> <<>>, stale |-> TRUE]
  ELSE LET newer == NewerThan(s, lastId)
       IN  [missed |-> SubSeq(newer, 1, IF Len(newer) > RingCap THEN RingCap ELSE Len(newer)),
            stale  |-> Len(newer) > RingCap]

-----------------------------------------------------------------------------
(* Admin requests *)

Goto(q, label) == request' = [request EXCEPT ![q].pc = label]

\* A failed INSERT is reported as an error whether or not Postgres committed it.
RecordFails(c) ==
  /\ dbFaults < MaxDbFaults
  /\ dbFaults' = dbFaults + 1
  /\ rows' \in {rows, Append(rows, c)}

Arrives(q) ==
  /\ request[q].pc = "idle"
  /\ mutations < MaxMutations
  /\ mutations' = mutations + 1

\* post_config up to the durable write.
PostRecord(q, c) ==
  /\ Arrives(q)
  /\ rows' = Append(rows, c)
  /\ request' = [request EXCEPT ![q] = [pc |-> "activate", kind |-> "post", cfg |-> c, rev |-> 0]]
  /\ UNCHANGED <<live, history, storeLock, revision, ring, crashes, dbFaults, streamVars>>

\* Mutant: a failed durable write is logged and the snapshot activated anyway.
PostBestEffort(q, c) ==
  /\ Arrives(q)
  /\ RecordFails(c)
  /\ request' = [request EXCEPT ![q] = [pc |-> "activate", kind |-> "post", cfg |-> c, rev |-> 0]]
  /\ UNCHANGED <<live, history, storeLock, revision, ring, crashes, streamVars>>

\* post_config answers 503 when the durable write fails.
PostRejected(q, c) ==
  /\ Arrives(q)
  /\ RecordFails(c)
  /\ UNCHANGED <<live, history, storeLock, revision, ring, request, crashes, streamVars>>

\* post_config takes the store lock, pushes and swaps the live snapshot; the
\* lock is held until publish_revision returns.
PostActivate(q) ==
  /\ request[q].pc = "activate"
  /\ storeLock = NoRequest
  /\ storeLock' = q
  /\ history' = Push(history, request[q].cfg)
  /\ live' = request[q].cfg
  /\ Goto(q, "bump")
  /\ UNCHANGED <<revision, ring, rows, mutations, crashes, dbFaults, streamVars>>

\* rollback_config: pop under the lock, which is released at once.
RollbackPop(q) ==
  /\ Arrives(q)
  /\ storeLock = NoRequest
  /\ history' = Pop(history)
  /\ request' = [request EXCEPT ![q] =
       [pc |-> "store", kind |-> "rollback", cfg |-> LastOf(Pop(history)), rev |-> 0]]
  /\ UNCHANGED <<live, storeLock, revision, ring, rows, crashes, dbFaults, streamVars>>

\* rollback_config swaps the live snapshot outside the lock.
RollbackStore(q) ==
  /\ request[q].pc = "store"
  /\ live' = request[q].cfg
  /\ Goto(q, "bump")
  /\ UNCHANGED <<history, storeLock, revision, ring, rows, mutations, crashes, dbFaults, streamVars>>

\* rollback_config records the rollback it has already published.
RollbackRecord(q) ==
  /\ request[q].pc = "record"
  /\ rows' = Append(rows, request[q].cfg)
  /\ request' = [request EXCEPT ![q] = Idle]
  /\ UNCHANGED <<live, history, storeLock, revision, ring, mutations, crashes, dbFaults, streamVars>>

\* rollback_config answers 503 when that record cannot be written.
RollbackRejected(q) ==
  /\ request[q].pc = "record"
  /\ RecordFails(request[q].cfg)
  /\ request' = [request EXCEPT ![q] = Idle]
  /\ UNCHANGED <<live, history, storeLock, revision, ring, mutations, crashes, streamVars>>

-----------------------------------------------------------------------------
(* publish_revision: three steps no lock joins *)

\* Mutant: a rollback takes the revision back with the snapshot.
PublishUnbump(q) ==
  LET r == IF request[q].kind = "rollback" /\ revision > 1 THEN revision - 1 ELSE revision + 1 IN
  /\ request[q].pc = "bump"
  /\ revision' = r
  /\ request' = [request EXCEPT ![q] =
       [pc |-> "ring", kind |-> @.kind, cfg |-> @.cfg, rev |-> r]]
  /\ UNCHANGED <<live, history, storeLock, ring, rows, mutations, crashes, dbFaults, streamVars>>

PublishBump(q) ==
  /\ request[q].pc = "bump"
  /\ revision' = revision + 1
  /\ request' = [request EXCEPT ![q] =
       [pc |-> "ring", kind |-> @.kind, cfg |-> @.cfg, rev |-> revision + 1]]
  /\ UNCHANGED <<live, history, storeLock, ring, rows, mutations, crashes, dbFaults, streamVars>>

PublishRing(q) ==
  /\ request[q].pc = "ring"
  /\ ring' = Newest(Append(ring, request[q].rev), RingCap)
  /\ Goto(q, "send")
  /\ UNCHANGED <<live, history, storeLock, revision, rows, mutations, crashes, dbFaults, streamVars>>

\* Streams with a broadcast receiver: from Subscribe on.
Subscribers == {e \in Edges : conn[e] \in {"subscribed", "open"}}

\* The fanout.  A receiver that is ChannelCap behind loses its oldest event.
\* post_config then drops the store lock and answers.
PublishSend(q) ==
  LET r == request[q].rev IN
  /\ request[q].pc = "send"
  /\ rx' = [e \in Edges |-> IF e \in Subscribers THEN Newest(Append(rx[e], r), ChannelCap) ELSE rx[e]]
  /\ lagged' = [e \in Edges |-> lagged[e] \/ (e \in Subscribers /\ Len(rx[e]) = ChannelCap)]
  /\ IF request[q].kind = "post"
       THEN /\ storeLock' = NoRequest
            /\ request' = [request EXCEPT ![q] = Idle]
       ELSE /\ Goto(q, "record")
            /\ UNCHANGED storeLock
  /\ UNCHANGED <<live, history, revision, ring, rows, conn, wire, mutations, crashes, dbFaults, breaks>>

-----------------------------------------------------------------------------
(* config_stream *)

Disconnected(e) ==
  /\ rx' = [rx EXCEPT ![e] = <<>>]
  /\ lagged' = [lagged EXCEPT ![e] = FALSE]

\* The handler subscribes to the fanout before it looks at the ring.
Subscribe(e) ==
  /\ conn[e] = "none"
  /\ conn' = [conn EXCEPT ![e] = "subscribed"]
  /\ UNCHANGED <<configVars, rx, lagged, wire, breaks>>

\* It then replays what the ring has after Last-Event-ID.
Replay(e, lastId) ==
  LET sel == SelectMissed(ring, lastId)
      stale == IF sel.stale THEN <<Stale>> ELSE <<>>
  IN
  /\ conn[e] = "subscribed"
  /\ conn' = [conn EXCEPT ![e] = "open"]
  /\ wire' = [wire EXCEPT ![e] = stale \o [i \in 1 .. Len(sel.missed) |-> Changed(sel.missed[i])]]
  /\ UNCHANGED <<configVars, rx, lagged, breaks>>

\* The pump task forwards one broadcast event, or the fact that it lagged.
Pump(e) ==
  /\ conn[e] = "open"
  /\ \/ /\ lagged[e]
        /\ lagged' = [lagged EXCEPT ![e] = FALSE]
        /\ wire' = [wire EXCEPT ![e] = Append(@, Stale)]
        /\ UNCHANGED rx
     \/ /\ ~ lagged[e] /\ rx[e] # <<>>
        /\ rx' = [rx EXCEPT ![e] = Tail(@)]
        /\ wire' = [wire EXCEPT ![e] = Append(@, Changed(Head(rx[e])))]
        /\ UNCHANGED lagged
  /\ UNCHANGED <<configVars, conn, breaks>>

\* The connection drops.  What was sent may still be read, see Hangup.
StreamBreaks(e) ==
  /\ conn[e] \in {"subscribed", "open"}
  /\ breaks < MaxBreaks
  /\ breaks' = breaks + 1
  /\ conn' = [conn EXCEPT ![e] = "closed"]
  /\ Disconnected(e)
  /\ UNCHANGED <<configVars, wire>>

\* The edge's side of the connection is gone, unread frames with it.
Hangup(e) ==
  /\ conn' = [conn EXCEPT ![e] = "none"]
  /\ wire' = [wire EXCEPT ![e] = <<>>]
  /\ Disconnected(e)
  /\ UNCHANGED <<configVars, breaks>>

\* The edge takes the next frame off the connection.
Deliver(e) ==
  /\ wire[e] # <<>>
  /\ wire' = [wire EXCEPT ![e] = Tail(@)]
  /\ UNCHANGED <<configVars, conn, rx, lagged, breaks>>

-----------------------------------------------------------------------------
(* Restart *)

\* Mutant: the index of the newest entry, not the number of entries.
SeedFromIndex(h) == Len(h) - 1

SeedRevision(h) == IF Len(h) > 1 THEN Len(h) ELSE 1

\* main after a crash: rebuild_initial_state, then the revision and the ring
\* seeded from the length of the rebuilt history.
Boot(h) ==
  /\ history' = h
  /\ live' = LastOf(h)
  /\ revision' = SeedRevision(h)
  /\ ring' = <<SeedRevision(h)>>
  /\ storeLock' = NoRequest
  /\ request' = [q \in Requests |-> Idle]
  /\ rx' = [e \in Edges |-> <<>>]
  /\ lagged' = [e \in Edges |-> FALSE]
  /\ conn' = [e \in Edges |-> IF conn[e] = "none" THEN "none" ELSE "closed"]
  /\ crashes < MaxCrashes
  /\ crashes' = crashes + 1
  /\ UNCHANGED <<wire, mutations, breaks>>

\* The durable revisions can be read.
RestartFromRows ==
  /\ Boot(Newest(rows, HistoryLimit))
  /\ UNCHANGED <<rows, dbFaults>>

\* The read failed: conf.d, recorded as a new seed row if that write succeeds.
RestartFromSeed ==
  /\ Boot(<<Seed>>)
  /\ rows' \in {rows, Append(rows, Seed)}
  /\ dbFaults < MaxDbFaults
  /\ dbFaults' = dbFaults + 1

-----------------------------------------------------------------------------
\* After the first boot on an empty table.
CPInit ==
  /\ live = Seed
  /\ history = <<Seed>>
  /\ storeLock = NoRequest
  /\ revision = 1
  /\ ring = <<1>>
  /\ rows = <<Seed>>
  /\ request = [q \in Requests |-> Idle]
  /\ conn = [e \in Edges |-> "none"]
  /\ rx = [e \in Edges |-> <<>>]
  /\ lagged = [e \in Edges |-> FALSE]
  /\ wire = [e \in Edges |-> <<>>]
  /\ mutations = 0 /\ crashes = 0 /\ dbFaults = 0 /\ breaks = 0

Admin(q) == (\E c \in Configs : PostRecord(q, c)) \/ RollbackPop(q)

Rejected(q) == (\E c \in Configs : PostRejected(q, c)) \/ RollbackRejected(q)

\* What a request that was accepted still has to do.
Handler(q) ==
  \/ PostActivate(q)
  \/ RollbackStore(q)
  \/ PublishBump(q)
  \/ PublishRing(q)
  \/ PublishSend(q)
  \/ RollbackRecord(q)

CPTypeOK ==
  /\ live \in Configs
  /\ history \in Seq(Configs)
  /\ storeLock \in Requests \cup {NoRequest}
  /\ revision \in Nat /\ revision > 0
  /\ rows \in Seq(Configs)
  /\ request \in [Requests -> RequestRecords]
  /\ mutations \in 0 .. MaxMutations
  /\ crashes \in 0 .. MaxCrashes
  /\ dbFaults \in 0 .. MaxDbFaults

StreamTypeOK ==
  /\ ring \in Seq(Nat)
  /\ conn \in [Edges -> {"none", "subscribed", "open", "closed"}]
  /\ rx \in [Edges -> Seq(Nat)]
  /\ lagged \in [Edges -> BOOLEAN]
  /\ wire \in [Edges -> Seq(Frames)]
  /\ breaks \in 0 .. MaxBreaks
=============================================================================
