--------------------------- MODULE SessionProofs ----------------------------
(***************************************************************************)
(* The steps of the session handlers that sign a pair, every step of a     *)
(* handler from what it does to the stored state, to the request and to    *)
(* what the others rely on, and the theorems.                              *)
(***************************************************************************)
EXTENDS RequestProofs

-----------------------------------------------------------------------------
(* New token pairs *)

\* The columns that a new pair changes.
Pair(q, j) == [refreshTokens |-> q, activeAccessJtis |-> j]

\* The new pair is issued with the document's version and is the last of the
\* row's sessions.
Signs(v) ==
  /\ issued' \in Seq(Nat) /\ Len(issued') = Len(issued) + 1 /\ Grows
  /\ issued'[Len(issued) + 1] = v.doc.values.tokenVersion
  /\ \A i \in 1 .. Len(issued) : issued'[i] = issued[i]
  /\ UNCHANGED <<floor, minted, mailed, spent, ended>>

\* Why a session leaves the list when pair n is stored: it is the one that the
\* pair replaces, or the oldest of a full list.
Swapped(q, n, token) ==
  /\ ListOf(q) \subseteq ListOf(row.refreshTokens) \cup {n}
  /\ \A x \in ListOf(row.refreshTokens) \ ListOf(q) :
       x = token \/ (Len(row.refreshTokens) = MAX_REFRESH /\ x = Head(row.refreshTokens))

\* The row with the new pair of the request v.
Recorded(v) ==
  /\ RowFits(row)' /\ row' # None /\ Len(issued) + 1 \in ListOf(row'.refreshTokens)
  /\ Swapped(row'.refreshTokens, Len(issued) + 1, v.token)
  /\ row'.tokenVersion = row.tokenVersion
  /\ row'.emailVerificationToken = row.emailVerificationToken
  /\ row'.passwordResetToken = row.passwordResetToken

\* The request after it.
Signed(t, v, w) ==
  /\ Turned(t) /\ Same(v, w, {"pc", "pair", "doc"}) /\ v.pc \in {"persist", "rotate"}
  /\ w.pc = "publish" /\ w.pair = Len(issued) + 1
  /\ w.doc = [values |-> [tokenVersion |-> v.doc.values.tokenVersion], modified |-> {}]

\* What $push with $slice leaves: the new element, and the old ones but for
\* the first of a full list.
Pushed(q, T, s, e, n) ==
  /\ q \in Seq(T) /\ Len(q) <= n
  /\ e \in ListOf(q) /\ ListOf(q) \subseteq ListOf(s) \cup {e}
  /\ \A x \in ListOf(s) \ ListOf(q) : Len(s) = n /\ x = Head(s)

\* persistSessionTokens and rotateSessionTokens.
LEMMA SignSteps ==
  \A t \in Tabs : \A v, w, kind, maker :
    StoreInv /\ Turns(t, v, w) /\ Sound(kind, maker, t, v) /\ (Persist(t) \/ Rotate(t))
    => Signs(v) /\ Recorded(v) /\ Signed(t, v, w)
  \* Pushing onto a list within its cap.
  <1>PushFacts.
    ASSUME NEW T, NEW s \in Seq(T), NEW e \in T, NEW n \in Nat, n >= 1, Len(s) <= n
    PROVE  Pushed(Push(s, e, n), T, s, e, n)
    <2>. USE <1>PushFacts
    <2>. DEFINE a == Append(s, e)
    <2>1. /\ a \in Seq(T) /\ Len(a) = Len(s) + 1 /\ Len(s) \in Nat /\ a[Len(s) + 1] = e
          /\ \A i \in 1 .. Len(s) : a[i] = s[i]
      OBVIOUS
    <2>2. CASE Len(s) < n
      <3>1. Push(s, e, n) = a
        BY <2>1, <2>2 DEF Push, KeepLast
      <3>2. e \in ListOf(a) /\ ListOf(a) \subseteq ListOf(s) \cup {e} /\ ListOf(s) \subseteq ListOf(a)
        <4>. HIDE DEF a
        <4>. QED BY <2>1, SMTT(30) DEF ListOf
      <3>. QED BY <2>1, <2>2, <3>1, <3>2, SMTT(30) DEF Pushed
    <2>3. CASE Len(s) = n
      <3>. DEFINE q == SubSeq(a, 2, Len(a))
      <3>1. Push(s, e, n) = q
        BY <2>1, <2>3 DEF Push, KeepLast
      <3>. HIDE DEF a
      <3>2. q \in Seq(T) /\ Len(q) = n /\ \A i \in 1 .. n : q[i] = a[i + 1]
        BY <2>1, <2>3
      <3>. HIDE DEF q
      <3>3. q[n] = e /\ \A i \in 1 .. n : i # n => q[i] = s[i + 1]
        BY <2>1, <2>3, <3>2
      <3>4. e \in ListOf(q) /\ ListOf(q) \subseteq ListOf(s) \cup {e}
        BY <2>1, <2>3, <3>2, <3>3, SMTT(30) DEF ListOf
      <3>5. ASSUME NEW x \in ListOf(s), x \notin ListOf(q)
            PROVE  x = s[1]
        <4>1. PICK i \in 1 .. n : x = s[i]
          BY <2>3, Zenon DEF ListOf
        <4>2. CASE i # 1
          <5>1. i - 1 \in 1 .. n /\ i - 1 # n /\ (i - 1) + 1 = i
            BY <4>1, <4>2
          <5>2. q[i - 1] = x
            BY <3>3, <4>1, <5>1, Zenon
          <5>. QED BY <3>2, <3>5, <5>1, <5>2, Zenon DEF ListOf
        <4>. QED BY <4>1, <4>2, Zenon
      <3>6. s[1] = Head(s)
        BY <2>3
      <3>. QED BY <2>3, <3>1, <3>2, <3>4, <3>5, <3>6, Zenon DEF Pushed
    <2>. QED BY <2>1, <2>2, <2>3, SMTT(30)
  \* The row with them is a row.
  <1>PairRow.
    ASSUME NEW r, r \in Rows, DOMAIN r = RowFields, NEW q \in Seq(Nat), NEW j \in Seq(Nat),
           NEW s, s = SetFields(r, Pair(q, j))
    PROVE  /\ s \in Rows /\ DOMAIN s = RowFields /\ s.refreshTokens = q /\ s.activeAccessJtis = j
           /\ \A x \in RowFields \ {"refreshTokens", "activeAccessJtis"} : s[x] = r[x]
    <2>. USE <1>PairRow
    <2>. DEFINE f == Pair(q, j)
    <2>1. DOMAIN f = {"refreshTokens", "activeAccessJtis"} /\ f.refreshTokens = q
          /\ f.activeAccessJtis = j
      BY Zenon DEF Pair
    <2>. HIDE DEF f
    <2>2. s = [x \in RowFields |-> IF x \in DOMAIN f THEN f[x] ELSE r[x]]
      BY Zenon DEF SetFields, f
    <2>3. /\ s.refreshTokens = q /\ s.activeAccessJtis = j
          /\ \A x \in RowFields \ {"refreshTokens", "activeAccessJtis"} : s[x] = r[x]
      BY <2>1, <2>2, Zenon DEF RowFields
    <2>4. /\ s.provider = r.provider /\ s.password = r.password
             /\ s.isEmailVerified = r.isEmailVerified
          /\ s.emailVerificationToken = r.emailVerificationToken
          /\ s.passwordResetToken = r.passwordResetToken /\ s.tokenVersion = r.tokenVersion
      BY <2>3, Zenon DEF RowFields
    <2>5. s \in Rows
      BY <2>2, <2>3, <2>4, Zenon DEF Rows, RowFields
    <2>. QED BY <2>2, <2>3, <2>5, Zenon
  \* The lists that hold it fit.
  <1>PairFits.
    ASSUME StoreInv, row # None, NEW v, Signs(v), NEW n, n = Len(issued) + 1, NEW q, NEW j,
           j = Push(row.activeAccessJtis, n, MAX_JTIS),
           \/ q = Push(row.refreshTokens, n, MAX_REFRESH)
           \/ v.token \in 1 .. Len(issued)
              /\ q = PushThenPull(row.refreshTokens, n, MAX_REFRESH, v.token)
    PROVE  /\ q \in FieldSets'.refreshTokens /\ j \in FieldSets'.activeAccessJtis
           /\ n \in ListOf(q) /\ q \in Seq(Nat) /\ j \in Seq(Nat) /\ Swapped(q, n, v.token)
    <2>. USE <1>PairFits
    <2>. DEFINE T == 1 .. n
                old == row.refreshTokens
                p == Push(old, n, MAX_REFRESH)
    <2>0. /\ n \in Nat /\ n \in T /\ Len(issued') = n /\ ended' = ended
             /\ ended \subseteq 1 .. Len(issued)
          /\ Len(issued) \in Nat
      BY DEF StoreInv, Signs
    <2>1. /\ old \in Seq(1 .. Len(issued)) /\ Len(old) <= MAX_REFRESH /\ ListOf(old) \cap ended = {}
          /\ row.activeAccessJtis \in Seq(Nat) /\ Len(row.activeAccessJtis) <= MAX_JTIS
      BY RowFacts, Zenon DEF StoreInv
    <2>2. old \in Seq(T)
      <3>1. 1 .. Len(issued) \subseteq T
        BY <2>0
      <3>. QED BY <2>1, <3>1, WiderSeq, Zenon
    <2>. HIDE DEF T, old
    <2>3. Pushed(p, T, old, n, MAX_REFRESH)
      <3>1. MAX_REFRESH \in Nat /\ MAX_REFRESH >= 1
        BY CapAssumption
      <3>. QED BY <2>0, <2>1, <2>2, <3>1, <1>PushFacts, SMTT(30)
    <2>4. Pushed(j, Nat, row.activeAccessJtis, n, MAX_JTIS)
      <3>1. MAX_JTIS \in Nat /\ MAX_JTIS >= 1
        BY CapAssumption
      <3>. QED BY <2>0, <2>1, <3>1, <1>PushFacts, ZenonT(30)
    <2>. HIDE DEF p
    <2>5. p \in Seq(T) /\ Len(p) <= MAX_REFRESH /\ n \in ListOf(p)
          /\ ListOf(p) \subseteq ListOf(old) \cup {n}
          /\ \A x \in ListOf(old) \ ListOf(p) : Len(old) = MAX_REFRESH /\ x = Head(old)
      BY <2>3, Zenon DEF Pushed
    <2>6. q \in Seq(T) /\ Len(q) <= MAX_REFRESH /\ n \in ListOf(q)
          /\ ListOf(q) \subseteq ListOf(old) \cup {n}
          /\ ListOf(p) \ ListOf(q) \subseteq {v.token}
      <3>1. CASE q = p
        BY <2>5, <3>1, Zenon
      <3>2. CASE v.token \in 1 .. Len(issued) /\ q = Pull(p, v.token)
        <4>1. n # v.token
          BY <2>0, <3>2
        <4>2. q \in Seq(T) /\ Len(q) <= Len(p) /\ ListOf(q) = ListOf(p) \ {v.token}
          BY <2>5, <3>2, PullFacts, Zenon
        <4>3. Len(q) <= MAX_REFRESH
          BY <2>5, <4>2, CapAssumption
        <4>. QED BY <2>5, <4>1, <4>2, <4>3, Zenon
      <3>. QED BY <3>1, <3>2, Zenon DEF PushThenPull, p, old
    <2>7. ListOf(q) \cap ended' = {}
      <3>1. n \notin ended
        BY <2>0
      <3>. QED BY <2>0, <2>1, <2>6, <3>1, Zenon
    <2>8. q \in Seq(1 .. Len(issued'))
      BY <2>0, <2>6, Zenon DEF T
    <2>9. q \in FieldSets'.refreshTokens
      BY <2>6, <2>7, <2>8, Zenon DEF FieldSets
    <2>10. j \in Seq(Nat) /\ Len(j) <= MAX_JTIS
      BY <2>4, Zenon DEF Pushed
    <2>11. j \in FieldSets'.activeAccessJtis
      BY <2>10, Zenon DEF FieldSets
    <2>12. q \in Seq(Nat)
      <3>1. T \subseteq Nat
        BY <2>0 DEF T
      <3>2. Seq(T) \subseteq Seq(Nat)
        BY <3>1, WiderSeq, Zenon
      <3>. QED BY <2>6, <3>2, Zenon
    <2>13. Swapped(q, n, v.token)
      BY <2>5, <2>6, Zenon DEF Swapped, old
    <2>. QED BY <2>6, <2>9, <2>10, <2>11, <2>12, <2>13, SMTT(30)
  \* Storing the lists with the new pair records it.
  <1>PairRecorded.
    ASSUME StoreInv, row # None, NEW v, Signs(v), NEW n, n = Len(issued) + 1, NEW q, NEW j,
           row' = SetFields(row, Pair(q, j)),
           j = Push(row.activeAccessJtis, n, MAX_JTIS),
           \/ q = Push(row.refreshTokens, n, MAX_REFRESH)
           \/ v.token \in 1 .. Len(issued)
              /\ q = PushThenPull(row.refreshTokens, n, MAX_REFRESH, v.token)
    PROVE  Recorded(v)
    <2>. USE <1>PairRecorded
    <2>1. /\ q \in FieldSets'.refreshTokens /\ j \in FieldSets'.activeAccessJtis
          /\ n \in ListOf(q) /\ q \in Seq(Nat) /\ j \in Seq(Nat) /\ Swapped(q, n, v.token)
      BY <1>PairFits, Zenon
    <2>2. row \in Rows /\ DOMAIN row = RowFields /\ Fits(row)
      BY Zenon DEF StoreInv, RowFits
    <2>3. /\ row' \in Rows /\ DOMAIN row' = RowFields /\ row'.refreshTokens = q
             /\ row'.activeAccessJtis = j
          /\ \A x \in RowFields \ {"refreshTokens", "activeAccessJtis"} : row'[x] = row[x]
      BY <2>1, <2>2, <1>PairRow
    <2>4. \A x \in RowFields : row[x] \in FieldSets'[x]
      <3>1. PICK r : r = row
        BY Zenon
      <3>2. Fits(r)'
        BY <2>2, <3>1, FitsGrows, Zenon DEF Signs
      <3>. QED BY <2>2, <3>1, <3>2, Zenon DEF Fits
    <2>5. \A x \in RowFields : row'[x] \in FieldSets'[x]
      BY <2>1, <2>3, <2>4
    <2>6. RowFits(row)'
      BY <2>3, <2>5, Zenon DEF RowFits, Fits
    <2>7. row' # None
      BY <2>3, NoneAssumption, Zenon
    <2>8. /\ row'.tokenVersion = row.tokenVersion
          /\ row'.emailVerificationToken = row.emailVerificationToken
          /\ row'.passwordResetToken = row.passwordResetToken
      BY <2>3, Zenon DEF RowFields
    <2>. QED BY <2>1, <2>3, <2>6, <2>7, <2>8, SMTT(30) DEF Recorded
  <1>1.
    ASSUME StoreInv, NEW t \in Tabs, NEW v, NEW w, Turns(t, v, w), NEW kind, NEW maker,
           Sound(kind, maker, t, v), Persist(t) \/ Rotate(t)
    PROVE  Signs(v) /\ Recorded(v) /\ Signed(t, v, w)
    <2>. USE <1>1
    <2>0. v = req[t] /\ Control(v) /\ DocOK(v)
      BY Zenon DEF Turns, Sound
    <2>. DEFINE tv == v.doc.values.tokenVersion
                d == [values |-> [tokenVersion |-> tv], modified |-> {}]
                g == [pc |-> "publish", pair |-> Len(issued) + 1, doc |-> d]
                q1 == Push(row.refreshTokens, Len(issued) + 1, MAX_REFRESH)
                q2 == PushThenPull(row.refreshTokens, Len(issued) + 1, MAX_REFRESH, v.token)
                j == Push(row.activeAccessJtis, Len(issued) + 1, MAX_JTIS)
    <2>1. /\ UNCHANGED <<floor, minted, mailed, spent, ended>> /\ issued' = Append(issued, tv)
             /\ Go(t, g)
          /\ \/ v.pc = "persist" /\ row' = SetFields(row, Pair(q1, j))
             \/ v.pc = "rotate" /\ row' = SetFields(row, Pair(q2, j))
      <3>1. CASE Persist(t)
        BY <2>0, <3>1, Zenon DEF Persist, At, Sign, NextPair, Doc, Version, Pair
      <3>2. CASE Rotate(t)
        BY <2>0, <3>2, Zenon DEF Rotate, At, Sign, NextPair, Doc, Version, Pair
      <3>. QED BY <3>1, <3>2, Zenon
    <2>2. row # None /\ "tokenVersion" \in DOMAIN v.doc.values /\ DocFits(v.doc)
      BY <2>0, <2>1, Zenon DEF DocOK, Loaded
    <2>3. tv \in Nat
      BY <2>2, Columns, Zenon DEF DocFits, Fits
    <2>. HIDE DEF tv
    <2>4. Signs(v)
      BY <2>1, <2>3 DEF Signs, Grows, StoreInv, tv
    <2>5. v.pc = "rotate" => v.token \in 1 .. Len(issued)
      BY <2>0, Zenon DEF Control, OnRoute
    <2>6. Recorded(v)
      <3>. HIDE DEF q1, q2, j, g, d
      <3>1. PICK n, j0, a, b : n = Len(issued) + 1 /\ j0 = j /\ a = q1 /\ b = q2
        BY Zenon
      <3>2. CASE v.pc = "persist"
        BY <2>1, <2>2, <2>4, <3>1, <3>2, <1>PairRecorded, ZenonT(30) DEF q1, j
      <3>3. CASE v.pc = "rotate"
        BY <2>1, <2>2, <2>4, <2>5, <3>1, <3>3, <1>PairRecorded, ZenonT(30) DEF q2, j
      <3>. QED BY <2>1, <3>2, <3>3, Zenon
    <2>. HIDE DEF d
    <2>7. /\ DOMAIN g = {"pc", "pair", "doc"} /\ g.pc = "publish" /\ g.pair = Len(issued) + 1
             /\ g.doc = d
          /\ DOMAIN g \subseteq Fields /\ DOMAIN v = Fields
      BY <2>0, Zenon DEF Fields, Control
    <2>. HIDE DEF g
    <2>8. Turned(t) /\ Same(v, w, {"pc", "pair", "doc"}) /\ \A x \in DOMAIN g : w[x] = g[x]
      BY <2>1, <2>7, GoFields
    <2>9. w.pc = "publish" /\ w.pair = Len(issued) + 1 /\ w.doc = d
      BY <2>7, <2>8, Zenon
    <2>10. v.pc \in {"persist", "rotate"}
      BY <2>1, Zenon
    <2>11. Signed(t, v, w)
      BY <2>8, <2>9, <2>10, Zenon DEF Signed, d, tv
    <2>. QED BY <2>4, <2>6, <2>11, Zenon
  <1>. QED BY <1>1, Zenon

\* The request with a new pair is sound.
LEMMA SignsSound ==
  ASSUME StoreInv, NEW t, NEW v, NEW w, NEW kind, NEW maker, Sound(kind, maker, t, v),
         Signs(v), Recorded(v), Signed(t, v, w)
  PROVE  Sound(kind, maker, t, w)'
  <1>0. Control(v) /\ DocOK(v) /\ (v.solo => Alone(v)) /\ Keeps(kind, maker, t, v)
    BY Zenon DEF Sound
  <1>. DEFINE n == Len(issued) + 1
              tv == v.doc.values.tokenVersion
  <1>1. /\ Grows /\ Len(issued') = n /\ issued'[n] = tv /\ floor' = floor /\ Len(issued) \in Nat
    BY DEF Signs, StoreInv
  <1>2. /\ w.op = v.op /\ w.token = v.token /\ w.isNew = v.isNew /\ DOMAIN w = Fields
        /\ w.code = v.code /\ w.then = v.then /\ w.solo = v.solo /\ w.stored = v.stored
    BY Zenon DEF Signed, Same, Fields
  <1>3. v.pc \in {"persist", "rotate"} /\ w.pc = "publish" /\ w.pair = n
    BY Zenon DEF Signed
  <1>4. v.op \in {"login", "verify", "callback", "refresh"} /\ OnRoute(w.op, w.pc)
    BY <1>0, <1>2, <1>3, Zenon DEF Control, OnRoute
  <1>5. /\ v.isNew \in BOOLEAN /\ ~ v.isNew /\ v.stored \in BOOLEAN /\ v.solo \in BOOLEAN
        /\ v.token \in {None} \cup 1 .. Len(issued) /\ PairOK(v.code) /\ PairOK(v.then)
        /\ v.op = "refresh" => v.token # None
        /\ v.op = "verify" => v.code.k = "form"
    BY <1>0, <1>3, Zenon DEF Control
  <1>6. PairOK(w.code)' /\ PairOK(w.then)' /\ w.token \in {None} \cup 1 .. Len(issued')
    BY <1>1, <1>2, <1>5 DEF PairOK
  <1>7. n \in 1 .. Len(issued') /\ n # None
    BY <1>1, NoneAssumption, SMTT(30)
  <1>. HIDE DEF n
  <1>8. Control(w)'
    BY <1>2, <1>3, <1>4, <1>5, <1>6, <1>7, SMTT(30) DEF Control
  <1>9. /\ w.doc.modified = {} /\ DOMAIN w.doc.values = {"tokenVersion"}
           /\ w.doc.values.tokenVersion = tv
    BY DEF Signed
  <1>10. /\ "tokenVersion" \in DOMAIN v.doc.values /\ DocFits(v.doc)
            /\ "tokenVersion" \notin v.doc.modified
    BY <1>0, <1>3, <1>4, Zenon DEF DocOK, Loaded, Resetting
  <1>11. DocFits(w.doc)'
    <2>1. tv \in Nat
      BY <1>10, Columns, Zenon DEF DocFits, Fits
    <2>2. tv \in FieldSets'.tokenVersion
      BY <2>1, Zenon DEF FieldSets
    <2>. QED BY <1>9, <2>2, Zenon DEF DocFits, Fits, RowFields
  <1>12. ~ Making(w) /\ ~ Resetting(w) /\ ~ Resetting(w)' /\ ~ Making(v)
    BY <1>2, <1>3, <1>4, Zenon DEF Making, Resetting
  <1>13. DocOK(w)'
    <2>1. row' # None
      BY Zenon DEF Recorded
    <2>. QED BY <1>2, <1>3, <1>4, <1>5, <1>9, <1>11, <1>12, <2>1, SMTT(30) DEF DocOK
  <1>14. Keeps(kind, maker, t, w)'
    <2>1. /\ Known(kind, maker, v.code) /\ Known(kind, maker, v.then)
          /\ v.op = "verify" => v.code.kind = "verify-email"
      BY <1>0, <1>12, Zenon DEF Keeps
    <2>2. Known(kind, maker, w.code)' /\ Known(kind, maker, w.then)'
      BY <1>1, <1>2, <2>1, KnownGrows, Zenon
    <2>. QED BY <1>2, <1>3, <1>4, <1>9, <1>12, <2>1, <2>2, KeepsClean, SMTT(30)
  <1>15. w.solo => Alone(w)'
    <2>1. v.solo => tv = row'.tokenVersion
      BY <1>0, <1>10, Zenon DEF Alone, Recorded
    <2>2. n \in Sessions'
      BY Zenon DEF Recorded, Sessions, n
    <2>. QED BY <1>1, <1>2, <1>3, <1>4, <1>9, <2>1, <2>2, SMTT(30) DEF Alone
  <1>. QED BY <1>8, <1>13, <1>14, <1>15, Zenon DEF Sound

-----------------------------------------------------------------------------
(* The store after each step *)

\* A row that fits still fits, and is a row, when pairs and secrets are added.
LEMMA RowGrows ==
  ASSUME StoreInv, Grows, NEW r, RowFits(r)
  PROVE  RowFits(r)'
  <1>1. Fits(r)'
    BY FitsGrows, Zenon DEF RowFits
  <1>. QED BY <1>1, Zenon DEF RowFits

\* A step that saves nothing: it may make a secret, and mail a link.
LEMMA QuietStore ==
  ASSUME StoreInv, NEW t, NEW kind, NEW maker, Secrets(kind, maker), NEW k, NEW m,
         Alike(t, kind, maker, k, m), UNCHANGED <<row, issued, spent, ended>>,
         minted' \in {minted, minted + 1},
         \A c \in mailed' : c \in mailed \/ (c.k = "link" /\ Known(kind, maker, c))
  PROVE  StoreInv' /\ Secrets(k, m)'
  <1>1. minted \in Nat /\ minted' \in Nat /\ minted <= minted' /\ Grows
    BY DEF StoreInv, Grows
  <1>2. StoreInv'
    <2>1. row' # None => RowFits(row)'
      <3>1. PICK r : r = row
        BY Zenon
      <3>2. row # None => RowFits(r)'
        BY <1>1, <3>1, RowGrows, Zenon DEF StoreInv
      <3>. QED BY <3>1, <3>2, Zenon DEF RowFits
    <2>. QED BY <1>1, <2>1, Zenon DEF StoreInv
  <1>3. \A c \in mailed' : Known(k, m, c)'
    <2>1. \A c \in mailed' : Known(kind, maker, c)
      BY Zenon DEF Secrets
    <2>. QED BY <1>1, <2>1, KnownAlike, Zenon
  <1>4. \A i \in 1 .. minted : i \in 1 .. minted' /\ (maker[i] = {} => m[i] = {}) /\ k[i] = kind[i]
    BY <1>1 DEF Alike
  <1>5. /\ \A s, p : Holds(kind, maker, s, p) => Holds(k, m, s, p)'
        /\ \A s \in spent : s \in 1 .. minted' /\ m[s] = {}
    BY <1>4, Zenon DEF Holds, Secrets
  <1>6. row' # None => /\ Holds(k, m, row.emailVerificationToken, "verify-email")'
                       /\ Holds(k, m, row.passwordResetToken, "reset-password")'
    <2>1. PICK a, b : a = row.emailVerificationToken /\ b = row.passwordResetToken
      BY Zenon
    <2>2. row # None => Holds(k, m, a, "verify-email")' /\ Holds(k, m, b, "reset-password")'
      BY <1>5, <2>1, Zenon DEF Secrets
    <2>. QED BY <2>1, <2>2, Zenon DEF Holds
  <1>. QED BY <1>2, <1>3, <1>5, <1>6, Zenon DEF Secrets

\* A step that records a new pair.
LEMMA SignStore ==
  ASSUME StoreInv, NEW kind, NEW maker, Secrets(kind, maker), NEW v, Signs(v), Recorded(v),
         row # None
  PROVE  StoreInv' /\ Secrets(kind, maker)'
  <1>1. /\ RowFits(row)' /\ row' # None /\ UNCHANGED <<minted, mailed, spent, ended>>
        /\ issued' \in Seq(Nat) /\ Len(issued') = Len(issued) + 1
        /\ row'.emailVerificationToken = row.emailVerificationToken
        /\ row'.passwordResetToken = row.passwordResetToken
    BY Zenon DEF Signs, Recorded
  <1>2. StoreInv'
    BY <1>1 DEF StoreInv
  <1>3. Secrets(kind, maker)'
    <2>1. Holds(kind, maker, row.emailVerificationToken, "verify-email")'
          /\ Holds(kind, maker, row.passwordResetToken, "reset-password")'
      BY <1>1, Zenon DEF Secrets, Holds
    <2>2. \A c \in mailed' : Known(kind, maker, c)'
      BY <1>1, Zenon DEF Secrets, Known
    <2>. QED BY <1>1, <2>1, <2>2, Zenon DEF Secrets
  <1>. QED BY <1>2, <1>3, Zenon

\* A save.
LEMMA SaveStore ==
  \A t, v, kind, maker, m :
    StoreInv /\ DOMAIN maker = Nat /\ Secrets(kind, maker) /\ Sound(kind, maker, t, v)
      /\ SavedBy(v) /\ Spends(v) /\ UNCHANGED <<issued, minted, mailed>>
      /\ (ended' = ended \/ (v.pc = "reset" /\ ended' = ended \cup Sessions))
      /\ m = Released(v, maker)
    => StoreInv' /\ Secrets(kind, m)' /\ DOMAIN m = Nat
       /\ \A i \in 1 .. minted : maker[i] # {t} => m[i] = maker[i]
  \* The row of a save fits, also when a reset ends every session.
  <1>SavedRow.
    ASSUME StoreInv, NEW v, SavedBy(v), UNCHANGED <<issued, minted>>,
           ended' = ended \/ (v.pc = "reset" /\ ended' = ended \cup Sessions)
    PROVE  RowFits(row)' /\ ended' \subseteq 1 .. Len(issued')
    <2>. USE <1>SavedRow
    <2>0. RowFits(row')
      BY Zenon DEF SavedBy
    <2>1. PICK r : r = row'
      BY Zenon
    <2>2. CASE ended' = ended
      <3>1. Grows
        BY <2>2 DEF Grows, StoreInv
      <3>2. RowFits(r)'
        BY <2>0, <2>1, <3>1, RowGrows, Zenon
      <3>. QED BY <2>1, <2>2, <3>2, Zenon DEF RowFits, StoreInv
    <2>3. CASE v.pc = "reset" /\ ended' = ended \cup Sessions
      <3>1. row'.refreshTokens = <<>>
        BY <2>3, Zenon DEF SavedBy
      <3>2. <<>> \in FieldSets'.refreshTokens
        BY CapAssumption DEF FieldSets, ListOf
      <3>3. \A x \in RowFields \ {"refreshTokens"} : FieldSets'[x] = FieldSets[x]
        <4>. DEFINE A == FieldSets
                    B == FieldSets'
        <4>1. /\ A.provider = B.provider /\ A.password = B.password
                 /\ A.isEmailVerified = B.isEmailVerified
              /\ A.tokenVersion = B.tokenVersion /\ A.activeAccessJtis = B.activeAccessJtis
              /\ A.emailVerificationToken = B.emailVerificationToken
              /\ A.passwordResetToken = B.passwordResetToken
          BY Zenon DEF FieldSets
        <4>. HIDE DEF A, B
        <4>2. \A x \in RowFields \ {"refreshTokens"} : B[x] = A[x]
          BY <4>1, Zenon DEF RowFields
        <4>. QED BY <4>2, Zenon DEF A, B
      <3>4. \A x \in RowFields : row'[x] \in FieldSets'[x]
        BY <2>0, <3>1, <3>2, <3>3, Zenon DEF RowFits, Fits
      <3>5. RowFits(row)'
        BY <2>0, <3>4, Zenon DEF RowFits, Fits
      <3>6. Sessions \subseteq 1 .. Len(issued)
        <4>1. row # None => row.refreshTokens \in Seq(1 .. Len(issued))
          BY RowFacts, Zenon DEF StoreInv
        <4>. QED BY <4>1 DEF Sessions, ListOf
      <3>. QED BY <2>3, <3>5, <3>6, Zenon DEF StoreInv
    <2>. QED BY <2>2, <2>3, Zenon
  \* The secret that a save uses up was known, and had the save's purpose.
  <1>SpendFacts.
    ASSUME NEW t, NEW v, NEW kind, NEW maker, Sound(kind, maker, t, v), Spends(v), spent' # spent
    PROVE  /\ spent' = spent \cup {v.code.secret} /\ ~ Making(v)
           /\ v.code.secret \in 1 .. minted /\ maker[v.code.secret] = {}
              /\ kind[v.code.secret] = v.code.kind
           /\ v.op \in {"verify", "reset"} /\ (v.op = "verify" => v.pc = "save")
           /\ v.code.kind = IF v.op = "verify" THEN "verify-email" ELSE "reset-password"
    <2>. USE <1>SpendFacts
    <2>0. Control(v) /\ Keeps(kind, maker, t, v)
      BY Zenon DEF Sound
    <2>1. /\ spent' = spent \cup {v.code.secret} /\ v.op \in {"verify", "reset"}
          /\ v.op = "verify" => v.pc = "save"
      BY Zenon DEF Spends
    <2>2. ~ Making(v) /\ v.code.k = "form"
      BY <2>0, <2>1, Zenon DEF Making, Control
    <2>3. Known(kind, maker, v.code)
          /\ v.code.kind = IF v.op = "verify" THEN "verify-email" ELSE "reset-password"
      BY <2>0, <2>1, <2>2, Zenon DEF Keeps
    <2>. QED BY <2>1, <2>2, <2>3, Zenon DEF Known
  \* The secret of a column after a save.
  <1>HoldsSaved.
    ASSUME NEW t, NEW v, NEW kind, NEW maker, NEW m, NEW p, NEW s, minted \in Nat, UNCHANGED minted,
           Keeps(kind, maker, t, v), \A i \in 1 .. minted : maker[i] = {} => m[i] = {},
           Making(v) => m[v.code.secret] = {},
           \A x \in spent : x \in 1 .. minted /\ maker[x] = {},
           \/ s = 0
           \/ Holds(kind, maker, s, p)
           \/ Making(v) /\ v.code.kind = p /\ s = v.code.secret,
           spent' = spent \/ (~ Making(v) /\ spent' = spent \cup {v.code.secret}
                                /\ (s = 0 \/ kind[v.code.secret] # p))
    PROVE  Holds(kind, m, s, p)'
    <2>. USE <1>HoldsSaved
    <2>1. CASE s = 0
      BY <2>1, Zenon DEF Holds
    <2>2. CASE s # 0 /\ Holds(kind, maker, s, p)
      BY <2>2, Zenon DEF Holds
    <2>3. CASE Making(v) /\ v.code.kind = p /\ s = v.code.secret
      BY <2>3, Zenon DEF Holds, Keeps
    <2>. QED BY <2>1, <2>2, <2>3, Zenon
  <1>1.
    ASSUME StoreInv, NEW t, NEW v, NEW kind, NEW maker, DOMAIN maker = Nat, Secrets(kind, maker),
           Sound(kind, maker, t, v), SavedBy(v), Spends(v), UNCHANGED <<issued, minted, mailed>>,
           ended' = ended \/ (v.pc = "reset" /\ ended' = ended \cup Sessions),
           NEW m, m = Released(v, maker)
    PROVE  StoreInv' /\ Secrets(kind, m)' /\ DOMAIN m = Nat
           /\ \A i \in 1 .. minted : maker[i] # {t} => m[i] = maker[i]
    <2>. USE <1>1
    <2>0. Keeps(kind, maker, t, v) /\ minted \in Nat /\ row' # None /\ Stores(v)
      BY Zenon DEF Sound, StoreInv, SavedBy
    <2>1. /\ DOMAIN m = Nat
          /\ \A i \in 1 .. minted : maker[i] = {} => m[i] = {}
          /\ \A i \in 1 .. minted : maker[i] # {t} => m[i] = maker[i]
          /\ Making(v) => m[v.code.secret] = {}
      BY <2>0, ReleaseFacts
    <2>2. StoreInv'
      BY <2>0, <1>SavedRow, Zenon DEF StoreInv
    <2>3. \A c \in mailed' : Known(kind, m, c)'
      BY <2>1, Zenon DEF Secrets, Known
    <2>4. \A x \in spent : x \in 1 .. minted /\ maker[x] = {}
      BY Zenon DEF Secrets
    <2>5. \A x \in spent' : x \in 1 .. minted' /\ m[x] = {}
      BY <2>1, <2>4, <1>SpendFacts
    <2>6. PICK a, b : a = row'.emailVerificationToken /\ b = row'.passwordResetToken
      BY Zenon
    <2>7. Holds(kind, m, a, "verify-email")'
      <3>1. \/ a = 0
            \/ Holds(kind, maker, a, "verify-email")
            \/ Making(v) /\ v.code.kind = "verify-email" /\ a = v.code.secret
        BY <2>0, <2>6, Zenon DEF Stores, Secrets
      <3>2. spent' = spent \/ (~ Making(v) /\ spent' = spent \cup {v.code.secret}
                                /\ (a = 0 \/ kind[v.code.secret] # "verify-email"))
        BY <2>0, <2>6, <1>SpendFacts, Zenon DEF Stores
      <3>. QED BY <2>0, <2>1, <2>4, <3>1, <3>2, <1>HoldsSaved, SMTT(30)
    <2>8. Holds(kind, m, b, "reset-password")'
      <3>1. \/ b = 0
            \/ Holds(kind, maker, b, "reset-password")
            \/ Making(v) /\ v.code.kind = "reset-password" /\ b = v.code.secret
        BY <2>0, <2>6, Zenon DEF Stores, Secrets
      <3>2. spent' = spent \/ (~ Making(v) /\ spent' = spent \cup {v.code.secret}
                                /\ (b = 0 \/ kind[v.code.secret] # "reset-password"))
        BY <2>0, <2>6, <1>SpendFacts, Zenon DEF Stores
      <3>. QED BY <2>0, <2>1, <2>4, <3>1, <3>2, <1>HoldsSaved, SMTT(30)
    <2>9. /\ Holds(kind, m, row.emailVerificationToken, "verify-email")'
          /\ Holds(kind, m, row.passwordResetToken, "reset-password")'
      BY <2>6, <2>7, <2>8, Zenon DEF Holds
    <2>. QED BY <2>1, <2>2, <2>3, <2>5, <2>9, ZenonT(30) DEF Secrets
  <1>. QED BY <1>1

-----------------------------------------------------------------------------
(* Every step of a handler *)

\* The steps that leave the row alone.
QuietStep(t) ==
  \/ RegisterFind(t) \/ ResendFind(t) \/ ForgotFind(t) \/ LoginFind(t) \/ VerifyFind(t)
  \/ FindUserForOAuth(t) \/ CreateForOAuth(t) \/ Sync(t)
  \/ SendVerificationEmail(t) \/ SendPasswordResetEmail(t) \/ MakePoll(t)
  \/ RedeemLink(t) \/ ConsumeFormToken(t) \/ ConsumeOAuthState(t)
  \/ ConsumeOAuthExchangeCode(t) \/ MakeForm(t) \/ Prepare(t) \/ MakeExchange(t)
  \/ Publish(t) \/ RefreshFind(t) \/ Recheck(t) \/ Kill(t) \/ ResetFind(t) \/ ReadBack(t)
  \/ LogoutFind(t)

\* Nothing of the store that the invariant is about changes, but for a new
\* secret or a mailed link.
Quiet(kind, maker) ==
  /\ UNCHANGED <<row, issued, spent, ended>> /\ minted' \in {minted, minted + 1}
  /\ \A c \in mailed' : c \in mailed \/ (c.k = "link" /\ Known(kind, maker, c))

\* Rows, pairs and secrets are only added.
Widens ==
  /\ minted' \in Nat /\ minted <= minted' /\ issued' \in Seq(Nat) /\ Len(issued) <= Len(issued')
  /\ row # None => row' # None

\* What a step of the server leaves.
Served(t, v, w, kind, maker, k, m) ==
  /\ StoreInv' /\ Secrets(k, m)' /\ Alike(t, kind, maker, k, m) /\ Widens
  /\ Turned(t) /\ Sound(k, m, t, w)' /\ (ended' = ended \/ v.solo) /\ (w.solo => v.solo)

\* Every step of the server.
LEMMA ServeServed ==
  \A t \in Tabs : \A v, w, kind, maker :
    StoreInv /\ Turns(t, v, w) /\ DOMAIN kind = Nat /\ DOMAIN maker = Nat
      /\ Secrets(kind, maker) /\ Sound(kind, maker, t, v) /\ Serve(t)
    => \E k, m : Served(t, v, w, kind, maker, k, m)
  \* The steps that save nothing.
  <1>QuietSteps.
    ASSUME NEW t, NEW kind, NEW maker, Sound(kind, maker, t, req[t]), QuietStep(t)
    PROVE  Quiet(kind, maker)
    <2>. USE <1>QuietSteps
    <2>. DEFINE Same2 == UNCHANGED <<row, issued, minted, mailed, spent, ended>>
    <2>0. ASSUME UNCHANGED <<row, issued, mailed, spent, ended>>, minted' \in {minted, minted + 1}
          PROVE  Quiet(kind, maker)
      BY <2>0, Zenon DEF Quiet
    <2>1. ASSUME Same2
          PROVE  Quiet(kind, maker)
      BY <2>0, <2>1, Zenon
    <2>2. CASE RegisterFind(t)
      BY <2>0, <2>2, Zenon DEF RegisterFind
    <2>3. CASE ResendFind(t)
      BY <2>0, <2>3, Zenon DEF ResendFind, MailSecret
    <2>4. CASE ForgotFind(t)
      BY <2>0, <2>4, Zenon DEF ForgotFind, MailSecret
    <2>5. CASE Prepare(t)
      BY <2>0, <2>5, Zenon DEF Prepare
    <2>6. CASE Sync(t) \/ Publish(t)
      BY <2>1, <2>6, Zenon DEF Sync, Publish
    <2>7. CASE LoginFind(t) \/ VerifyFind(t) \/ FindUserForOAuth(t) \/ CreateForOAuth(t)
      BY <2>1, <2>7, Zenon DEF LoginFind, VerifyFind, FindUserForOAuth, CreateForOAuth, serverVars
    <2>8. CASE MakePoll(t) \/ MakeForm(t) \/ MakeExchange(t)
      BY <2>1, <2>8, Zenon DEF MakePoll, MakeForm, MakeExchange, serverVars
    <2>9. CASE RedeemLink(t) \/ ConsumeFormToken(t) \/ ConsumeOAuthState(t)
               \/ ConsumeOAuthExchangeCode(t)
      <3>1. PICK after : Consume(t, after)
        BY <2>9, Zenon DEF RedeemLink, ConsumeFormToken, ConsumeOAuthState, ConsumeOAuthExchangeCode
      <3>. QED BY <2>1, <3>1, Zenon DEF Consume, serverVars
    <2>10. CASE RefreshFind(t) \/ Recheck(t) \/ Kill(t)
      BY <2>1, <2>10, Zenon DEF RefreshFind, Recheck, Kill, serverVars
    <2>11. CASE ResetFind(t) \/ ReadBack(t) \/ LogoutFind(t)
      BY <2>1, <2>11, ZenonT(30) DEF ResetFind, ReadBack, LogoutFind, serverVars
    <2>12. CASE SendVerificationEmail(t) \/ SendPasswordResetEmail(t)
      <3>1. At(t, "mail") /\ UNCHANGED <<row, issued, minted, spent, ended>>
        BY <2>12, Zenon DEF SendVerificationEmail, SendPasswordResetEmail, Mail
      <3>2. req[t].code.k = "link" /\ mailed' \subseteq mailed \cup {req[t].code}
        BY <2>12, Zenon DEF SendVerificationEmail, SendPasswordResetEmail, Mail, CreateEmailLinkCode
      <3>3. Known(kind, maker, req[t].code)
        BY <3>1, Zenon DEF Sound, Keeps, Making, At
      <3>. QED BY <3>1, <3>2, <3>3 DEF Quiet
    <2>. QED BY <2>2, <2>3, <2>4, <2>5, <2>6, <2>7, <2>8, <2>9, <2>10, <2>11, <2>12, Zenon DEF QuietStep
  \* A request that ends leaves its tab idle.
  <1>EndSound.
    ASSUME DOMAIN req = Tabs, NEW t \in Tabs, NEW w, w = req'[t], End(t), NEW k, NEW m
    PROVE  Turned(t) /\ Sound(k, m, t, w)' /\ ~ w.solo
    <2>. USE <1>EndSound
    <2>1. Turned(t) /\ w = Idle
      BY Zenon DEF End, Turned
    <2>2. ~ w.solo
      BY <2>1 DEF Idle
    <2>. QED BY <2>1, <2>2, IdleStays, Zenon
  \* A step that neither saves nor makes a secret.
  <1>QuietServed.
    ASSUME StoreInv, NEW t, NEW v, NEW w, NEW kind, NEW maker, DOMAIN kind = Nat, DOMAIN maker = Nat,
           Secrets(kind, maker), Quiet(kind, maker), Turned(t), Sound(kind, maker, t, w)', w.solo =>
           v.solo
    PROVE  Served(t, v, w, kind, maker, kind, maker)
    <2>. USE <1>QuietServed
    <2>1. Alike(t, kind, maker, kind, maker)
      BY Zenon DEF Alike
    <2>2. StoreInv' /\ Secrets(kind, maker)'
      BY <2>1, QuietStore, Zenon DEF Quiet
    <2>3. Widens /\ ended' = ended
      BY DEF Widens, Quiet, StoreInv
    <2>. QED BY <2>1, <2>2, <2>3, Zenon DEF Served
  \* A step that makes one.
  <1>MintServed.
    ASSUME StoreInv, NEW t, NEW v, NEW w, NEW kind, NEW maker, DOMAIN kind = Nat, DOMAIN maker = Nat,
           Secrets(kind, maker), Sound(kind, maker, t, v), Quiet(kind, maker), Mints(t, v, w),
           Holding(v, w)
    PROVE  \E k, m : Served(t, v, w, kind, maker, k, m)
    <2>. USE <1>MintServed
    <2>1. PICK n : n = minted + 1 /\ n \in Nat /\ n \notin 1 .. minted /\ minted \in Nat
      BY DEF StoreInv
    <2>2. PICK k, m : k = [kind EXCEPT ![n] = Purpose(v)] /\ m = [maker EXCEPT ![n] = {t}]
      BY Zenon
    <2>3. /\ k[minted + 1] = Purpose(v) /\ m[minted + 1] = {t} /\ DOMAIN k = Nat /\ DOMAIN m = Nat
          /\ \A i \in 1 .. minted : k[i] = kind[i] /\ m[i] = maker[i]
      BY <2>1, <2>2
    <2>4. Alike(t, kind, maker, k, m)
      BY <2>3, Zenon DEF Alike
    <2>5. StoreInv' /\ Secrets(k, m)'
      BY <2>4, QuietStore, Zenon DEF Quiet
    <2>6. Sound(k, m, t, w)'
      BY <2>3, MintsSound, SMTT(30)
    <2>7. Widens /\ ended' = ended /\ Turned(t) /\ w.solo = v.solo
      BY <2>1 DEF Widens, Quiet, StoreInv, Mints, Same, Fields
    <2>8. Served(t, v, w, kind, maker, k, m)
      BY <2>4, <2>5, <2>6, <2>7, Zenon DEF Served
    <2>. QED BY <2>8, Zenon
  \* A step that saves the request's document.
  <1>SaveServed.
    ASSUME StoreInv, NEW t \in Tabs, NEW v, NEW w, Turns(t, v, w), NEW kind, NEW maker,
           DOMAIN kind = Nat, DOMAIN maker = Nat,
           Secrets(kind, maker), Sound(kind, maker, t, v), SavedBy(v), Spends(v),
           UNCHANGED <<issued, minted, mailed, floor>>,
           ended' = ended \/ (v.pc = "reset" /\ v.solo /\ ended' = ended \cup Sessions),
           End(t) \/ Saves(t, v, w)
    PROVE  \E k, m : Served(t, v, w, kind, maker, k, m)
    <2>. USE <1>SaveServed
    <2>1. PICK m : m = Released(v, maker)
      BY Zenon
    <2>2. /\ StoreInv' /\ Secrets(kind, m)' /\ DOMAIN m = Nat
          /\ \A i \in 1 .. minted : maker[i] # {t} => m[i] = maker[i]
      BY <2>1, SaveStore
    <2>3. Alike(t, kind, maker, kind, m)
      BY <2>2, Zenon DEF Alike
    <2>4. Turned(t) /\ Sound(kind, m, t, w)' /\ (w.solo => v.solo)
      <3>1. CASE End(t)
        BY <3>1, <1>EndSound, Zenon DEF Turns
      <3>2. CASE Saves(t, v, w)
        <4>1. Turned(t) /\ w.solo = v.solo
          BY <3>2, Zenon DEF Saves, Same, Fields
        <4>2. Sound(kind, m, t, w)'
          BY <2>1, <3>2, SavesSound, Zenon
        <4>. QED BY <4>1, <4>2, Zenon
      <3>. QED BY <3>1, <3>2, Zenon
    <2>5. Widens
      BY SMTT(30) DEF Widens, StoreInv, SavedBy
    <2>6. Served(t, v, w, kind, maker, kind, m)
      BY <2>2, <2>3, <2>4, <2>5, SMTT(30) DEF Served
    <2>. QED BY <2>6, Zenon
  \* A step that signs a pair.
  <1>SignServed.
    ASSUME StoreInv, NEW t \in Tabs, NEW v, NEW w, Turns(t, v, w), NEW kind, NEW maker,
           DOMAIN kind = Nat, DOMAIN maker = Nat,
           Secrets(kind, maker), Sound(kind, maker, t, v), Persist(t) \/ Rotate(t)
    PROVE  Served(t, v, w, kind, maker, kind, maker)
    <2>. USE <1>SignServed
    <2>1. Signs(v) /\ Recorded(v) /\ Signed(t, v, w)
      BY SignSteps, Zenon
    <2>2. Sound(kind, maker, t, w)'
      BY <2>1, SignsSound, Zenon
    <2>3. row # None
      BY <2>1, Zenon DEF Sound, DocOK, Loaded, Signed
    <2>4. StoreInv' /\ Secrets(kind, maker)'
      BY <2>1, <2>3, SignStore
    <2>5. Alike(t, kind, maker, kind, maker)
      BY Zenon DEF Alike
    <2>6. Widens /\ ended' = ended /\ Turned(t) /\ w.solo = v.solo
      BY <2>1, <2>4 DEF Widens, StoreInv, Signs, Recorded, Signed, Same, Fields
    <2>. QED BY <2>2, <2>4, <2>5, <2>6, SMTT(30) DEF Served
  <1>1.
    ASSUME StoreInv, NEW t \in Tabs, NEW v, NEW w, Turns(t, v, w), NEW kind, NEW maker,
           DOMAIN kind = Nat, DOMAIN maker = Nat,
           Secrets(kind, maker), Sound(kind, maker, t, v), Serve(t)
    PROVE  \E k, m : Served(t, v, w, kind, maker, k, m)
    <2>. USE <1>1
    <2>0. DOMAIN req = Tabs /\ v = req[t] /\ w = req'[t] /\ Control(v) /\ DOMAIN v = Fields
      BY Zenon DEF Turns, Sound, Control
    <2>. DEFINE Goal == \E k, m : Served(t, v, w, kind, maker, k, m)
    <2>. SUFFICES Goal
      BY Zenon
    <2>1. ASSUME Quiet(kind, maker), Turned(t), Sound(kind, maker, t, w)', w.solo => v.solo
          PROVE  Goal
      <3>1. Served(t, v, w, kind, maker, kind, maker)
        BY <2>1, <1>QuietServed, Zenon
      <3>. QED BY <3>1, Zenon
    <2>2. ASSUME Quiet(kind, maker), End(t)
          PROVE  Goal
      <3>1. Turned(t) /\ Sound(kind, maker, t, w)' /\ ~ w.solo
        BY <2>0, <2>2, <1>EndSound
      <3>. QED BY <2>1, <2>2, <3>1, Zenon
    <2>3. ASSUME Quiet(kind, maker), Mints(t, v, w), Holding(v, w)
          PROVE  Goal
      BY <2>3, <1>MintServed, Zenon
    <2>. HIDE DEF Goal
    <2>Q. QuietStep(t) => Quiet(kind, maker)
      BY <2>0, <1>QuietSteps, Zenon
    <2>4. CASE RegisterFind(t) \/ ResendFind(t) \/ ForgotFind(t)
      <3>1. Quiet(kind, maker)
        BY <2>4, <2>Q, Zenon DEF QuietStep
      <3>2. End(t) \/ (Mints(t, v, w) /\ Holding(v, w))
        BY <2>0, <2>4, FindMints, Zenon
      <3>. QED BY <2>2, <2>3, <3>1, <3>2, SMTT(30)
    <2>5. CASE \/ LoginFind(t) \/ RefreshFind(t) \/ FindUserForOAuth(t) \/ VerifyFind(t)
               \/ Kill(t) \/ ResetFind(t) \/ LogoutFind(t)
      <3>1. Quiet(kind, maker)
        BY <2>5, <2>Q, Zenon DEF QuietStep
      <3>2. End(t) \/ (Turned(t) /\ Sound(kind, maker, t, w)' /\ w.solo = v.solo)
        BY <2>5, LoadsKeep
      <3>. QED BY <2>1, <2>2, <3>1, <3>2, SMTT(30)
    <2>6. CASE Sync(t) \/ SendVerificationEmail(t) \/ MakePoll(t) \/ Recheck(t) \/ ReadBack(t)
      <3>1. Quiet(kind, maker)
        BY <2>6, <2>Q, Zenon DEF QuietStep
      <3>2. End(t) \/ (Turned(t) /\ Sound(kind, maker, t, w)' /\ w.solo = v.solo)
        BY <2>6, QuietKeeps, SMTT(30)
      <3>. QED BY <2>1, <2>2, <3>1, <3>2, Zenon
    <2>7. CASE \/ RedeemLink(t) \/ ConsumeFormToken(t) \/ ConsumeOAuthState(t)
               \/ ConsumeOAuthExchangeCode(t) \/ MakeForm(t) \/ Prepare(t) \/ MakeExchange(t)
      <3>1. Quiet(kind, maker)
        BY <2>7, <2>Q, Zenon DEF QuietStep
      <3>2. End(t) \/ (Turned(t) /\ Sound(kind, maker, t, w)' /\ w.solo = v.solo)
        BY <2>7, CodesKeep, ZenonT(30)
      <3>. QED BY <2>1, <2>2, <3>1, <3>2, Zenon
    <2>8. CASE SendPasswordResetEmail(t)
      <3>1. Quiet(kind, maker)
        BY <2>8, <2>Q, Zenon DEF QuietStep
      <3>. QED BY <2>2, <2>8, <3>1, SMTT(30) DEF SendPasswordResetEmail
    <2>9. CASE CreateForOAuth(t)
      <3>1. Quiet(kind, maker)
        BY <2>9, <2>Q, Zenon DEF QuietStep
      <3>2. Turned(t) /\ Sound(kind, maker, t, w)' /\ w.solo = v.solo
        BY <2>9, CreateKeeps
      <3>. QED BY <2>1, <3>1, <3>2, SMTT(30)
    <2>10. CASE Publish(t)
      <3>1. Quiet(kind, maker)
        BY <2>10, <2>Q, Zenon DEF QuietStep
      <3>2. Turned(t) /\ Sound(kind, maker, t, w)' /\ w.solo = v.solo
        BY <2>10, PublishKeeps
      <3>. QED BY <2>1, <3>1, <3>2, ZenonT(30)
    <2>11. CASE Rehash(t) \/ Save(t) \/ KillSave(t) \/ LogoutSave(t) \/ ResetSave(t)
      <3>1. /\ SavedBy(v) /\ UNCHANGED <<issued, minted, mailed, floor>> /\ Spends(v)
            /\ End(t) \/ Saves(t, v, w)
        BY <2>11, SaveSteps, ZenonT(30)
      <3>2. ended' = ended \/ (v.pc = "reset" /\ v.solo /\ ended' = ended \cup Sessions)
        BY <2>0, <2>11, Zenon DEF Rehash, Save, KillSave, LogoutSave, ResetSave, At
      <3>. QED BY <3>1, <3>2, <1>SaveServed, SMTT(30) DEF Goal
    <2>12. CASE Insert(t)
      <3>1. /\ UNCHANGED <<issued, minted, mailed, floor, ended, spent>>
            /\ (End(t) /\ UNCHANGED row) \/ (SavedBy(v) /\ Saves(t, v, w))
        BY <2>12, InsertSteps, Zenon
      <3>2. CASE End(t) /\ UNCHANGED row
        <4>1. Quiet(kind, maker)
          BY <3>1, <3>2, SMTT(30) DEF Quiet
        <4>. QED BY <2>2, <3>2, <4>1, SMTT(30)
      <3>3. CASE SavedBy(v) /\ Saves(t, v, w)
        <4>1. Spends(v)
          BY <3>1, Zenon DEF Spends
        <4>. QED BY <3>1, <3>3, <4>1, <1>SaveServed, SMTT(30) DEF Goal
      <3>. QED BY <3>1, <3>2, <3>3, Zenon
    <2>13. CASE Persist(t) \/ Rotate(t)
      BY <2>13, <1>SignServed, Zenon DEF Goal
    <2>. QED BY <2>4, <2>5, <2>6, <2>7, <2>8, <2>9, <2>10, <2>11, <2>12, <2>13, Zenon DEF Serve
  <1>. QED BY <1>1, Zenon

\* A step of the server keeps the invariant.
LEMMA ServeStep ==
  \A t \in Tabs :
    SessionInv /\ Serve(t) /\ UNCHANGED clientVars
    => SessionInv'
  \* The request of another tab that nothing relies on being alone: it stays
  \* sound when rows, pairs and secrets are only added.
  <1>OthersStay.
    ASSUME StoreInv, Widens, ended' = ended, NEW t, NEW u, u # t, NEW kind, NEW maker, NEW k, NEW m,
           Alike(t, kind, maker, k, m), NEW v, Sound(kind, maker, u, v), ~ v.solo
    PROVE  Sound(k, m, u, v)'
    <2>. USE <1>OthersStay
    <2>0. Control(v) /\ DocOK(v) /\ Keeps(kind, maker, u, v) /\ minted \in Nat /\ issued \in Seq(Nat)
      BY Zenon DEF Sound, StoreInv
    <2>1. Grows
      BY Zenon DEF Grows, Widens
    <2>2. 1 .. Len(issued) \subseteq 1 .. Len(issued') /\ 1 .. minted \subseteq 1 .. minted'
      BY <2>0 DEF Widens
    <2>3. Control(v)'
      BY <2>0, <2>2, Zenon DEF Control, PairOK
    <2>4. DocOK(v)'
      <3>1. DocFits(v.doc)'
        BY <2>0, <2>1, FitsGrows, ZenonT(30) DEF DocOK, DocFits
      <3>. QED BY <2>0, <3>1, Zenon DEF DocOK, Loaded, Resetting, Widens
    <2>5. Keeps(k, m, u, v)'
      <3>1. \A c : Known(kind, maker, c) => Known(k, m, c)'
        BY <2>0, KnownAlike, Zenon DEF Widens
      <3>2. Assigns(v, "emailVerificationToken", "verify-email")'
            /\ Assigns(v, "passwordResetToken", "reset-password")'
        BY <2>0, Zenon DEF Keeps, Assigns, Making
      <3>3. Making(v) => v.code.secret \in 1 .. minted' /\ k[v.code.secret] = v.code.kind
            /\ m[v.code.secret] = {u}
        <4>1. ASSUME Making(v)
              PROVE  v.code.secret \in 1 .. minted /\ kind[v.code.secret] = v.code.kind
                     /\ maker[v.code.secret] # {t} /\ maker[v.code.secret] = {u}
          BY <2>0, <4>1, Zenon DEF Keeps
        <4>. QED BY <2>2, <4>1, Zenon DEF Alike
      <3>. QED BY <2>0, <3>1, <3>2, <3>3 DEF Keeps, Making, Resetting
    <2>. QED BY <2>3, <2>4, <2>5, SMTT(30) DEF Sound
  \* The server takes no step for an idle tab.
  <1>ServeInFlight.
    ASSUME NEW t, Serve(t)
    PROVE  req[t].pc # "idle"
    <2>. USE <1>ServeInFlight
    <2>1. ASSUME NEW after, Consume(t, after)
          PROVE  req[t].pc # "idle"
      BY <2>1, Zenon DEF Consume, At
    <2>2. CASE RedeemLink(t) \/ ConsumeFormToken(t) \/ ConsumeOAuthState(t)
               \/ ConsumeOAuthExchangeCode(t)
      BY <2>1, <2>2, Zenon DEF RedeemLink, ConsumeFormToken, ConsumeOAuthState, ConsumeOAuthExchangeCode
    <2>3. CASE RegisterFind(t) \/ ResendFind(t) \/ ForgotFind(t) \/ LoginFind(t) \/ VerifyFind(t)
      BY <2>3, Zenon DEF RegisterFind, ResendFind, ForgotFind, LoginFind, VerifyFind, At
    <2>4. CASE FindUserForOAuth(t) \/ CreateForOAuth(t) \/ RefreshFind(t) \/ ResetFind(t)
               \/ LogoutFind(t)
      BY <2>4, Zenon DEF FindUserForOAuth, CreateForOAuth, RefreshFind, ResetFind, LogoutFind, At
    <2>5. CASE Rehash(t) \/ Insert(t) \/ Save(t) \/ KillSave(t) \/ ResetSave(t) \/ LogoutSave(t)
      BY <2>5, Zenon DEF Rehash, Insert, Save, KillSave, ResetSave, LogoutSave, At
    <2>6. CASE Sync(t) \/ SendVerificationEmail(t) \/ SendPasswordResetEmail(t) \/ MakePoll(t)
               \/ MakeForm(t)
      BY <2>6, Zenon DEF Sync, SendVerificationEmail, SendPasswordResetEmail, Mail, MakePoll, MakeForm, At
    <2>7. CASE Prepare(t) \/ MakeExchange(t) \/ Publish(t) \/ Recheck(t) \/ ReadBack(t)
      BY <2>7, Zenon DEF Prepare, MakeExchange, Publish, Recheck, ReadBack, At
    <2>8. CASE Persist(t) \/ Rotate(t) \/ Kill(t)
      BY <2>8, Zenon DEF Persist, Rotate, Kill, At
    <2>. QED BY <2>2, <2>3, <2>4, <2>5, <2>6, <2>7, <2>8, Zenon DEF Serve
  \* Pairs that are added leave the clients' state in order.
  <1>ClientGrows.
    ASSUME StoreInv, ClientInv, Widens, UNCHANGED clientVars
    PROVE  ClientInv'
    <2>. USE <1>ClientGrows
    <2>1. 1 .. Len(issued) \subseteq 1 .. Len(issued')
      BY DEF Widens, StoreInv
    <2>2. jar' \in [Jars -> {None} \cup 1 .. Len(issued')]
      BY <2>1, Zenon DEF ClientInv, clientVars
    <2>3. \A p : PageOK(p) => PageOK(p)'
      BY <2>1, Zenon DEF PageOK, PairOK
    <2>. QED BY <2>2, <2>3, Zenon DEF ClientInv, clientVars
  <1>1.
    ASSUME SessionInv, NEW t \in Tabs, Serve(t), UNCHANGED clientVars
    PROVE  SessionInv'
    <2>. USE <1>1
    <2>1. PICK kind, maker : Minds(kind, maker)
      BY Zenon DEF SessionInv
    <2>2. PICK v, w : v = req[t] /\ w = req'[t]
      BY Zenon
    <2>3. StoreInv /\ ClientInv /\ Flight /\ Turns(t, v, w) /\ DOMAIN kind = Nat /\ DOMAIN maker = Nat
          /\ Secrets(kind, maker) /\ Sound(kind, maker, t, v)
      BY <2>1, <2>2, Zenon DEF SessionInv, Minds, Turns, Flight
    <2>4. PICK k, m : Served(t, v, w, kind, maker, k, m)
      BY <2>3, ServeServed, Zenon
    <2>5. StoreInv' /\ Secrets(k, m)' /\ Alike(t, kind, maker, k, m) /\ Widens /\ Turned(t)
          /\ Sound(k, m, t, w)' /\ (ended' = ended \/ v.solo) /\ (w.solo => v.solo)
      BY <2>4, ZenonT(30) DEF Served
    <2>6. v.op # "none"
      <3>1. v.pc # "idle"
        BY <2>2, <1>ServeInFlight, Zenon
      <3>. QED BY <2>3, <3>1, Zenon DEF Sound, Control, OnRoute
    <2>7. ASSUME NEW u \in Tabs \ {t}
          PROVE  ~ req[u].solo /\ req'[u] = req[u] /\ \A x \in {req'[u]} : Sound(k, m, u, x)'
      <3>1. PICK x : x = req[u]
        BY ZenonT(30)
      <3>2. Sound(kind, maker, u, x) /\ req'[u] = x /\ ~ x.solo
        BY <2>1, <2>2, <2>3, <2>5, <2>6, <3>1, SMTT(30) DEF Minds, Flight, Turned
      <3>3. Sound(k, m, u, x)'
        <4>1. CASE ended' = ended
          BY <2>3, <2>5, <3>2, <4>1, <1>OthersStay, ZenonT(30)
        <4>2. CASE v.solo
          <5>1. x = Idle
            BY <2>2, <2>3, <3>1, <3>2, <4>2, ZenonT(30) DEF Flight, Sound, DocOK
          <5>. QED BY <5>1, IdleStays, ZenonT(30)
        <4>. QED BY <2>5, <4>1, <4>2, Zenon
      <3>. QED BY <3>1, <3>2, <3>3, SMTT(30)
    <2>8. Flight'
      BY <2>2, <2>3, <2>5, <2>7, ZenonT(30) DEF Flight, Turned
    <2>9. Minds(k, m)'
      <3>1. DOMAIN k = Nat /\ DOMAIN m = Nat
        BY <2>5, Zenon DEF Alike
      <3>2. ASSUME NEW u \in Tabs
            PROVE  \A x \in {req'[u]} : Sound(k, m, u, x)'
        BY <2>2, <2>5, <2>7
      <3>3. ASSUME NEW u \in Tabs
            PROVE  \A p \in {tab'[u]} : Known(k, m, p.form)'
        <4>1. \A c : Known(kind, maker, c) => Known(k, m, c)'
          BY <2>3, <2>5, KnownAlike, Zenon DEF StoreInv, Widens
        <4>. QED BY <2>1, <4>1, Zenon DEF Minds, clientVars
      <3>. QED BY <2>5, <3>1, <3>2, <3>3, SMTT(30) DEF Minds
    <2>10. ClientInv'
      BY <2>3, <2>5, <1>ClientGrows, SMTT(30)
    <2>. QED BY <2>5, <2>8, <2>9, <2>10, SMTT(30) DEF SessionInv
  <1>. QED BY <1>1, Zenon

\* Every step keeps the invariant.
LEMMA SessionStep ==
  ASSUME SessionInv, [Next]_vars
  PROVE  SessionInv'
  <1>1. ASSUME UNCHANGED <<serverVars, req, clientVars>>
        PROVE  SessionInv'
    <2>1. PICK kind, maker : Minds(kind, maker)
      BY Zenon DEF SessionInv
    <2>2. Clients(kind, maker)
      BY <1>1, <2>1 DEF Clients, SessionInv, ClientInv, Minds, serverVars, clientVars
    <2>. QED BY <1>1, <2>1, <2>2, PageStep DEF serverVars
  <1>2. CASE UNCHANGED vars
    BY <1>1, <1>2 DEF vars
  <1>3. CASE Crash
    BY <1>3, CrashStep
  <1>4. ASSUME NEW t \in Tabs,
               LoginAnswer(t) \/ RefreshAnswer(t) \/ ExchangeAnswer(t) \/ VerifyAnswer(t)
        PROVE  SessionInv'
    <2>1. PICK f : (\A kind, maker : Given(kind, maker, f)) /\ SignedIn(t, f)
      BY <1>4, GivenFacts DEF LoginAnswer, RefreshAnswer, ExchangeAnswer, VerifyAnswer,
           SignedInSynced
    <2>. QED BY <2>1, SignedInStep, SMTT(30)
  <1>5. ASSUME NEW t \in Tabs, Serve(t), UNCHANGED clientVars
        PROVE  SessionInv'
    BY <1>5, ServeStep
  <1>. QED BY <1>1, <1>2, <1>3, <1>4, <1>5, PagesStep, SendsStep, LogoutStep, AnswersStep,
       ZenonT(30) DEF Next

-----------------------------------------------------------------------------
(* Why a session changes *)

\* The cause of a change of session n by a step of tab t.
Because(t, n) ==
  /\ req'[t] # req[t]
  /\ IF n \in Sessions THEN EndsFor(t, n)
     ELSE n = req'[t].pair \/ n \in ListOf(Doc(t).refreshTokens)

\* Every change has its cause.
LEMMA ChangeCause ==
  SessionInv /\ [Next]_vars
  => \A n \in 1..Len(issued') : (n \in Sessions) # (n \in Sessions') =>
       \E t \in Tabs : /\ req'[t] # req[t]
                       /\ IF n \in Sessions THEN EndsFor(t, n)
                          ELSE n = req'[t].pair \/ n \in ListOf(Doc(t).refreshTokens)
  \* A save stores the list of its document, if that has one.
  <1>SaveCause.
    ASSUME SessionInv, NEW t \in Tabs,
           Rehash(t) \/ Insert(t) \/ Save(t) \/ KillSave(t) \/ LogoutSave(t) \/ ResetSave(t),
           NEW n, (n \in Sessions) # (n \in Sessions')
    PROVE  Because(t, n)
    <2>. USE <1>SaveCause
    <2>1. PICK kind, maker : Minds(kind, maker)
      BY Zenon DEF SessionInv
    <2>2. PICK v, w : Turns(t, v, w)
      <3>1. \E w : w = req'[t]
        BY ZenonT(30)
      <3>. QED BY <3>1 DEF Turns, SessionInv, Flight
    <2>3. StoreInv /\ Sound(kind, maker, t, v) /\ v = req[t] /\ w = req'[t] /\ DOMAIN req = Tabs
      BY <2>1, <2>2, SMTT(30) DEF SessionInv, Minds, Turns
    <2>4. row' # row
      BY Zenon DEF Sessions
    <2>5. SavedBy(v) /\ (End(t) \/ Saves(t, v, w))
      BY <2>2, <2>3, <2>4, SaveSteps, InsertSteps, ZenonT(30)
    <2>6. v.pc # w.pc
      <3>1. CASE End(t)
        <4>1. w.pc = "idle"
          BY <2>3, <3>1 DEF End, Idle
        <4>2. v.pc # "idle"
          BY <2>3, Zenon DEF Rehash, Insert, Save, KillSave, LogoutSave, ResetSave, At
        <4>. QED BY <4>1, <4>2, Zenon
      <3>2. CASE Saves(t, v, w)
        BY <3>2, Zenon DEF Saves, Then
      <3>. QED BY <2>5, <3>1, <3>2, SMTT(30)
    <2>7. row' # None /\ Listed(v)
      BY <2>5, Zenon DEF SavedBy
    <2>8. Sessions' = ListOf(row'.refreshTokens) /\ ListOf(<<>>) = {}
      BY <2>7 DEF Sessions, ListOf
    <2>9. Has(v.doc, "refreshTokens") /\ Sessions' = ListOf(Doc(t).refreshTokens)
      BY <2>3, <2>7, <2>8, Zenon DEF Listed, Sessions, Has, Doc
    <2>. QED BY <2>3, <2>6, <2>9, SMTT(30) DEF Because, EndsFor
  \* A pair that is stored replaces at most one, and pushes out at most one.
  <1>SignCause.
    ASSUME SessionInv, NEW t \in Tabs, Persist(t) \/ Rotate(t),
           NEW n, (n \in Sessions) # (n \in Sessions')
    PROVE  Because(t, n)
    <2>. USE <1>SignCause
    <2>1. PICK kind, maker : Minds(kind, maker)
      BY Zenon DEF SessionInv
    <2>2. PICK v, w : Turns(t, v, w)
      <3>1. \E w : w = req'[t]
        BY Zenon
      <3>. QED BY <3>1, Zenon DEF Turns, SessionInv, Flight
    <2>3. StoreInv /\ Sound(kind, maker, t, v) /\ v = req[t] /\ w = req'[t] /\ DOMAIN req = Tabs
      BY <2>1, <2>2, ZenonT(30) DEF SessionInv, Minds, Turns
    <2>4. Recorded(v) /\ Signed(t, v, w)
      BY <2>2, <2>3, SignSteps, SMTT(30)
    <2>5. row # None
      BY <2>3, <2>4, ZenonT(30) DEF Sound, DocOK, Loaded, Signed
    <2>6. /\ Sessions = ListOf(row.refreshTokens) /\ Sessions' = ListOf(row'.refreshTokens)
          /\ Swapped(row'.refreshTokens, Len(issued) + 1, v.token)
      BY <2>4, <2>5, SMTT(30) DEF Recorded, Sessions
    <2>7. /\ v.pc \in {"persist", "rotate"} /\ w.pc = "publish" /\ w.pair = Len(issued) + 1
      BY <2>4 DEF Signed
    <2>. QED BY <2>3, <2>6, <2>7, SMTT(30) DEF Because, EndsFor, Swapped
  <1>1.
    ASSUME SessionInv, [Next]_vars
    PROVE  \A n \in 1..Len(issued') : (n \in Sessions) # (n \in Sessions') =>
             \E t \in Tabs : /\ req'[t] # req[t]
                             /\ IF n \in Sessions THEN EndsFor(t, n)
                                ELSE n = req'[t].pair \/ n \in ListOf(Doc(t).refreshTokens)
    <2>. USE <1>1
    <2>. SUFFICES ASSUME NEW n, (n \in Sessions) # (n \in Sessions')
                  PROVE  \E t \in Tabs : Because(t, n)
      BY Zenon DEF Because
    <2>1. row' # row
      BY Zenon DEF Sessions
    <2>2. PICK t \in Tabs : Writing(t)
      BY <2>1, StepCounts
    <2>3. Because(t, n)
      BY <2>2, <1>SaveCause, <1>SignCause, ZenonT(30) DEF Writing
    <2>. QED BY <2>3
  <1>. QED BY <1>1, ZenonT(30)

-----------------------------------------------------------------------------
(* Theorems *)

\* The inductive invariant and the bounds of the counters.
THEOREM SessionsSound == Spec => [](SessionInv /\ Counters)
  <1>1. Init => SessionInv /\ Counters
    BY SessionInit, CountersInit, SMTT(30)
  <1>2. SessionInv /\ Counters /\ [Next]_vars => SessionInv' /\ Counters'
    BY SessionStep, CountersStep
  <1>. QED BY <1>1, <1>2, PTL DEF Spec

\* The stored lists never outgrow their caps and hold only pairs that were
\* issued; every other variable keeps its type (User.ts's $push with $slice).
THEOREM SessionsTyped == Spec => []TypeOK
  <1>1. SessionInv /\ Counters => TypeOK
    BY InvTyped
  <1>. QED BY <1>1, SessionsSound, PTL

\* A secret that verified the address or reset the password is never valid
\* again, whatever documents are saved later (verifyEmail, resetPassword).
THEOREM SecretsUsedOnce == Spec => []SpentStaysSpent
  <1>1. SessionInv => SpentStaysSpent
    BY InvSafe, SMTT(30)
  <1>. QED BY <1>1, SessionsSound, PTL

\* A session that a sign-out or a reset ended while nothing overlapped it is
\* never stored again (logout, resetPassword).
THEOREM EndedForGood == Spec => []EndedStaysEnded
  <1>1. SessionInv => EndedStaysEnded
    BY InvSafe, SMTT(30)
  <1>. QED BY <1>1, SessionsSound, PTL

\* A pair that is handed out with its version published and nothing
\* overlapping is admitted by the gateway and by authenticate, and its refresh
\* token is stored (persistSessionTokens, rotateSessionTokens).
THEOREM IssuedAdmitted == Spec => []IssuedIsAdmitted
  <1>1. SessionInv => IssuedIsAdmitted
    BY InvSafe, Zenon
  <1>. QED BY <1>1, SessionsSound, PTL

\* A reset that answers success with nothing overlapping has published the
\* row's version and left no session (resetPassword).
THEOREM KillPublished == Spec => []KillIsPublished
  <1>1. SessionInv => KillIsPublished
    BY InvSafe
  <1>. QED BY <1>1, SessionsSound, PTL

\* A session leaves the stored list only for a rotation, sign-out, kill,
\* eviction or a stale document, and enters it only when it is issued or from a
\* document that had loaded it (User.save, applyUpdate).
THEOREM ChangesHaveCauses == Spec => SessionsChangeForCause
  <1>. DEFINE Cause == \A n \in 1..Len(issued') : (n \in Sessions) # (n \in Sessions') =>
                         \E t \in Tabs : /\ req'[t] # req[t]
                                         /\ IF n \in Sessions THEN EndsFor(t, n)
                                            ELSE n = req'[t].pair \/ n \in ListOf(Doc(t).refreshTokens)
  <1>1. SessionInv /\ [Next]_vars => [Cause]_vars
    BY ChangeCause
  <1>2. Spec => [][Cause]_vars
    BY <1>1, SessionsSound, PTL DEF Spec
  <1>. QED BY <1>2, SMTT(30) DEF SessionsChangeForCause
=============================================================================
