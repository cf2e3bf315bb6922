--------------------------- MODULE RequestProofs ----------------------------
(***************************************************************************)
(* The steps of the session handlers that sign no token pair: they keep    *)
(* the request sound, whatever overlapped it, and keep what a request that *)
(* nothing overlapped can rely on.                                         *)
(***************************************************************************)
EXTENDS PageProofs

-----------------------------------------------------------------------------
(* Rows, documents and requests *)

\* $pull removes the element and nothing else.
LEMMA PullFacts ==
  ASSUME NEW T, NEW s \in Seq(T), NEW e
  PROVE  /\ Pull(s, e) \in Seq(T) /\ Len(Pull(s, e)) <= Len(s)
         /\ ListOf(Pull(s, e)) = ListOf(s) \ {e}
  <1>. DEFINE W == ListOf(s) \ {e}
              q == Only(s, W)
  <1>1. s \in Seq(ListOf(s)) /\ q = Only(s, W)
    BY DEF ListOf
  <1>2. Pull(s, e) = q
    BY Zenon DEF Pull
  <1>. HIDE DEF q, W
  <1>3. q \in Seq(ListOf(s) \cap W) /\ Len(q) <= Len(s) /\ ListOf(s) \cap W \subseteq ListOf(q)
    BY <1>1, OnlyFacts, ZenonT(30)
  <1>4. ListOf(q) \subseteq ListOf(s) \cap W
    BY <1>3 DEF ListOf
  <1>5. ListOf(s) \subseteq T
    BY DEF ListOf
  <1>6. q \in Seq(T)
    BY <1>3, <1>5
  <1>. QED BY <1>2, <1>3, <1>4, <1>6, Zenon DEF W

\* Fields laid over fields.
LEMMA OverFits ==
  ASSUME NEW f, NEW g, Fits(f), Fits(g)
  PROVE  Fits(Over(g, f))
  BY Zenon DEF Fits, Over

\* What a query loads fits, and is what the row has.
LEMMA SelectFits ==
  ASSUME NEW r, RowFits(r), NEW plus \in SUBSET RowFields
  PROVE  LET doc == Select(r, plus) IN
         /\ DocFits(doc) /\ doc.modified = {}
         /\ DOMAIN doc.values = (RowFields \ SENSITIVE_FIELDS) \cup plus
         /\ \A x \in DOMAIN doc.values : doc.values[x] = r[x]
  BY Zenon DEF RowFits, Select, DocFits, Fits

\* Assigning to a document.
LEMMA AssignFits ==
  ASSUME NEW doc, DocFits(doc), NEW f, Fits(f)
  PROVE  LET to == Assign(doc, f) IN
         /\ DocFits(to) /\ to.modified = doc.modified \cup DOMAIN f
         /\ DOMAIN to.values = DOMAIN doc.values \cup DOMAIN f
         /\ \A x \in DOMAIN f : to.values[x] = f[x]
         /\ \A x \in DOMAIN doc.values \ DOMAIN f : to.values[x] = doc.values[x]
  BY Zenon DEF Assign, Over, DocFits, Fits

\* So does what is known of a code.
LEMMA KnownGrows ==
  ASSUME StoreInv, Grows, NEW kind, NEW maker
  PROVE  \A c : Known(kind, maker, c) => Known(kind, maker, c)'
  BY DEF Known, StoreInv, Grows

\* The document that a request keeps stays sound.
LEMMA DocMoves ==
  ASSUME StoreInv, Grows, row # None => row' # None, NEW v, NEW w, DocOK(v),
         w.doc = v.doc, w.op = v.op, w.op # "none", ~ v.isNew, ~ w.isNew, v.pc # "killed",
         w.pc # "remove", Loaded(w) => Loaded(v), Resetting(w) <=> Resetting(v)
  PROVE  DocOK(w)'
  <1>1. DocFits(w.doc)'
    BY FitsGrows, Zenon DEF DocOK, DocFits
  <1>2. Loaded(w)' <=> Loaded(w)
    BY Zenon DEF Loaded
  <1>3. Resetting(w)' <=> Resetting(w)
    BY Zenon DEF Resetting
  <1>. QED BY <1>1, <1>2, <1>3, Zenon DEF DocOK

\* So do the secrets of a request that neither makes one before nor after.
LEMMA KeepsMoves ==
  ASSUME StoreInv, Grows, NEW t, NEW v, NEW w, NEW kind, NEW maker, Keeps(kind, maker, t, v),
         ~ Making(v), ~ Making(w), w.op = v.op, w.doc = v.doc,
         Known(kind, maker, w.code), Known(kind, maker, w.then),
         w.op \in {"verify", "reset"} => w.code = v.code,
         w.op = "verify" => w.pc # "save", Resetting(w) => Resetting(v)
  PROVE  Keeps(kind, maker, t, w)'
  <1>1. Known(kind, maker, w.code)' /\ Known(kind, maker, w.then)'
    BY KnownGrows, Zenon
  <1>2. ~ Making(w)'
    BY Zenon DEF Making
  <1>3. Resetting(w)' <=> Resetting(w)
    BY Zenon DEF Resetting
  <1>4. Assigns(w, "emailVerificationToken", "verify-email")'
        /\ Assigns(w, "passwordResetToken", "reset-password")'
    BY Zenon DEF Keeps, Assigns
  <1>. QED BY <1>1, <1>2, <1>3, <1>4, Zenon DEF Keeps

\* Only the request of t changes ...
Turned(t) == DOMAIN req' = Tabs /\ \A u \in Tabs \ {t} : req'[u] = req[u]

\* ... and of that only the fields in S.
Same(v, w, S) == DOMAIN w = Fields /\ \A x \in Fields \ S : w[x] = v[x]

\* The request of t is v before the step and w after it.
Turns(t, v, w) == DOMAIN req = Tabs /\ v = req[t] /\ w = req'[t]

\* Go changes the fields it names.
LEMMA GoFields ==
  ASSUME NEW t \in Tabs, NEW v, NEW w, Turns(t, v, w), DOMAIN v = Fields, NEW f,
         DOMAIN f \subseteq Fields, Go(t, f)
  PROVE  Turned(t) /\ Same(v, w, DOMAIN f) /\ \A x \in DOMAIN f : w[x] = f[x]
  <1>1. w = Over(f, v) /\ Turned(t)
    BY Zenon DEF Go, Turned, Turns
  <1>. QED BY <1>1, Zenon DEF Over, Same

\* The request of t goes on with another document.
LEMMA GoDoc ==
  ASSUME NEW t \in Tabs, NEW v, NEW w, Turns(t, v, w), DOMAIN v = Fields, NEW doc, NEW pc,
         Go(t, [doc |-> doc, pc |-> pc]) \/ Go(t, [pc |-> pc, doc |-> doc])
  PROVE  Turned(t) /\ Same(v, w, {"pc", "doc"}) /\ w.doc = doc /\ w.pc = pc
  <1>. DEFINE f == [pc |-> pc, doc |-> doc]
  <1>1. DOMAIN f = {"pc", "doc"} /\ f.pc = pc /\ f.doc = doc /\ Go(t, f)
        /\ DOMAIN f \subseteq Fields
    BY Zenon DEF Fields
  <1>. HIDE DEF f
  <1>. QED BY <1>1, GoFields

\* A step that only goes on to its next place, and keeps the rest.
LEMMA ControlMoves ==
  ASSUME NEW v, NEW w, Control(v), Same(v, w, {"pc", "doc", "isNew", "stored"}), UNCHANGED issued,
         OnRoute(w.op, w.pc), w.isNew \in BOOLEAN, w.stored \in BOOLEAN,
         w.isNew => w.pc = "save" /\ w.op \in {"register", "callback"},
         v.pc # "answer", w.pc = "answer" => w.op \notin {"redeem", "prepare", "callback"},
         v.pair # None => w.pc \in {"exchange", "answer"},
         v.pair = None => ~ (w.op = "callback" /\ w.pc \in {"publish", "exchange"})
  PROVE  Control(w)'
  <1>1. /\ DOMAIN w = Fields /\ w.op = v.op /\ w.token = v.token /\ w.pair = v.pair
        /\ w.code = v.code /\ w.then = v.then /\ w.solo = v.solo
    BY Zenon DEF Same, Fields
  <1>. QED BY <1>1, Zenon DEF Control, PairOK

\* A request with a document it has not assigned to keeps no secret but its
\* codes.
LEMMA KeepsClean ==
  ASSUME NEW t, NEW w, NEW k, NEW m, Known(k, m, w.code)', Known(k, m, w.then)',
         w.doc.modified = {},
         ~ Making(w), ~ Resetting(w),
         w.op = "verify" => w.code.kind = "verify-email" /\ w.pc # "save",
         w.op = "reset" => w.code.kind = "reset-password"
  PROVE  Keeps(k, m, t, w)'
  <1>1. ~ Making(w)' /\ ~ Resetting(w)'
    BY Zenon DEF Making, Resetting
  <1>2. Assigns(w, "emailVerificationToken", "verify-email")'
        /\ Assigns(w, "passwordResetToken", "reset-password")'
    BY Zenon DEF Assigns
  <1>. QED BY <1>1, <1>2, Zenon DEF Keeps

-----------------------------------------------------------------------------
(* Steps that leave the document alone *)

\* The steps that only go on to the next place.
LEMMA QuietKeeps ==
  ASSUME StoreInv, NEW t \in Tabs, NEW v, NEW w, Turns(t, v, w), NEW kind, NEW maker,
         Sound(kind, maker, t, v), ~ End(t),
         Sync(t) \/ SendVerificationEmail(t) \/ MakePoll(t) \/ Recheck(t) \/ ReadBack(t)
  PROVE  Turned(t) /\ Sound(kind, maker, t, w)' /\ w.solo = v.solo
  <1>0. Control(v) /\ DocOK(v) /\ (v.solo => Alone(v)) /\ Keeps(kind, maker, t, v)
    BY Zenon DEF Sound
  <1>. DEFINE Moved ==
           \/ v.pc = "sync" /\ w.pc \in {"mail", "persist"} /\ (v.op = "register" <=> w.pc = "mail")
           \/ v.pc = "mail" /\ w.pc = "poll" /\ v.op = "register"
           \/ v.pc = "poll" /\ w.pc = "answer"
           \/ v.pc = "recheck" /\ w.pc \in {"rotate", "kill"}
           \/ v.pc = "readback" /\ w.pc = "reset" /\ floor = v.doc.values.tokenVersion
  <1>1. Turned(t) /\ Same(v, w, {"pc"}) /\ UNCHANGED <<row, issued, minted, floor, ended>> /\ Moved
    <2>0. v = req[t] /\ DOMAIN v = Fields
      BY <1>0, Zenon DEF Turns, Control
    <2>1. CASE Sync(t)
      BY <2>0, <2>1, GoFields, SMTT(30) DEF Sync, At, Fields
    <2>2. CASE SendVerificationEmail(t)
      BY <2>0, <2>2, GoFields DEF SendVerificationEmail, Mail, At, Fields
    <2>3. CASE MakePoll(t)
      BY <2>0, <2>3, GoFields DEF MakePoll, At, Fields, serverVars
    <2>4. CASE Recheck(t)
      BY <2>0, <2>4, GoFields, SMTT(30) DEF Recheck, At, Fields, serverVars
    <2>5. CASE ReadBack(t)
      BY <2>0, <2>5, GoFields DEF ReadBack, Doc, At, Fields, serverVars
    <2>. HIDE DEF Moved
    <2>. QED BY <2>1, <2>2, <2>3, <2>4, <2>5, Zenon
  <1>2. /\ w.op = v.op /\ w.doc = v.doc /\ w.token = v.token /\ w.pair = v.pair /\ w.isNew = v.isNew
        /\ w.code = v.code /\ w.then = v.then /\ w.solo = v.solo /\ w.stored = v.stored
        /\ Same(v, w, {"pc", "doc", "isNew", "stored"})
    BY <1>1, Zenon DEF Same, Fields
  <1>3. OnRoute(v.op, v.pc) /\ v.isNew \in BOOLEAN /\ v.stored \in BOOLEAN
    BY <1>0, Zenon DEF Control
  <1>. HIDE DEF Moved
  <1>4. ~ v.isNew /\ v.pair = None
    BY <1>0, <1>1, Zenon DEF Control, Moved
  <1>5. OnRoute(w.op, w.pc) /\ w.op # "none"
        /\ (w.op \in {"redeem", "prepare", "callback"} => w.pc # "answer")
    BY <1>1, <1>2, <1>3, Zenon DEF OnRoute, Moved
  <1>6. w.pc \notin {"save", "publish", "exchange", "remove", "killed"}
        /\ v.pc \notin {"answer", "save", "killed"}
    BY <1>1, Zenon DEF Moved
  <1>7. Control(w)'
    BY <1>0, <1>1, <1>2, <1>3, <1>4, <1>5, <1>6, ControlMoves, Zenon
  <1>8. (Loaded(w) => Loaded(v)) /\ (Resetting(w) <=> Resetting(v))
    BY <1>1, <1>2, <1>3, Zenon DEF Loaded, Resetting, Moved, OnRoute
  <1>9. Grows
    BY <1>1 DEF Grows, StoreInv
  <1>10. DocOK(w)'
    BY <1>0, <1>1, <1>2, <1>4, <1>5, <1>6, <1>8, <1>9, DocMoves, Zenon
  <1>11. Keeps(kind, maker, t, w)'
    <2>1. ~ Making(v) /\ ~ Making(w)
      BY <1>6, Zenon DEF Making
    <2>2. Known(kind, maker, w.code) /\ Known(kind, maker, w.then)
      BY <1>0, <1>2, <2>1, Zenon DEF Keeps
    <2>. QED BY <1>0, <1>2, <1>6, <1>8, <1>9, <2>1, <2>2, KeepsMoves, Zenon
  <1>12. w.solo => Alone(w)'
    <2>1. w.op \in {"logout", "reset"} => w.pc # "answer"
      BY <1>1, <1>2, <1>3, Zenon DEF Moved, OnRoute
    <2>2. w.pc = "reset" => floor = w.doc.values.tokenVersion
      BY <1>1, <1>2, Zenon DEF Moved
    <2>. QED BY <1>0, <1>1, <1>2, <1>4, <2>1, <2>2, Zenon DEF Alone
  <1>. QED BY <1>1, <1>2, <1>7, <1>10, <1>11, <1>12, Zenon DEF Sound

\* The steps that use and make one-time codes.
LEMMA CodesKeep ==
  \A t \in Tabs : \A v, w, kind, maker :
    StoreInv /\ Turns(t, v, w) /\ Sound(kind, maker, t, v) /\ ~ End(t)
      /\ (\/ RedeemLink(t) \/ ConsumeFormToken(t) \/ ConsumeOAuthState(t)
          \/ ConsumeOAuthExchangeCode(t) \/ MakeForm(t) \/ Prepare(t) \/ MakeExchange(t))
    => Turned(t) /\ Sound(kind, maker, t, w)' /\ w.solo = v.solo
  \* Taking a code: GET and then DEL, or both at once.
  <1>ConsumeFields.
    ASSUME NEW t \in Tabs, NEW v, NEW w, Turns(t, v, w), DOMAIN v = Fields, NEW f,
           DOMAIN f \subseteq Fields,
           Consume(t, f), ~ End(t)
    PROVE  /\ Turned(t) /\ UNCHANGED serverVars
           /\ \/ v.pc = "take" /\ w.pc = "drop" /\ Same(v, w, {"pc"})
              \/ v.pc \in {"take", "drop"} /\ Same(v, w, DOMAIN f) /\ \A x \in DOMAIN f : w[x] = f[x]
    <2>. USE <1>ConsumeFields
    <2>1. UNCHANGED serverVars /\ v.pc \in {"take", "drop"} /\ (Go(t, f) \/ (v.pc = "take"
          /\ Go(t, [pc |-> "drop"])))
      BY Zenon DEF Consume, At, Turns
    <2>2. ASSUME Go(t, [pc |-> "drop"])
          PROVE  Turned(t) /\ w.pc = "drop" /\ Same(v, w, {"pc"})
      <3>. DEFINE g == [pc |-> "drop"]
      <3>1. DOMAIN g = {"pc"} /\ g.pc = "drop" /\ DOMAIN g \subseteq Fields /\ Go(t, g)
        BY <2>2, Zenon DEF Fields
      <3>. HIDE DEF g
      <3>. QED BY <3>1, GoFields
    <2>3. ASSUME Go(t, f)
          PROVE  Turned(t) /\ Same(v, w, DOMAIN f) /\ \A x \in DOMAIN f : w[x] = f[x]
      BY <2>3, GoFields
    <2>. QED BY <2>1, <2>2, <2>3, Zenon
  <1>1.
    ASSUME StoreInv, NEW t \in Tabs, NEW v, NEW w, Turns(t, v, w), NEW kind, NEW maker,
           Sound(kind, maker, t, v), ~ End(t),
           \/ RedeemLink(t) \/ ConsumeFormToken(t) \/ ConsumeOAuthState(t)
           \/ ConsumeOAuthExchangeCode(t) \/ MakeForm(t) \/ Prepare(t) \/ MakeExchange(t)
    PROVE  Turned(t) /\ Sound(kind, maker, t, w)' /\ w.solo = v.solo
    <2>. USE <1>1
    <2>0. Control(v) /\ DocOK(v) /\ (v.solo => Alone(v)) /\ Keeps(kind, maker, t, v)
      BY Zenon DEF Sound
    <2>. DEFINE Taken == v.pc \in {"take", "drop"}
                Moved ==
                  \/ v.pc = "take" /\ w.pc = "drop" /\ w.code = v.code /\ w.then = v.then
                     /\ w.pair = v.pair /\ v.code.k \in {"link", "form", "state", "exchange"}
                  \/ Taken /\ v.code.k = "link" /\ w.pc = "form" /\ w.code = v.code
                     /\ w.then = v.then /\ w.pair = v.pair
                  \/ Taken /\ v.code.k = "form" /\ w.pc = "find" /\ w.code = v.code
                     /\ w.then = v.then /\ w.pair = v.pair
                  \/ Taken /\ v.code.k = "state" /\ w.pc = "take" /\ w.code = v.then
                     /\ w.then = v.then /\ w.pair = v.pair
                  \/ Taken /\ v.code.k = "exchange" /\ w.pc = "answer" /\ w.code = v.code
                     /\ w.then = v.then /\ w.pair = v.code.pair
                  \/ v.pc = "form" /\ w.pc = "answer" /\ w.code = v.code /\ w.pair = v.pair
                     /\ w.then = Form(v.code.kind, v.code.secret, t)
                  \/ v.pc = "state" /\ w.pc = "answer" /\ w.code = State(minted + 1)
                     /\ w.then = v.then /\ w.pair = v.pair
                  \/ v.pc = "exchange" /\ w.pc = "answer" /\ w.code = v.code
                     /\ w.then = Exchange(v.code.secret, v.pair) /\ w.pair = v.pair
    <2>1. /\ Turned(t) /\ Same(v, w, {"pc", "code", "then", "pair"})
             /\ UNCHANGED <<row, issued, floor, ended>>
          /\ minted' \in {minted, minted + 1} /\ Moved
      <3>0. v = req[t] /\ DOMAIN v = Fields
        BY <2>0, Zenon DEF Turns, Control
      <3>1. CASE RedeemLink(t)
        <4>1. Consume(t, [pc |-> "form"]) /\ v.code.k = "link"
          BY <3>0, <3>1, Zenon DEF RedeemLink
        <4>. QED BY <3>0, <4>1, <1>ConsumeFields, SMTT(30) DEF Fields, Same, serverVars
      <3>2. CASE ConsumeFormToken(t)
        <4>1. Consume(t, [pc |-> "find"]) /\ v.code.k = "form"
          BY <3>0, <3>2, Zenon DEF ConsumeFormToken
        <4>. QED BY <3>0, <4>1, <1>ConsumeFields DEF Fields, Same, serverVars
      <3>3. CASE ConsumeOAuthState(t)
        <4>1. Consume(t, [pc |-> "take", code |-> v.then]) /\ v.code.k = "state"
          BY <3>0, <3>3, Zenon DEF ConsumeOAuthState
        <4>. QED BY <3>0, <4>1, <1>ConsumeFields DEF Fields, Same, serverVars
      <3>4. CASE ConsumeOAuthExchangeCode(t)
        <4>1. Consume(t, [pc |-> "answer", pair |-> v.code.pair]) /\ v.code.k = "exchange"
          BY <3>0, <3>4, Zenon DEF ConsumeOAuthExchangeCode
        <4>. QED BY <3>0, <4>1, <1>ConsumeFields DEF Fields, Same, serverVars
      <3>5. CASE MakeForm(t)
        BY <3>0, <3>5, GoFields, SMTT(30) DEF MakeForm, At, Fields, Same, serverVars
      <3>6. CASE Prepare(t)
        BY <3>0, <3>6, GoFields, SMTT(30) DEF Prepare, At, Fields, Same, serverVars
      <3>7. CASE MakeExchange(t)
        BY <3>0, <3>7, GoFields DEF MakeExchange, At, Fields, Same, serverVars
      <3>. HIDE DEF Moved
      <3>. QED BY <3>1, <3>2, <3>3, <3>4, <3>5, <3>6, <3>7, Zenon
    <2>2. /\ w.op = v.op /\ w.doc = v.doc /\ w.token = v.token /\ w.isNew = v.isNew
          /\ w.solo = v.solo /\ w.stored = v.stored /\ DOMAIN w = Fields
      BY <2>1, Zenon DEF Same, Fields
    <2>3. OnRoute(v.op, v.pc) /\ v.isNew \in BOOLEAN
      BY <2>0, Zenon DEF Control
    <2>. HIDE DEF Moved
    <2>4. v.pc \in {"take", "drop", "form", "state", "exchange"}
          /\ w.pc \in {"drop", "form", "find", "take", "answer"}
      BY <2>1, Zenon DEF Moved
    <2>5. ~ v.isNew /\ (v.pc # "exchange" => v.pair = None) /\ (v.pc = "exchange" => v.op = "callback"
          /\ v.pair # None)
      BY <2>0, <2>3, <2>4, Zenon DEF Control, OnRoute
    <2>6. /\ Taken => v.op \in {"verify", "reset", "redeem", "exchange"}
          /\ v.pc = "form" => v.op = "redeem"
          /\ v.pc = "state" => v.op = "prepare"
      BY <2>3, Zenon DEF OnRoute
    <2>7. /\ v.op = "redeem" => v.code.k = "link"
          /\ v.op \in {"verify", "reset"} => v.code.k = "form"
          /\ v.op = "exchange" => v.code.k \in {"none", "state", "exchange"} /\ v.then.k = "exchange"
      BY <2>0, Zenon DEF Control
    <2>8. OnRoute(w.op, w.pc) /\ w.op # "none"
      <3>. QED BY <2>1, <2>2, <2>5, <2>6, <2>7, ZenonT(30) DEF OnRoute, Moved
    <2>9. Control(w)'
      <3>0. /\ Form(v.code.kind, v.code.secret, t).k = "form" /\ State(minted + 1).k = "state"
            /\ Exchange(v.code.secret, v.pair).k = "exchange"
            /\ Exchange(v.code.secret, v.pair).pair = v.pair
        BY DEF Form, State, Exchange
      <3>1. /\ w.op = "prepare" /\ w.pc = "answer" => w.code.k = "state"
            /\ w.op = "callback" /\ w.pc = "answer" => w.then.k = "exchange"
            /\ w.op = "redeem" => w.code.k = "link" /\ (w.pc = "answer" => w.then.k = "form")
        BY <2>0, <2>1, <2>2, <2>5, <2>6, <2>7, <3>0, ZenonT(30) DEF Control, Moved
      <3>2. PairOK(w.code)' /\ PairOK(w.then)' /\ w.pair \in {None} \cup 1 .. Len(issued')
            /\ w.token \in {None} \cup 1 .. Len(issued')
        BY <2>0, <2>1, <2>2, <2>5, <3>0, ZenonT(30) DEF Control, PairOK, Moved
      <3>3. /\ w.op \in {"verify", "reset"} => w.code.k = "form"
            /\ w.op = "exchange" => w.code.k \in {"none", "state", "exchange"} /\ w.then.k = "exchange"
        BY <2>1, <2>2, <2>5, <2>6, <2>7, <3>0, ZenonT(30) DEF Moved
      <3>4. /\ w.pc \notin {"publish", "exchange"} /\ ~ w.isNew /\ v.solo \in BOOLEAN
            /\ v.stored \in BOOLEAN /\ (w.op = "logout" => v.token # None)
            /\ w.op = "refresh" => v.token # None
            /\ w.pair # None => w.pc = "answer" /\ w.op # "reset"
        BY <2>0, <2>1, <2>2, <2>4, <2>5, <2>6, ZenonT(30) DEF Control, OnRoute, Moved
      <3>. QED BY <2>2, <2>3, <2>8, <3>1, <3>2, <3>3, <3>4, Zenon DEF Control
    <2>10. Grows
      BY <2>1 DEF Grows, StoreInv
    <2>11. Loaded(w) => Loaded(v)
      BY <2>2, <2>4, <2>5, Zenon DEF Loaded
    <2>12. Resetting(w) <=> Resetting(v)
      BY <2>2, <2>4, <2>5, Zenon DEF Resetting
    <2>13. DocOK(w)'
      BY <2>0, <2>1, <2>2, <2>4, <2>5, <2>8, <2>10, <2>11, <2>12, DocMoves, Zenon
    <2>14. Keeps(kind, maker, t, w)'
      <3>1. ~ Making(v) /\ ~ Making(w)
        BY <2>4, Zenon DEF Making
      <3>2. Known(kind, maker, v.code) /\ Known(kind, maker, v.then)
        BY <2>0, <3>1, Zenon DEF Keeps
      <3>3. /\ Known(kind, maker, State(minted + 1))
            /\ Known(kind, maker, Exchange(v.code.secret, v.pair))
            /\ v.code.k = "link" => Known(kind, maker, Form(v.code.kind, v.code.secret, t))
        BY <3>2, Zenon DEF Known, State, Exchange, Form
      <3>4. /\ w.code \in {v.code, v.then, State(minted + 1)}
            /\ \/ w.then \in {v.then, Exchange(v.code.secret, v.pair)}
               \/ v.code.k = "link" /\ w.then = Form(v.code.kind, v.code.secret, t)
            /\ w.op \in {"verify", "reset"} => w.code = v.code
        BY <2>1, <2>2, <2>5, <2>6, <2>7, Zenon DEF Moved
      <3>5. Known(kind, maker, w.code) /\ Known(kind, maker, w.then)
        BY <3>2, <3>3, <3>4, Zenon
      <3>. QED BY <2>0, <2>2, <2>4, <2>10, <2>12, <3>1, <3>4, <3>5, KeepsMoves, Zenon
    <2>15. w.solo => Alone(w)'
      <3>1. w.op \notin {"logout"} /\ (w.op = "reset" => w.pc # "answer") /\ w.pc # "reset"
            /\ w.pc # "publish"
            /\ (w.op # "exchange" => w.pair = v.pair)
        BY <2>1, <2>2, <2>5, <2>6, <2>7, Zenon DEF Moved
      <3>2. v.op # "exchange" /\ v.pair # None => v.pc # "publish"
        BY <2>4, Zenon
      <3>. QED BY <2>0, <2>1, <2>2, <3>1, <3>2, Zenon DEF Alone, Sessions
    <2>. QED BY <2>1, <2>2, <2>9, <2>13, <2>14, <2>15, Zenon DEF Sound
  <1>. QED BY <1>1, Zenon

\* publishTokenVersion.
LEMMA PublishKeeps ==
  ASSUME StoreInv, NEW t \in Tabs, NEW v, NEW w, Turns(t, v, w), NEW kind, NEW maker,
         Sound(kind, maker, t, v), Publish(t)
  PROVE  Turned(t) /\ Sound(kind, maker, t, w)' /\ w.solo = v.solo
  <1>0. Control(v) /\ DocOK(v) /\ (v.solo => Alone(v)) /\ Keeps(kind, maker, t, v)
        /\ DOMAIN v = Fields
    BY Zenon DEF Sound, Control
  <1>1. PICK b \in BOOLEAN :
          /\ v.pc = "publish" /\ (b => floor' = v.doc.values.tokenVersion)
          /\ Go(t, [pc |-> CASE v.op = "reset" -> "readback" [] v.op = "callback" -> "exchange" [] OTHER -> "answer",
                    doc |-> IF v.op = "reset" THEN v.doc ELSE NoDoc, stored |-> b])
          /\ UNCHANGED <<row, issued, minted, ended>>
    BY Zenon DEF Publish, At, Turns, Doc
  <1>. DEFINE g == [pc |-> CASE v.op = "reset" -> "readback" [] v.op = "callback" -> "exchange" [] OTHER -> "answer",
                    doc |-> IF v.op = "reset" THEN v.doc ELSE NoDoc, stored |-> b]
  <1>2. /\ DOMAIN g = {"pc", "doc", "stored"} /\ DOMAIN g \subseteq Fields /\ g.stored = b
        /\ g.pc = IF v.op = "reset" THEN "readback" ELSE IF v.op = "callback" THEN "exchange" ELSE "answer"
        /\ g.doc = IF v.op = "reset" THEN v.doc ELSE NoDoc
    BY Zenon DEF Fields
  <1>. HIDE DEF g
  <1>3. Turned(t) /\ Same(v, w, {"pc", "doc", "stored"}) /\ \A x \in DOMAIN g : w[x] = g[x]
    <2>1. Go(t, g)
      BY <1>1, Zenon DEF g
    <2>. QED BY <1>0, <1>2, <2>1, GoFields
  <1>4. /\ w.op = v.op /\ w.token = v.token /\ w.pair = v.pair /\ w.isNew = v.isNew
        /\ w.code = v.code /\ w.then = v.then /\ w.solo = v.solo
        /\ Same(v, w, {"pc", "doc", "isNew", "stored"})
    BY <1>3, Zenon DEF Same, Fields
  <1>5. /\ w.stored = b
        /\ w.pc = IF w.op = "reset" THEN "readback" ELSE IF w.op = "callback" THEN "exchange" ELSE "answer"
        /\ w.doc = IF w.op = "reset" THEN v.doc ELSE NoDoc
    BY <1>2, <1>3, <1>4, Zenon
  <1>6. /\ v.op \in {"login", "verify", "reset", "refresh", "callback"} /\ OnRoute(w.op, w.pc)
        /\ v.isNew \in BOOLEAN /\ ~ v.isNew /\ (v.pair # None => v.op # "reset")
        /\ v.op = "callback" => v.pair # None
    BY <1>0, <1>1, <1>4, <1>5, Zenon DEF Control, OnRoute
  <1>7. Control(w)'
    BY <1>0, <1>1, <1>4, <1>5, <1>6, ControlMoves, Zenon
  <1>8. Grows
    BY <1>1 DEF Grows, StoreInv
  <1>9. CASE w.op = "reset"
    <2>1. /\ Resetting(w) /\ Resetting(v) /\ Loaded(v) /\ ~ Making(v) /\ ~ Making(w)
             /\ w.doc = v.doc
          /\ w.pc = "readback" /\ v.pair = None
      BY <1>1, <1>4, <1>5, <1>6, <1>9, Zenon DEF Resetting, Loaded, Making
    <2>2. DocOK(w)'
      BY <1>0, <1>1, <1>4, <1>6, <1>8, <1>9, <2>1, DocMoves, ZenonT(30)
    <2>3. Known(kind, maker, v.code) /\ Known(kind, maker, v.then)
      BY <1>0, <2>1, Zenon DEF Keeps
    <2>4. Keeps(kind, maker, t, w)'
      BY <1>0, <1>4, <1>8, <1>9, <2>1, <2>3, KeepsMoves, Zenon
    <2>5. "tokenVersion" \in v.doc.modified
      BY <1>0, <2>1, Zenon DEF DocOK
    <2>6. Alone(w)'
      BY <1>4, <1>9, <2>1, <2>5, Zenon DEF Alone
    <2>. QED BY <1>3, <1>4, <1>7, <2>2, <2>4, <2>6, Zenon DEF Sound
  <1>10. CASE w.op # "reset"
    <2>1. /\ ~ Resetting(w) /\ ~ Making(v) /\ ~ Making(w) /\ w.doc = NoDoc
             /\ w.pc \in {"exchange", "answer"}
          /\ ~ Resetting(w)' /\ ~ Loaded(w)' /\ w.op \notin {"none", "logout", "exchange"}
      BY <1>1, <1>4, <1>5, <1>6, <1>10, Zenon DEF Resetting, Loaded, Making
    <2>2. w.doc.modified = {} /\ DOMAIN w.doc.values = {} /\ DocFits(w.doc)'
      BY <2>1 DEF NoDoc, DocFits, Fits
    <2>3. DocOK(w)'
      BY <1>4, <1>6, <2>1, <2>2, Zenon DEF DocOK
    <2>4. /\ Known(kind, maker, v.code) /\ Known(kind, maker, v.then)
          /\ v.op = "verify" => v.code.kind = "verify-email"
      BY <1>0, <2>1, Zenon DEF Keeps
    <2>5. Known(kind, maker, w.code)' /\ Known(kind, maker, w.then)'
      BY <1>4, <1>8, <2>4, KnownGrows, Zenon
    <2>6. Keeps(kind, maker, t, w)'
      BY <1>4, <1>10, <2>1, <2>2, <2>4, <2>5, KeepsClean, Zenon
    <2>7. "tokenVersion" \in DOMAIN v.doc.values /\ "tokenVersion" \notin v.doc.modified
      BY <1>0, <1>1, <1>4, <1>10, Zenon DEF DocOK, Loaded, Resetting
    <2>8. w.solo /\ w.pair # None => /\ issued'[w.pair] = row'.tokenVersion /\ w.pair \in Sessions'
                                     /\ w.stored => floor' = issued'[w.pair]
      BY <1>0, <1>1, <1>4, <1>5, <2>1, <2>7 DEF Alone, Sessions
    <2>9. w.solo => Alone(w)'
      BY <1>10, <2>1, <2>2, <2>8, Zenon DEF Alone
    <2>. QED BY <1>3, <1>4, <1>7, <2>3, <2>6, <2>9, Zenon DEF Sound
  <1>. QED BY <1>9, <1>10, Zenon

-----------------------------------------------------------------------------
(* Steps that read the row *)

\* A document of the row as it is now.
Current(doc) ==
  /\ DocFits(doc) /\ "tokenVersion" \in DOMAIN doc.values
  /\ "tokenVersion" \notin doc.modified => doc.values.tokenVersion = row.tokenVersion

\* A step that loads the row and leaves the store as it is.
Fetches(t, v, w) ==
  /\ Turned(t) /\ Same(v, w, {"pc", "doc"}) /\ UNCHANGED <<row, issued, minted, floor, ended>>
  /\ v.pc \in {"find", "kill"} /\ row # None /\ Current(w.doc)

\* What each handler makes of the row it loaded.
Reads(v, w) ==
  /\ w.doc.modified = {}
  /\ \/ w.pc \in {"rehash", "persist"} /\ v.op = "login"
     \/ w.pc = "persist" /\ v.op = "callback"
     \/ w.pc \in {"recheck", "kill"} /\ v.op = "refresh"

Verifies(v, w) ==
  /\ w.pc = "save" /\ v.op = "verify" /\ w.doc.values.emailVerificationToken = 0
  /\ w.doc.modified = {"password", "isEmailVerified", "emailVerificationToken"}

Links(v, w) == w.pc = "save" /\ v.op = "callback"
/\ w.doc.modified = {"provider", "isEmailVerified"}

Kills(v, w) ==
  w.pc = "killed" /\ v.op = "refresh"
  /\ w.doc.modified = {"refreshTokens", "activeAccessJtis", "tokenVersion"}

Resets(v, w) ==
  /\ w.pc = "publish" /\ v.op = "reset"
  /\ w.doc.modified = {"refreshTokens", "activeAccessJtis", "tokenVersion", "password",
     "passwordResetToken"}
  /\ w.doc.values.refreshTokens = <<>> /\ w.doc.values.passwordResetToken = 0

Removes(v, w) ==
  /\ w.pc = "remove" /\ v.op = "logout" /\ w.doc.modified = {"refreshTokens"}
  /\ v.token \notin ListOf(w.doc.values.refreshTokens)

\* The values that handlers assign.
LEMMA UpdatesFit ==
  ASSUME StoreInv
  PROVE  /\ Fits(Linked)
         /\ Fits([password |-> "peppered", isEmailVerified |-> TRUE, emailVerificationToken |-> 0])
         /\ row # None => /\ Fits(NoSessions(row.tokenVersion + 1))
                          /\ Fits(Over([password |-> "peppered", passwordResetToken |-> 0],
                                       NoSessions(row.tokenVersion + 1)))
                          /\ \A e : Fits([refreshTokens |-> Pull(row.refreshTokens, e)])
  <1>0. TRUE \in FieldSets.isEmailVerified
    BY Columns, Zenon
  <1>1. Fits(Linked)
    <2>1. "google" \in FieldSets.provider
      BY Columns, Zenon
    <2>2. \A b \in FieldSets.isEmailVerified : Fits([provider |-> "google", isEmailVerified |-> b])
      BY <2>1 DEF Fits, RowFields
    <2>. QED BY <1>0, <2>2, Zenon DEF Linked
  <1>2. Fits([password |-> "peppered", isEmailVerified |-> TRUE, emailVerificationToken |-> 0])
    <2>1. "peppered" \in FieldSets.password /\ 0 \in FieldSets.emailVerificationToken
      BY Columns DEF StoreInv
    <2>2. \A b \in FieldSets.isEmailVerified :
            Fits([password |-> "peppered", isEmailVerified |-> b, emailVerificationToken |-> 0])
      BY <2>1 DEF Fits, RowFields
    <2>. QED BY <1>0, <2>2, Zenon
  <1>3. ASSUME row # None
        PROVE  Fits(NoSessions(row.tokenVersion + 1))
    <2>1. <<>> \in FieldSets.refreshTokens /\ <<>> \in FieldSets.activeAccessJtis
      BY CapAssumption, Columns DEF ListOf
    <2>2. row.tokenVersion + 1 \in FieldSets.tokenVersion
      BY <1>3, RowFacts, Columns DEF StoreInv
    <2>. QED BY <2>1, <2>2 DEF Fits, RowFields, NoSessions
  <1>4. Fits([password |-> "peppered", passwordResetToken |-> 0])
    BY Columns DEF Fits, RowFields, StoreInv
  <1>5. ASSUME row # None, NEW e
        PROVE  Fits([refreshTokens |-> Pull(row.refreshTokens, e)])
    <2>1. /\ row.refreshTokens \in Seq(1 .. Len(issued)) /\ Len(row.refreshTokens) <= MAX_REFRESH
          /\ ListOf(row.refreshTokens) \cap ended = {}
      BY <1>5, RowFacts, Zenon DEF StoreInv
    <2>. DEFINE q == Pull(row.refreshTokens, e)
    <2>2. q \in Seq(1 .. Len(issued)) /\ Len(q) <= Len(row.refreshTokens)
          /\ ListOf(q) = ListOf(row.refreshTokens) \ {e}
      BY <2>1, PullFacts, Zenon
    <2>. HIDE DEF q
    <2>3. q \in FieldSets.refreshTokens
      BY <2>1, <2>2, CapAssumption, Columns
    <2>. QED BY <2>3 DEF Fits, RowFields, q
  <1>. QED BY <1>1, <1>2, <1>3, <1>4, <1>5, OverFits, Zenon

\* The steps that load the row.
LEMMA LoadsKeep ==
  \A t \in Tabs : \A v, w, kind, maker :
    StoreInv /\ Turns(t, v, w) /\ Sound(kind, maker, t, v) /\ ~ End(t)
      /\ (\/ LoginFind(t) \/ RefreshFind(t) \/ FindUserForOAuth(t) \/ VerifyFind(t)
          \/ Kill(t) \/ ResetFind(t) \/ LogoutFind(t))
    => Turned(t) /\ Sound(kind, maker, t, w)' /\ w.solo = v.solo
  \* Loading one, and assigning to it.
  <1>FetchFacts.
    ASSUME StoreInv, row # None, NEW plus \in SUBSET RowFields, NEW f, Fits(f)
    PROVE  LET to == Assign(Select(row, plus), f) IN
           /\ Current(Select(row, plus)) /\ Select(row, plus).modified = {}
           /\ Current(to) /\ to.modified = DOMAIN f /\ \A x \in DOMAIN f : to.values[x] = f[x]
    <2>. USE <1>FetchFacts
    <2>. DEFINE doc == Select(row, plus)
                to == Assign(doc, f)
    <2>1. /\ DocFits(doc) /\ doc.modified = {} /\ "tokenVersion" \in DOMAIN doc.values
          /\ doc.values.tokenVersion = row.tokenVersion
      BY SelectFits DEF StoreInv, RowFields, SENSITIVE_FIELDS
    <2>2. Current(doc)
      BY <2>1, Zenon DEF Current
    <2>. HIDE DEF doc
    <2>3. /\ DocFits(to) /\ to.modified = doc.modified \cup DOMAIN f
          /\ DOMAIN to.values = DOMAIN doc.values \cup DOMAIN f
          /\ \A x \in DOMAIN f : to.values[x] = f[x]
          /\ \A x \in DOMAIN doc.values \ DOMAIN f : to.values[x] = doc.values[x]
      BY <2>1, AssignFits, Zenon
    <2>. HIDE DEF to
    <2>4. Current(to)
      BY <2>1, <2>3, Zenon DEF Current
    <2>. QED BY <2>1, <2>2, <2>3, <2>4, Zenon DEF doc, to
  \* login, refreshAccessToken and a known provider account only read it.
  <1>ReadsRow.
    ASSUME StoreInv, NEW t \in Tabs, NEW v, NEW w, Turns(t, v, w), DOMAIN v = Fields, row # None,
           NEW plus \in SUBSET RowFields, NEW pc,
           \/ Go(t, [doc |-> Select(row, plus), pc |-> pc])
           \/ Go(t, [pc |-> pc, doc |-> Select(row, plus)])
    PROVE  Turned(t) /\ Same(v, w, {"pc", "doc"}) /\ Current(w.doc) /\ w.doc.modified = {}
           /\ w.pc = pc
    <2>. USE <1>ReadsRow
    <2>1. Fits(Linked)
      BY UpdatesFit, Zenon
    <2>2. Current(Select(row, plus)) /\ Select(row, plus).modified = {}
      BY <2>1, <1>FetchFacts, Zenon
    <2>. QED BY <2>2, GoDoc, Zenon
  \* login's.
  <1>LoginLoads.
    ASSUME StoreInv, NEW t \in Tabs, NEW v, NEW w, Turns(t, v, w), DOMAIN v = Fields,
           LoginFind(t), ~ End(t)
    PROVE  Fetches(t, v, w) /\ Reads(v, w)
    <2>. USE <1>LoginLoads
    <2>1. PICK pc \in {"rehash", "persist"} : Go(t, [doc |-> Select(row, {"password",
               "refreshTokens"}), pc |-> pc])
      BY Zenon DEF LoginFind
    <2>2. row # None /\ v.pc = "find" /\ v.op = "login"
          /\ UNCHANGED <<row, issued, minted, floor, ended>>
      BY Zenon DEF LoginFind, At, ByEmail, serverVars, Turns
    <2>3. {"password", "refreshTokens"} \in SUBSET RowFields
      BY Zenon DEF RowFields
    <2>4. Turned(t) /\ Same(v, w, {"pc", "doc"}) /\ Current(w.doc) /\ w.doc.modified = {} /\ w.pc = pc
      BY <2>1, <2>2, <2>3, <1>ReadsRow, ZenonT(30)
    <2>. QED BY <2>1, <2>2, <2>4, Zenon DEF Fetches, Reads
  \* refreshAccessToken's.
  <1>RefreshLoads.
    ASSUME StoreInv, NEW t \in Tabs, NEW v, NEW w, Turns(t, v, w), DOMAIN v = Fields, row # None,
           RefreshFind(t)
    PROVE  Fetches(t, v, w) /\ Reads(v, w)
    <2>. USE <1>RefreshLoads
    <2>1. PICK pc \in {"recheck", "kill"} : Go(t, [doc |-> Select(row, {"refreshTokens"}), pc |-> pc])
      BY Zenon DEF RefreshFind
    <2>2. v.pc = "find" /\ v.op = "refresh" /\ UNCHANGED <<row, issued, minted, floor, ended>>
      BY Zenon DEF RefreshFind, At, serverVars, Turns
    <2>3. {"refreshTokens"} \in SUBSET RowFields
      BY Zenon DEF RowFields
    <2>4. Turned(t) /\ Same(v, w, {"pc", "doc"}) /\ Current(w.doc) /\ w.doc.modified = {} /\ w.pc = pc
      BY <2>1, <2>3, <1>ReadsRow, Zenon
    <2>. QED BY <2>1, <2>2, <2>4, Zenon DEF Fetches, Reads
  \* The others change what they loaded.
  <1>AssignsRow.
    ASSUME StoreInv, NEW t \in Tabs, NEW v, NEW w, Turns(t, v, w), DOMAIN v = Fields, row # None,
           NEW plus \in SUBSET RowFields, NEW f, Fits(f), NEW pc,
           Go(t, [pc |-> pc, doc |-> Assign(Select(row, plus), f)])
    PROVE  /\ Turned(t) /\ Same(v, w, {"pc", "doc"}) /\ Current(w.doc) /\ w.pc = pc
           /\ w.doc.modified = DOMAIN f /\ \A x \in DOMAIN f : w.doc.values[x] = f[x]
    <2>. USE <1>AssignsRow
    <2>. DEFINE doc == Assign(Select(row, plus), f)
    <2>1. Current(doc) /\ doc.modified = DOMAIN f /\ \A x \in DOMAIN f : doc.values[x] = f[x]
      BY <1>FetchFacts, Zenon
    <2>2. Turned(t) /\ Same(v, w, {"pc", "doc"}) /\ w.doc = doc /\ w.pc = pc
      BY GoDoc, Zenon
    <2>. HIDE DEF doc
    <2>. QED BY <2>1, <2>2, Zenon
  \* The OAuth strategy's.
  <1>OAuthLoads.
    ASSUME StoreInv, NEW t \in Tabs, NEW v, NEW w, Turns(t, v, w), DOMAIN v = Fields,
           FindUserForOAuth(t)
    PROVE  Fetches(t, v, w) /\ (Reads(v, w) \/ Links(v, w))
    <2>. USE <1>OAuthLoads
    <2>0. v.pc = "find" /\ v.op = "callback" /\ row # None
          /\ UNCHANGED <<row, issued, minted, floor, ended>>
      BY Zenon DEF FindUserForOAuth, At, ByEmail, serverVars, Turns
    <2>1. CASE Go(t, [pc |-> "persist", doc |-> Select(row, {})])
      <3>1. /\ Turned(t) /\ Same(v, w, {"pc", "doc"}) /\ Current(w.doc) /\ w.doc.modified = {}
            /\ w.pc = "persist"
        BY <2>0, <2>1, <1>ReadsRow
      <3>. QED BY <2>0, <3>1, Zenon DEF Fetches, Reads
    <2>2. CASE Go(t, [pc |-> "save", doc |-> Assign(Select(row, {}), Linked)])
      <3>1. Fits(Linked) /\ DOMAIN Linked = {"provider", "isEmailVerified"}
        BY UpdatesFit, Zenon DEF Linked
      <3>2. /\ Turned(t) /\ Same(v, w, {"pc", "doc"}) /\ Current(w.doc)
               /\ w.doc.modified = DOMAIN Linked
            /\ w.pc = "save"
        BY <2>0, <2>2, <3>1, <1>AssignsRow
      <3>. QED BY <2>0, <3>1, <3>2, Zenon DEF Fetches, Links
    <2>. QED BY <2>1, <2>2, Zenon DEF FindUserForOAuth
  \* verifyEmail's.
  <1>VerifyLoads.
    ASSUME StoreInv, NEW t \in Tabs, NEW v, NEW w, Turns(t, v, w), DOMAIN v = Fields,
           VerifyFind(t), ~ End(t)
    PROVE  Fetches(t, v, w) /\ Verifies(v, w)
    <2>. USE <1>VerifyLoads
    <2>. DEFINE f == [password |-> "peppered", isEmailVerified |-> TRUE, emailVerificationToken |-> 0]
    <2>0. v.pc = "find" /\ v.op = "verify" /\ row # None
          /\ UNCHANGED <<row, issued, minted, floor, ended>>
      BY Zenon DEF VerifyFind, At, serverVars, Turns
    <2>1. Go(t, [pc |-> "save", doc |-> Assign(Select(row, {"refreshTokens", "password"}), f)])
      BY Zenon DEF VerifyFind
    <2>2. /\ Fits(f) /\ DOMAIN f = {"password", "isEmailVerified", "emailVerificationToken"}
          /\ f.emailVerificationToken = 0
      BY UpdatesFit, Zenon
    <2>3. {"refreshTokens", "password"} \in SUBSET RowFields
      BY Zenon DEF RowFields
    <2>. HIDE DEF f
    <2>4. /\ Turned(t) /\ Same(v, w, {"pc", "doc"}) /\ Current(w.doc) /\ w.pc = "save"
          /\ w.doc.modified = DOMAIN f /\ \A x \in DOMAIN f : w.doc.values[x] = f[x]
      BY <2>0, <2>1, <2>2, <2>3, <1>AssignsRow, SMTT(30)
    <2>. QED BY <2>0, <2>2, <2>4, Zenon DEF Fetches, Verifies
  \* invalidateAllSessions'.
  <1>KillLoads.
    ASSUME StoreInv, NEW t \in Tabs, NEW v, NEW w, Turns(t, v, w), DOMAIN v = Fields, row # None,
           v.op = "refresh", Kill(t)
    PROVE  Fetches(t, v, w) /\ Kills(v, w)
    <2>. USE <1>KillLoads
    <2>. DEFINE f == NoSessions(row.tokenVersion + 1)
    <2>0. v.pc = "kill" /\ UNCHANGED <<row, issued, minted, floor, ended>>
      BY Zenon DEF Kill, At, serverVars, Turns
    <2>1. Go(t, [pc |-> "killed", doc |-> Assign(Select(row, {"refreshTokens", "activeAccessJtis"}),
          f)])
      BY Zenon DEF Kill
    <2>2. DOMAIN f = {"refreshTokens", "activeAccessJtis", "tokenVersion"}
      BY Zenon DEF NoSessions
    <2>3. Fits(f)
      BY UpdatesFit, Zenon
    <2>4. {"refreshTokens", "activeAccessJtis"} \in SUBSET RowFields
      BY Zenon DEF RowFields
    <2>. HIDE DEF f
    <2>5. /\ Turned(t) /\ Same(v, w, {"pc", "doc"}) /\ Current(w.doc) /\ w.pc = "killed"
          /\ w.doc.modified = DOMAIN f
      BY <2>1, <2>3, <2>4, <1>AssignsRow
    <2>. QED BY <2>0, <2>2, <2>5, Zenon DEF Fetches, Kills
  \* resetPassword's.
  <1>ResetLoads.
    ASSUME StoreInv, NEW t \in Tabs, NEW v, NEW w, Turns(t, v, w), DOMAIN v = Fields,
           ResetFind(t), ~ End(t)
    PROVE  Fetches(t, v, w) /\ Resets(v, w)
    <2>. USE <1>ResetLoads
    <2>. DEFINE f == Over([password |-> "peppered", passwordResetToken |-> 0],
                NoSessions(row.tokenVersion + 1))
    <2>0. v.pc = "find" /\ v.op = "reset" /\ row # None
          /\ UNCHANGED <<row, issued, minted, floor, ended>>
      BY Zenon DEF ResetFind, At, serverVars, Turns
    <2>1. Go(t, [pc |-> "publish", doc |-> Assign(Select(row, {"refreshTokens", "activeAccessJtis"}),
          f)])
      BY Zenon DEF ResetFind
    <2>2. /\ DOMAIN f = {"refreshTokens", "activeAccessJtis", "tokenVersion", "password",
             "passwordResetToken"}
          /\ f.refreshTokens = <<>> /\ f.passwordResetToken = 0
      BY Zenon DEF NoSessions, Over
    <2>3. Fits(f)
      BY <2>0, UpdatesFit, Zenon
    <2>4. {"refreshTokens", "activeAccessJtis"} \in SUBSET RowFields
      BY Zenon DEF RowFields
    <2>. HIDE DEF f
    <2>5. /\ Turned(t) /\ Same(v, w, {"pc", "doc"}) /\ Current(w.doc) /\ w.pc = "publish"
          /\ w.doc.modified = DOMAIN f /\ \A x \in DOMAIN f : w.doc.values[x] = f[x]
      BY <2>0, <2>1, <2>3, <2>4, <1>AssignsRow
    <2>. QED BY <2>0, <2>2, <2>5, Zenon DEF Fetches, Resets
  \* removeRefreshToken's.
  <1>LogoutLoads.
    ASSUME StoreInv, NEW t \in Tabs, NEW v, NEW w, Turns(t, v, w), DOMAIN v = Fields, LogoutFind(t)
    PROVE  \/ Fetches(t, v, w) /\ Removes(v, w)
           \/ /\ Turned(t) /\ Same(v, w, {"pc"}) /\ UNCHANGED <<row, issued, minted, floor, ended>>
              /\ v.pc = "find" /\ v.op = "logout" /\ w.pc = "answer" /\ v.token \notin Sessions
    <2>. USE <1>LogoutLoads
    <2>0. v.pc = "find" /\ v.op = "logout" /\ UNCHANGED <<row, issued, minted, floor, ended>>
      BY Zenon DEF LogoutFind, At, serverVars, Turns
    <2>1. CASE v.token \in Sessions
      <3>. DEFINE q == Pull(row.refreshTokens, v.token)
                  f == [refreshTokens |-> q]
      <3>1. row # None /\ Go(t, [pc |-> "remove", doc |-> Assign(Select(row, {"refreshTokens"}), f)])
        BY <2>1, Zenon DEF LogoutFind, Sessions, Turns
      <3>2. v.token \notin ListOf(q)
        BY <3>1, RowFacts, PullFacts DEF StoreInv
      <3>3. Fits(f)
        BY <3>1, UpdatesFit, Zenon
      <3>. HIDE DEF q
      <3>4. DOMAIN f = {"refreshTokens"} /\ f.refreshTokens = q
        BY Zenon
      <3>5. {"refreshTokens"} \in SUBSET RowFields
        BY Zenon DEF RowFields
      <3>. HIDE DEF f
      <3>6. /\ Turned(t) /\ Same(v, w, {"pc", "doc"}) /\ Current(w.doc) /\ w.pc = "remove"
            /\ w.doc.modified = DOMAIN f /\ \A x \in DOMAIN f : w.doc.values[x] = f[x]
        BY <3>1, <3>3, <3>5, <1>AssignsRow
      <3>. QED BY <2>0, <3>1, <3>2, <3>4, <3>6, Zenon DEF Fetches, Removes
    <2>2. CASE v.token \notin Sessions
      <3>1. Go(t, [pc |-> "answer"])
        BY <2>2, Zenon DEF LogoutFind, Turns
      <3>. DEFINE g == [pc |-> "answer"]
      <3>2. DOMAIN g = {"pc"} /\ g.pc = "answer" /\ DOMAIN g \subseteq Fields /\ Go(t, g)
        BY <3>1, Zenon DEF Fields
      <3>. HIDE DEF g
      <3>3. Turned(t) /\ Same(v, w, {"pc"}) /\ w.pc = "answer"
        BY <3>2, GoFields
      <3>. QED BY <2>0, <2>2, <3>3, Zenon
    <2>. QED BY <2>1, <2>2, Zenon
  \* The request that has loaded the row is sound.
  <1>FetchSound.
    ASSUME StoreInv, NEW t, NEW v, NEW w, NEW kind, NEW maker, Sound(kind, maker, t, v), Fetches(t, v,
           w),
           \/ Reads(v, w) \/ Verifies(v, w) \/ Links(v, w) \/ Kills(v, w) \/ Resets(v,
              w) \/ Removes(v, w)
    PROVE  Sound(kind, maker, t, w)'
    <2>. USE <1>FetchSound
    <2>0. /\ Control(v) /\ Keeps(kind, maker, t, v) /\ Same(v, w, {"pc", "doc"})
          /\ UNCHANGED <<row, issued, minted, floor, ended>>
          /\ v.pc \in {"find", "kill"} /\ row # None /\ Current(w.doc)
      BY Zenon DEF Sound, Fetches
    <2>. DEFINE To ==
             \/ v.op = "login" /\ w.pc \in {"rehash", "persist"}
             \/ v.op = "callback" /\ w.pc \in {"persist", "save"}
             \/ v.op = "refresh" /\ w.pc \in {"recheck", "kill", "killed"}
             \/ v.op = "verify" /\ w.pc = "save"
             \/ v.op = "reset" /\ w.pc = "publish"
             \/ v.op = "logout" /\ w.pc = "remove"
    <2>1. To
      BY Zenon DEF Reads, Verifies, Links, Kills, Resets, Removes
    <2>2. /\ "tokenVersion" \in w.doc.modified => w.pc \in {"killed", "publish"}
          /\ v.op = "reset" => /\ "refreshTokens" \in w.doc.modified /\ "tokenVersion" \in w.doc.modified
                               /\ w.doc.values.refreshTokens = <<>>
                               /\ "passwordResetToken" \in w.doc.modified
          /\ "passwordResetToken" \in w.doc.modified => w.doc.values.passwordResetToken = 0
          /\ v.op = "verify" => "emailVerificationToken" \in w.doc.modified
          /\ "emailVerificationToken" \in w.doc.modified => w.doc.values.emailVerificationToken = 0
          /\ v.op = "logout" => "refreshTokens" \in w.doc.modified
                                /\ v.token \notin ListOf(w.doc.values.refreshTokens)
      BY Zenon DEF Reads, Verifies, Links, Kills, Resets, Removes
    <2>3. /\ w.op = v.op /\ w.token = v.token /\ w.pair = v.pair /\ w.isNew = v.isNew
          /\ w.code = v.code /\ w.then = v.then /\ w.solo = v.solo /\ w.stored = v.stored
          /\ Same(v, w, {"pc", "doc", "isNew", "stored"})
      BY <2>0, Zenon DEF Same, Fields
    <2>4. ~ v.isNew /\ v.pair = None /\ v.isNew \in BOOLEAN /\ v.stored \in BOOLEAN
      BY <2>0, Zenon DEF Control
    <2>5. OnRoute(w.op, w.pc) /\ w.op # "none"
      BY <2>1, <2>3, Zenon DEF OnRoute
    <2>6. /\ w.pc \notin {"answer", "exchange", "reset", "readback"}
             /\ (w.pc = "publish" <=> w.op = "reset")
          /\ w.pc = "remove" <=> w.op = "logout"
          /\ w.pc = "save" => w.op \in {"callback", "verify"}
      BY <2>1, <2>3, Zenon
    <2>. HIDE DEF To
    <2>7. Control(w)'
      BY <2>0, <2>3, <2>4, <2>5, <2>6, ControlMoves, Zenon
    <2>8. Grows
      BY <2>0 DEF Grows, StoreInv
    <2>9. DocFits(w.doc) /\ "tokenVersion" \in DOMAIN w.doc.values
          /\ ("tokenVersion" \notin w.doc.modified => w.doc.values.tokenVersion = row.tokenVersion)
      BY <2>0, Zenon DEF Current
    <2>10. DocFits(w.doc)' /\ w.doc.modified \subseteq DOMAIN w.doc.values
      BY <2>8, <2>9, FitsGrows, Zenon DEF DocFits
    <2>11. DocOK(w)'
      <3>1. Resetting(w)' <=> w.op = "reset"
        BY <2>6, Zenon DEF Resetting
      <3>. QED BY <2>0, <2>2, <2>3, <2>4, <2>5, <2>6, <2>9, <2>10, <3>1, Zenon DEF DocOK
    <2>12. Keeps(kind, maker, t, w)'
      <3>1. ~ Making(v) /\ ~ Making(w)'
        BY <2>0, <2>6, Zenon DEF Making
      <3>2. Known(kind, maker, w.code)' /\ Known(kind, maker, w.then)'
        BY <2>0, <2>3, <2>8, <3>1, KnownGrows, Zenon DEF Keeps
      <3>3. Assigns(w, "emailVerificationToken", "verify-email")'
            /\ Assigns(w, "passwordResetToken", "reset-password")'
        BY <2>2, Zenon DEF Assigns
      <3>. QED BY <2>0, <2>2, <2>3, <3>1, <3>2, <3>3, Zenon DEF Keeps
    <2>13. Alone(w)'
      BY <2>0, <2>3, <2>4, <2>6, <2>9, Zenon DEF Alone
    <2>. QED BY <2>7, <2>11, <2>12, <2>13, Zenon DEF Sound
  \* So is a sign-out that found nothing to remove.
  <1>SignedOutSound.
    ASSUME StoreInv, NEW t, NEW v, NEW w, NEW kind, NEW maker, Sound(kind, maker, t, v),
           Same(v, w, {"pc"}), UNCHANGED <<row, issued, minted, floor, ended>>,
           v.pc = "find", v.op = "logout", w.pc = "answer", v.token \notin Sessions
    PROVE  Sound(kind, maker, t, w)'
    <2>. USE <1>SignedOutSound
    <2>0. Control(v) /\ DocOK(v) /\ (v.solo => Alone(v)) /\ Keeps(kind, maker, t, v)
      BY Zenon DEF Sound
    <2>1. /\ w.op = v.op /\ w.doc = v.doc /\ w.token = v.token /\ w.pair = v.pair /\ w.isNew = v.isNew
          /\ w.code = v.code /\ w.then = v.then /\ w.solo = v.solo /\ w.stored = v.stored
          /\ Same(v, w, {"pc", "doc", "isNew", "stored"})
      BY Zenon DEF Same, Fields
    <2>2. ~ v.isNew /\ v.pair = None /\ v.isNew \in BOOLEAN /\ v.stored \in BOOLEAN
      BY <2>0, Zenon DEF Control
    <2>3. OnRoute(w.op, w.pc)
      BY <2>1, Zenon DEF OnRoute
    <2>4. Control(w)'
      BY <2>0, <2>1, <2>2, <2>3, ControlMoves, Zenon
    <2>5. Grows
      BY DEF Grows, StoreInv
    <2>6. ~ Loaded(w) /\ ~ Resetting(w) /\ ~ Resetting(v) /\ ~ Making(v) /\ ~ Making(w)
      BY <2>1, Zenon DEF Loaded, Resetting, Making
    <2>7. DocOK(w)'
      BY <2>0, <2>1, <2>2, <2>5, <2>6, DocMoves, Zenon
    <2>8. Keeps(kind, maker, t, w)'
      <3>1. Known(kind, maker, v.code) /\ Known(kind, maker, v.then)
        BY <2>0, <2>6, Zenon DEF Keeps
      <3>. QED BY <2>0, <2>1, <2>5, <2>6, <3>1, KeepsMoves, Zenon
    <2>9. w.solo => Alone(w)'
      BY <2>0, <2>1, <2>2, Zenon DEF Alone, Sessions
    <2>. QED BY <2>4, <2>7, <2>8, <2>9, Zenon DEF Sound
  <1>1.
    ASSUME StoreInv, NEW t \in Tabs, NEW v, NEW w, Turns(t, v, w), NEW kind, NEW maker,
           Sound(kind, maker, t, v), ~ End(t),
           \/ LoginFind(t) \/ RefreshFind(t) \/ FindUserForOAuth(t) \/ VerifyFind(t)
           \/ Kill(t) \/ ResetFind(t) \/ LogoutFind(t)
    PROVE  Turned(t) /\ Sound(kind, maker, t, w)' /\ w.solo = v.solo
    <2>. USE <1>1
    <2>0. Control(v) /\ DOMAIN v = Fields
      BY Zenon DEF Sound, Control
    <2>1. ASSUME v.op = "refresh"
          PROVE  row # None
      BY <2>0, <2>1 DEF Control, StoreInv
    <2>. DEFINE Kept == Turned(t) /\ Sound(kind, maker, t, w)' /\ w.solo = v.solo
    <2>2. ASSUME Fetches(t, v, w),
                 \/ Reads(v, w) \/ Verifies(v, w) \/ Links(v, w) \/ Kills(v, w) \/ Resets(v,
                    w) \/ Removes(v, w)
          PROVE  Kept
      <3>1. Turned(t) /\ w.solo = v.solo
        BY <2>2, Zenon DEF Fetches, Same, Fields
      <3>2. Sound(kind, maker, t, w)'
        BY <2>2, <1>FetchSound, Zenon
      <3>. QED BY <3>1, <3>2, Zenon
    <2>. SUFFICES Kept
      BY Zenon
    <2>. HIDE DEF Kept
    <2>3. CASE LoginFind(t)
      BY <2>0, <2>2, <2>3, <1>LoginLoads, Zenon
    <2>4. CASE RefreshFind(t)
      <3>1. v.op = "refresh"
        BY <2>4, Zenon DEF RefreshFind, Turns
      <3>. QED BY <2>0, <2>1, <2>2, <2>4, <3>1, <1>RefreshLoads, Zenon
    <2>5. CASE FindUserForOAuth(t)
      BY <2>0, <2>2, <2>5, <1>OAuthLoads
    <2>6. CASE VerifyFind(t)
      BY <2>0, <2>2, <2>6, <1>VerifyLoads, Zenon
    <2>7. CASE Kill(t)
      <3>1. v.op = "refresh"
        BY <2>0, <2>7, Zenon DEF Kill, At, Turns, Control, OnRoute
      <3>. QED BY <2>0, <2>1, <2>2, <2>7, <3>1, <1>KillLoads, SMTT(30)
    <2>8. CASE ResetFind(t)
      BY <2>0, <2>2, <2>8, <1>ResetLoads, ZenonT(30)
    <2>9. CASE LogoutFind(t)
      <3>1. \/ Fetches(t, v, w) /\ Removes(v, w)
            \/ /\ Turned(t) /\ Same(v, w, {"pc"}) /\ UNCHANGED <<row, issued, minted, floor, ended>>
               /\ v.pc = "find" /\ v.op = "logout" /\ w.pc = "answer" /\ v.token \notin Sessions
        BY <2>0, <2>9, <1>LogoutLoads, Zenon
      <3>2. Same(v, w, {"pc"}) => w.solo = v.solo
        BY Zenon DEF Same, Fields
      <3>. QED BY <2>2, <3>1, <3>2, <1>SignedOutSound DEF Kept
    <2>. QED BY <2>3, <2>4, <2>5, <2>6, <2>7, <2>8, <2>9, SMTT(30)
  <1>. QED BY <1>1, Zenon

-----------------------------------------------------------------------------
(* Steps that make a secret *)

\* What the secret a request makes is for.
Purpose(v) == IF v.op = "forgot" THEN "reset-password" ELSE "verify-email"

\* A step that makes a secret, up to the document.
Mints(t, v, w) ==
  /\ Turned(t) /\ Same(v, w, {"pc", "isNew", "code", "doc"})
  /\ UNCHANGED <<row, issued, floor, ended>> /\ minted' = minted + 1
  /\ v.pc = "find" /\ v.op \in {"register", "resend", "forgot"} /\ w.pc = "save"
  /\ w.isNew \in BOOLEAN /\ w.code = Link(Purpose(v), minted + 1)

\* The document that gets it.
Holding(v, w) ==
  /\ DocFits(w.doc)' /\ "tokenVersion" \notin w.doc.modified
  /\ IF w.isNew THEN /\ v.op = "register" /\ DOMAIN w.doc.values \subseteq w.doc.modified
                     /\ "refreshTokens" \notin DOMAIN w.doc.values
                ELSE /\ row # None /\ "tokenVersion" \in DOMAIN w.doc.values
                     /\ w.doc.values.tokenVersion = row.tokenVersion
  /\ "emailVerificationToken" \in w.doc.modified =>
       v.op # "forgot" /\ w.doc.values.emailVerificationToken = minted + 1
  /\ "passwordResetToken" \in w.doc.modified =>
       v.op = "forgot" /\ w.doc.values.passwordResetToken = minted + 1

\* register, resendVerification and forgotPassword make a secret for the row.
LEMMA FindMints ==
  \A t \in Tabs : \A v, w :
    StoreInv /\ Turns(t, v, w) /\ Control(v) /\ ~ End(t)
      /\ (RegisterFind(t) \/ ResendFind(t) \/ ForgotFind(t))
    => Mints(t, v, w) /\ Holding(v, w)
  \* The documents that receive a new secret, and those of a new account.
  <1>MintFits.
    ASSUME StoreInv, minted' \in {minted, minted + 1}, UNCHANGED <<issued, ended>>,
           NEW f, Fits(f)', "tokenVersion" \notin DOMAIN f,
           NEW base, base = NoDoc \/ (row # None /\ base = Select(row, {}))
    PROVE  LET to == Assign(base, f) IN
           /\ DocFits(to)' /\ to.modified = DOMAIN f /\ \A x \in DOMAIN f : to.values[x] = f[x]
           /\ base = NoDoc => DOMAIN to.values = DOMAIN f
           /\ row # None /\ base = Select(row, {}) =>
                "tokenVersion" \in DOMAIN to.values /\ to.values.tokenVersion = row.tokenVersion
    <2>. USE <1>MintFits
    <2>. DEFINE to == Assign(base, f)
    <2>1. /\ DocFits(base) /\ base.modified = {}
          /\ row # None /\ base = Select(row, {}) =>
               "tokenVersion" \in DOMAIN base.values /\ base.values.tokenVersion = row.tokenVersion
      <3>1. CASE base = NoDoc /\ ~ (row # None /\ base = Select(row, {}))
        BY <3>1, Zenon DEF NoDoc, DocFits, Fits
      <3>2. CASE row # None /\ base = Select(row, {})
        BY <3>2, SelectFits DEF StoreInv, RowFields, SENSITIVE_FIELDS
      <3>. QED BY <3>1, <3>2, Zenon
    <2>2. Fits(base.values)'
      <3>1. Grows
        BY DEF Grows, StoreInv
      <3>. QED BY <2>1, <3>1, FitsGrows, Zenon DEF DocFits
    <2>3. /\ to.values = Over(f, base.values) /\ to.modified = DOMAIN f
          /\ base = NoDoc => DOMAIN base.values = {}
      BY <2>1 DEF Assign, NoDoc
    <2>. HIDE DEF to
    <2>4. /\ DOMAIN to.values = DOMAIN f \cup DOMAIN base.values
          /\ \A x \in DOMAIN f : to.values[x] = f[x]
          /\ \A x \in DOMAIN base.values \ DOMAIN f : to.values[x] = base.values[x]
      BY <2>3, Zenon DEF Over
    <2>5. DocFits(to)'
      BY <2>2, <2>3, <2>4, Zenon DEF DocFits, Fits
    <2>. QED BY <2>1, <2>3, <2>4, <2>5, Zenon DEF to
  \* A document with fields assigned to it keeps what they say.
  <1>DocHolds.
    ASSUME StoreInv, UNCHANGED <<issued, ended>>, minted' = minted + 1, NEW v, NEW w,
           NEW base, NEW f, Fits(f)', w.doc = Assign(base, f), w.isNew \in BOOLEAN,
           \/ base = NoDoc /\ w.isNew /\ v.op = "register"
           \/ row # None /\ base = Select(row, {}) /\ ~ w.isNew,
           "tokenVersion" \notin DOMAIN f, "refreshTokens" \notin DOMAIN f,
           "emailVerificationToken" \in DOMAIN f => v.op # "forgot"
           /\ f.emailVerificationToken = minted + 1,
           "passwordResetToken" \in DOMAIN f => v.op = "forgot" /\ f.passwordResetToken = minted + 1
    PROVE  Holding(v, w)
    <2>. USE <1>DocHolds
    <2>1. /\ DocFits(w.doc)' /\ w.doc.modified = DOMAIN f
          /\ \A x \in DOMAIN f : w.doc.values[x] = f[x]
          /\ w.isNew => DOMAIN w.doc.values = DOMAIN f
          /\ ~ w.isNew => /\ row # None /\ "tokenVersion" \in DOMAIN w.doc.values
                          /\ w.doc.values.tokenVersion = row.tokenVersion
      BY <1>MintFits
    <2>. QED BY <2>1, Zenon DEF Holding
  \* What a new secret is assigned with.
  <1>SecretFits.
    ASSUME NEW F, NEW n, n \in F.emailVerificationToken, n \in F.passwordResetToken,
           "peppered" \in F.password, "local" \in F.provider, FALSE \in F.isEmailVerified,
           NEW f,
           \/ f = [emailVerificationToken |-> n]
           \/ f = [passwordResetToken |-> n]
           \/ f = [password |-> "peppered", provider |-> "local", isEmailVerified |-> FALSE,
                   emailVerificationToken |-> n]
    PROVE  DOMAIN f \subseteq RowFields /\ \A x \in DOMAIN f : f[x] \in F[x]
    <2>. USE <1>SecretFits
    <2>1. CASE f = [emailVerificationToken |-> n]
      BY <2>1 DEF RowFields
    <2>2. CASE f = [passwordResetToken |-> n]
      BY <2>2 DEF RowFields
    <2>3. CASE f = [password |-> "peppered", provider |-> "local", isEmailVerified |-> FALSE,
                    emailVerificationToken |-> n]
      <3>1. \A b \in F.isEmailVerified :
              LET g == [password |-> "peppered", provider |-> "local", isEmailVerified |-> b,
                    emailVerificationToken |-> n] IN
              DOMAIN g \subseteq RowFields /\ \A x \in DOMAIN g : g[x] \in F[x]
        BY DEF RowFields
      <3>. QED BY <2>3, <3>1, Zenon
    <2>. QED BY <2>1, <2>2, <2>3, Zenon
  \* register.
  <1>RegisterMints.
    ASSUME StoreInv, NEW t \in Tabs, NEW v, NEW w, Turns(t, v, w), DOMAIN v = Fields,
           RegisterFind(t), ~ End(t)
    PROVE  Mints(t, v, w) /\ Holding(v, w)
    <2>. USE <1>RegisterMints
    <2>0. PICK n : n = minted + 1
      BY Zenon
    <2>. DEFINE f == [password |-> "peppered", provider |-> "local", isEmailVerified |-> FALSE,
                      emailVerificationToken |-> n]
                base == IF ByEmail THEN Select(row, {}) ELSE NoDoc
                g == [pc |-> "save", isNew |-> ~ByEmail, code |-> Link("verify-email", n),
                      doc |-> Assign(base, f)]
    <2>1. v.pc = "find" /\ v.op = "register" /\ UNCHANGED <<row, issued, floor, ended>> /\ minted' = n
      BY <2>0, Zenon DEF RegisterFind, At, Turns
    <2>2. Go(t, g)
      BY <2>0, Zenon DEF RegisterFind
    <2>3. Fits(f)'
      <3>1. /\ n \in FieldSets'.emailVerificationToken /\ n \in FieldSets'.passwordResetToken
               /\ "peppered" \in FieldSets'.password
            /\ "local" \in FieldSets'.provider
        BY <2>0, <2>1 DEF FieldSets, StoreInv
      <3>2. FALSE \in FieldSets'.isEmailVerified
        BY Zenon DEF FieldSets
      <3>3. DOMAIN f \subseteq RowFields /\ \A x \in DOMAIN f : f[x] \in FieldSets'[x]
        BY <3>1, <3>2, <1>SecretFits, Zenon
      <3>. HIDE DEF f
      <3>. QED BY <3>3, Zenon DEF Fits
    <2>4. /\ DOMAIN f = {"password", "provider", "isEmailVerified", "emailVerificationToken"}
          /\ f.emailVerificationToken = n
      BY Zenon
    <2>. HIDE DEF f
    <2>5. (base = NoDoc /\ ~ ByEmail) \/ (row # None /\ base = Select(row, {}) /\ ByEmail)
      BY Zenon DEF ByEmail
    <2>. HIDE DEF base
    <2>6. /\ DOMAIN g = {"pc", "isNew", "code", "doc"} /\ g.pc = "save" /\ g.isNew = ~ByEmail
          /\ g.code = Link("verify-email", n) /\ g.doc = Assign(base, f) /\ DOMAIN g \subseteq Fields
      BY Zenon DEF Fields
    <2>. HIDE DEF g
    <2>7. Turned(t) /\ Same(v, w, {"pc", "isNew", "code", "doc"}) /\ \A x \in DOMAIN g : w[x] = g[x]
      BY <2>2, <2>6, GoFields
    <2>8. w.pc = "save" /\ w.isNew = ~ByEmail /\ w.doc = Assign(base, f)
          /\ w.code = Link("verify-email", n)
      BY <2>6, <2>7, Zenon
    <2>9. ByEmail \in BOOLEAN
      BY Zenon DEF ByEmail
    <2>10. Mints(t, v, w)
      BY <2>0, <2>1, <2>7, <2>8, <2>9, Zenon DEF Mints, Purpose
    <2>11. Holding(v, w)
      <3>1. w.isNew \in BOOLEAN /\ (~ ByEmail <=> w.isNew)
        BY <2>8, <2>9, Zenon
      <3>2. /\ "tokenVersion" \notin DOMAIN f /\ "refreshTokens" \notin DOMAIN f
            /\ "passwordResetToken" \notin DOMAIN f /\ v.op # "forgot"
            /\ f.emailVerificationToken = minted + 1
        BY <2>0, <2>1, <2>4, Zenon
      <3>3. minted' = minted + 1 /\ UNCHANGED <<issued, ended>> /\ v.op = "register"
        BY <2>0, <2>1, Zenon
      <3>4. \/ base = NoDoc /\ w.isNew /\ v.op = "register"
            \/ row # None /\ base = Select(row, {}) /\ ~ w.isNew
        BY <2>5, <3>1, <3>3, Zenon
      <3>5. w.doc = Assign(base, f)
        BY <2>8, Zenon
      <3>. QED BY <2>3, <3>1, <3>2, <3>3, <3>4, <3>5, <1>DocHolds, Zenon
    <2>. QED BY <2>10, <2>11, Zenon
  \* resendVerification and requestPasswordReset.
  <1>MailMints.
    ASSUME StoreInv, NEW t \in Tabs, NEW v, NEW w, Turns(t, v, w), Control(v),
           ResendFind(t) \/ ForgotFind(t), ~ End(t)
    PROVE  Mints(t, v, w) /\ Holding(v, w)
    <2>. USE <1>MailMints
    <2>0. PICK n : n = minted + 1
      BY Zenon
    <2>. DEFINE e == [emailVerificationToken |-> n]
                p == [passwordResetToken |-> n]
    <2>1. PICK f : /\ v.pc = "find" /\ UNCHANGED <<row, issued, floor, ended>> /\ minted' = n /\ row # None
                   /\ Go(t, [pc |-> "save", code |-> Link(Purpose(v), n), doc |-> Assign(Select(row,
                      {}), f)])
                   /\ (v.op = "resend" /\ f = e) \/ (v.op = "forgot" /\ f = p)
      <3>1. CASE ResendFind(t)
        BY <2>0, <3>1, Zenon DEF ResendFind, MailSecret, At, Turns, ByEmail, Purpose
      <3>2. CASE ForgotFind(t)
        BY <2>0, <3>2, Zenon DEF ForgotFind, MailSecret, At, Turns, ByEmail, Purpose
      <3>. QED BY <3>1, <3>2, Zenon
    <2>2. /\ DOMAIN e = {"emailVerificationToken"} /\ e.emailVerificationToken = n
          /\ DOMAIN p = {"passwordResetToken"} /\ p.passwordResetToken = n
      BY Zenon
    <2>3. Fits(e)' /\ Fits(p)'
      <3>1. /\ n \in FieldSets'.emailVerificationToken /\ n \in FieldSets'.passwordResetToken
            /\ "peppered" \in FieldSets'.password /\ "local" \in FieldSets'.provider
        BY <2>0, <2>1 DEF FieldSets, StoreInv
      <3>2. FALSE \in FieldSets'.isEmailVerified
        BY Zenon DEF FieldSets
      <3>3. DOMAIN e \subseteq RowFields /\ \A x \in DOMAIN e : e[x] \in FieldSets'[x]
        BY <3>1, <3>2, <1>SecretFits, ZenonT(30)
      <3>4. DOMAIN p \subseteq RowFields /\ \A x \in DOMAIN p : p[x] \in FieldSets'[x]
        BY <3>1, <3>2, <1>SecretFits, ZenonT(30)
      <3>. HIDE DEF e, p
      <3>. QED BY <3>3, <3>4, Zenon DEF Fits
    <2>. HIDE DEF e, p
    <2>. DEFINE g == [pc |-> "save", code |-> Link(Purpose(v), n), doc |-> Assign(Select(row, {}), f)]
    <2>4. /\ DOMAIN g = {"pc", "code", "doc"} /\ g.pc = "save" /\ g.code = Link(Purpose(v), n)
          /\ g.doc = Assign(Select(row, {}), f) /\ DOMAIN g \subseteq Fields /\ Go(t, g)
      BY <2>1, Zenon DEF Fields
    <2>. HIDE DEF g
    <2>5. DOMAIN v = Fields /\ v.isNew \in BOOLEAN /\ ~ v.isNew
      BY <2>1, Zenon DEF Control
    <2>6. Turned(t) /\ Same(v, w, {"pc", "code", "doc"}) /\ \A x \in DOMAIN g : w[x] = g[x]
      BY <2>4, <2>5, GoFields
    <2>7. /\ w.pc = "save" /\ w.isNew = v.isNew /\ w.doc = Assign(Select(row, {}), f)
          /\ w.code = Link(Purpose(v), n) /\ Same(v, w, {"pc", "isNew", "code", "doc"})
      BY <2>4, <2>6, Zenon DEF Same, Fields
    <2>8. Mints(t, v, w)
      BY <2>0, <2>1, <2>5, <2>6, <2>7, Zenon DEF Mints
    <2>9. Holding(v, w)
      <3>1. /\ "tokenVersion" \notin DOMAIN f /\ "refreshTokens" \notin DOMAIN f /\ Fits(f)'
            /\ "emailVerificationToken" \in DOMAIN f => v.op # "forgot"
               /\ f.emailVerificationToken = minted + 1
            /\ "passwordResetToken" \in DOMAIN f => v.op = "forgot"
               /\ f.passwordResetToken = minted + 1
        BY <2>0, <2>1, <2>2, <2>3
      <3>2. minted' = minted + 1 /\ UNCHANGED <<issued, ended>>
        BY <2>0, <2>1, Zenon
      <3>3. w.isNew \in BOOLEAN /\ ~ w.isNew /\ w.doc = Assign(Select(row, {}), f) /\ row # None
        BY <2>1, <2>5, <2>7, Zenon
      <3>. QED BY <3>1, <3>2, <3>3, <1>DocHolds, Zenon
    <2>. QED BY <2>8, <2>9, Zenon
  <1>1. \A v : Control(v) => DOMAIN v = Fields
    BY Zenon DEF Control
  <1>. QED BY <1>1, <1>RegisterMints, <1>MailMints

\* The request that has made a secret is sound, with the secret's purpose in
\* kind and its tab in maker.
LEMMA MintsSound ==
  ASSUME StoreInv, NEW t, NEW v, NEW w, NEW kind, NEW maker, Sound(kind, maker, t, v),
         Mints(t, v, w), Holding(v, w), NEW k, NEW m,
         k[minted + 1] = Purpose(v), m[minted + 1] = {t},
         \A i \in 1 .. minted : k[i] = kind[i] /\ m[i] = maker[i]
  PROVE  Sound(k, m, t, w)'
  <1>0. Control(v) /\ Keeps(kind, maker, t, v) /\ minted \in Nat
    BY Zenon DEF Sound, StoreInv
  <1>1. PICK n : n = minted + 1 /\ n \in 1 .. minted' /\ minted' = n /\ n \in Nat
    BY <1>0 DEF Mints
  <1>2. /\ w.op = v.op /\ w.token = v.token /\ w.pair = v.pair /\ w.then = v.then
        /\ w.solo = v.solo /\ w.stored = v.stored /\ DOMAIN w = Fields
    BY Zenon DEF Mints, Same, Fields
  <1>3. /\ v.pc = "find" /\ w.pc = "save" /\ w.isNew \in BOOLEAN
        /\ v.op \in {"register", "resend", "forgot"} /\ UNCHANGED <<row, issued, floor, ended>>
    BY Zenon DEF Mints
  <1>4. w.code.k = "link" /\ w.code.kind = Purpose(v) /\ w.code.secret = n
    BY <1>1 DEF Mints, Link
  <1>5. /\ DocFits(w.doc)' /\ "tokenVersion" \notin w.doc.modified
        /\ w.isNew => v.op = "register" /\ DOMAIN w.doc.values \subseteq w.doc.modified
                      /\ "refreshTokens" \notin DOMAIN w.doc.values
        /\ ~ w.isNew => row # None /\ "tokenVersion" \in DOMAIN w.doc.values
                        /\ w.doc.values.tokenVersion = row.tokenVersion
        /\ "emailVerificationToken" \in w.doc.modified =>
             v.op # "forgot" /\ w.doc.values.emailVerificationToken = n
        /\ "passwordResetToken" \in w.doc.modified =>
             v.op = "forgot" /\ w.doc.values.passwordResetToken = n
    BY <1>1, Zenon DEF Holding
  <1>6. v.pair = None /\ OnRoute(w.op, w.pc)
    BY <1>0, <1>2, <1>3, Zenon DEF Control, OnRoute
  <1>7. Control(w)'
    BY <1>0, <1>2, <1>3, <1>4, <1>5, <1>6, Zenon DEF Control, PairOK
  <1>8. DocOK(w)'
    <2>1. Loaded(w)' <=> ~ w.isNew
      BY <1>3, Zenon DEF Loaded
    <2>2. ~ Resetting(w)'
      BY <1>3, Zenon DEF Resetting
    <2>. QED BY <1>2, <1>3, <1>5, <2>1, <2>2, Zenon DEF DocOK
  <1>9. Alone(w)'
    BY <1>2, <1>3, <1>5, <1>6, Zenon DEF Alone
  <1>10. Keeps(k, m, t, w)'
    <2>1. Making(w)' /\ ~ Making(v)
      BY <1>2, <1>3, Zenon DEF Making
    <2>2. Known(kind, maker, v.then)
      BY <1>0, Zenon DEF Keeps
    <2>3. Known(k, m, w.then)'
      BY <1>0, <1>1, <1>2, <2>2 DEF Known
    <2>4. Assigns(w, "emailVerificationToken", "verify-email")'
          /\ Assigns(w, "passwordResetToken", "reset-password")'
      BY <1>3, <1>4, <1>5, <2>1, Zenon DEF Assigns, Purpose
    <2>5. k[n] = w.code.kind /\ m[n] = {t} /\ w.op \notin {"verify", "reset"}
      BY <1>1, <1>2, <1>3, <1>4, Zenon
    <2>. QED BY <1>1, <1>4, <2>1, <2>3, <2>4, <2>5, Zenon DEF Keeps
  <1>. QED BY <1>7, <1>8, <1>9, <1>10, Zenon DEF Sound

\* A sign-in with a provider that creates an account.
LEMMA CreateKeeps ==
  ASSUME StoreInv, NEW t \in Tabs, NEW v, NEW w, Turns(t, v, w), NEW kind, NEW maker,
         Sound(kind, maker, t, v), CreateForOAuth(t)
  PROVE  Turned(t) /\ Sound(kind, maker, t, w)' /\ w.solo = v.solo
  <1>0. Control(v) /\ Keeps(kind, maker, t, v) /\ minted \in Nat
    BY Zenon DEF Sound, StoreInv
  <1>. DEFINE f == Over([password |-> "none"], Linked)
  <1>1. Fits(f) /\ DOMAIN f = {"password", "provider", "isEmailVerified"}
    <2>1. Fits(Linked) /\ DOMAIN Linked = {"provider", "isEmailVerified"}
      BY UpdatesFit, Zenon DEF Linked
    <2>. DEFINE p == [password |-> "none"]
    <2>2. Fits(p) /\ DOMAIN p = {"password"}
      BY Columns DEF Fits, RowFields
    <2>. HIDE DEF p
    <2>3. Fits(Over(p, Linked))
          /\ DOMAIN Over(p, Linked) = {"password", "provider", "isEmailVerified"}
      BY <2>1, <2>2, OverFits DEF Over
    <2>. QED BY <2>3, Zenon DEF p
  <1>. HIDE DEF f
  <1>2. DocFits(NoDoc) /\ NoDoc.modified = {} /\ DOMAIN NoDoc.values = {}
    BY Zenon DEF DocFits, Fits, NoDoc
  <1>. DEFINE doc == Assign(NoDoc, f)
              g == [pc |-> "save", isNew |-> TRUE, doc |-> doc]
  <1>3. DocFits(doc) /\ doc.modified = DOMAIN f /\ DOMAIN doc.values = DOMAIN f
    BY <1>1, <1>2, AssignFits
  <1>4. Go(t, g) /\ v.pc = "find" /\ v.op = "callback"
        /\ UNCHANGED <<row, issued, minted, floor, ended>>
    BY Zenon DEF CreateForOAuth, At, Turns, serverVars, f
  <1>. HIDE DEF doc
  <1>5. /\ DOMAIN g = {"pc", "isNew", "doc"} /\ g.pc = "save" /\ (g.isNew <=> TRUE)
           /\ g.isNew \in BOOLEAN
        /\ g.doc = doc /\ DOMAIN g \subseteq Fields
    BY Zenon DEF Fields
  <1>. HIDE DEF g
  <1>6. Turned(t) /\ Same(v, w, {"pc", "isNew", "doc"}) /\ \A x \in DOMAIN g : w[x] = g[x]
    <2>1. DOMAIN v = Fields
      BY <1>0, Zenon DEF Control
    <2>. QED BY <1>4, <1>5, <2>1, GoFields
  <1>7. /\ w.op = v.op /\ w.token = v.token /\ w.pair = v.pair /\ w.code = v.code /\ w.then = v.then
        /\ w.solo = v.solo /\ w.stored = v.stored /\ Same(v, w, {"pc", "doc", "isNew", "stored"})
    BY <1>6, Zenon DEF Same, Fields
  <1>8. w.pc = "save" /\ w.isNew /\ w.isNew \in BOOLEAN /\ w.doc = doc
    BY <1>5, <1>6, Zenon
  <1>9. v.pair = None /\ v.stored \in BOOLEAN /\ OnRoute(w.op, w.pc)
    BY <1>0, <1>4, <1>7, <1>8, Zenon DEF Control, OnRoute
  <1>10. Control(w)'
    BY <1>0, <1>4, <1>7, <1>8, <1>9, ControlMoves, Zenon
  <1>11. Grows
    BY <1>4 DEF Grows, StoreInv
  <1>12. /\ DocFits(w.doc)' /\ "tokenVersion" \notin DOMAIN w.doc.values
         /\ "refreshTokens" \notin DOMAIN w.doc.values
            /\ "passwordResetToken" \notin DOMAIN w.doc.values
         /\ "emailVerificationToken" \notin w.doc.modified
         /\ w.doc.modified = DOMAIN w.doc.values
    BY <1>1, <1>3, <1>8, <1>11, FitsGrows DEF DocFits
  <1>13. ~ Loaded(w)' /\ ~ Resetting(w)' /\ ~ Making(v) /\ ~ Making(w)'
    BY <1>4, <1>7, <1>8, Zenon DEF Loaded, Resetting, Making
  <1>14. DocOK(w)'
    BY <1>4, <1>7, <1>8, <1>12, <1>13, Zenon DEF DocOK
  <1>15. Keeps(kind, maker, t, w)'
    <2>1. Known(kind, maker, w.code)' /\ Known(kind, maker, w.then)'
      BY <1>0, <1>7, <1>11, <1>13, KnownGrows, Zenon DEF Keeps
    <2>2. Assigns(w, "emailVerificationToken", "verify-email")'
          /\ Assigns(w, "passwordResetToken", "reset-password")'
      BY <1>12, Zenon DEF Assigns
    <2>. QED BY <1>4, <1>7, <1>13, <2>1, <2>2, Zenon DEF Keeps
  <1>16. Alone(w)'
    BY <1>4, <1>7, <1>8, <1>9, <1>12, Zenon DEF Alone
  <1>. QED BY <1>6, <1>7, <1>10, <1>14, <1>15, <1>16, Zenon DEF Sound

-----------------------------------------------------------------------------
(* Saves *)

\* The secrets that a save of the request v leaves in the row: cleared, kept,
\* or the one that the request made.
Stores(v) ==
  /\ \/ row'.emailVerificationToken = 0
     \/ row # None /\ row'.emailVerificationToken = row.emailVerificationToken
     \/ /\ Making(v) /\ v.code.kind = "verify-email"
        /\ row'.emailVerificationToken = v.code.secret
  /\ \/ row'.passwordResetToken = 0
     \/ row # None /\ row'.passwordResetToken = row.passwordResetToken
     \/ /\ Making(v) /\ v.code.kind = "reset-password"
        /\ row'.passwordResetToken = v.code.secret
  /\ v.op = "verify" /\ v.pc = "save" => row'.emailVerificationToken = 0
  /\ v.op = "reset" => row'.passwordResetToken = 0

\* The list of sessions that it leaves.
Listed(v) ==
  row'.refreshTokens = IF "refreshTokens" \in DOMAIN v.doc.values THEN v.doc.values.refreshTokens
                       ELSE IF row = None THEN <<>> ELSE row.refreshTokens

\* The row that it leaves.
SavedBy(v) ==
  /\ RowFits(row') /\ row' # None /\ Stores(v) /\ Listed(v)
  /\ v.pc = "remove" => v.token \notin ListOf(row'.refreshTokens)
  /\ v.pc = "reset" => row'.refreshTokens = <<>> /\ row'.tokenVersion = v.doc.values.tokenVersion

\* Where each save goes on, and with which document.
Then(v, pc, d) ==
  \/ /\ d = Whole(row')
     /\ \/ v.pc = "rehash" /\ pc = "persist"
        \/ v.pc = "save" /\ pc = IF v.op \in {"resend", "forgot"} THEN "mail" ELSE "sync"
        \/ v.pc = "killed" /\ pc = "publish"
  \/ d = NoDoc /\ pc = "answer" /\ v.pc \in {"remove", "reset"}

\* The secrets used up by a save of the request v.
Spends(v) ==
  \/ spent' = spent
  \/ /\ v.op = "reset" \/ (v.op = "verify" /\ v.pc = "save")
     /\ spent' = spent \cup {v.code.secret}

\* The request after a save.
Saves(t, v, w) ==
  /\ Turned(t) /\ Same(v, w, {"pc", "doc", "isNew"}) /\ ~ w.isNew /\ w.isNew \in BOOLEAN
  /\ Then(v, w.pc, w.doc)

\* The saves of a new hash, of a changed account, of a kill, a sign-out and a
\* reset.
LEMMA SaveSteps ==
  \A t \in Tabs : \A v, w, kind, maker :
    StoreInv /\ Turns(t, v, w) /\ Sound(kind, maker, t, v)
      /\ (Rehash(t) \/ Save(t) \/ KillSave(t) \/ LogoutSave(t) \/ ResetSave(t))
    => /\ SavedBy(v) /\ UNCHANGED <<issued, minted, mailed, floor>> /\ Spends(v)
       /\ End(t) \/ Saves(t, v, w)
  \* Saving a document: the assigned columns and the loaded lists are the
  \* document's, the others stay.
  <1>SavedFits.
    ASSUME NEW r, RowFits(r), NEW doc, DocFits(doc), issued \in Seq(Nat), minted \in Nat
    PROVE  /\ RowFits(Saved(r, doc))
           /\ \A x \in RowFields :
                Saved(r, doc)[x] = IF x \in Writes(doc) THEN doc.values[x] ELSE r[x]
           /\ Writes(doc) \subseteq DOMAIN doc.values
    <2>. USE <1>SavedFits
    <2>. DEFINE q == Saved(r, doc)
    <2>1. Writes(doc) \subseteq DOMAIN doc.values
      BY Zenon DEF Writes, DocFits
    <2>2. q = [x \in RowFields |-> IF x \in Writes(doc) THEN doc.values[x] ELSE r[x]]
      BY Zenon DEF Saved, RowFits
    <2>. HIDE DEF q
    <2>3. Fits(q)
      BY <2>1, <2>2, Zenon DEF Fits, RowFits, DocFits
    <2>4. RowFits(q)
      BY <2>2, <2>3, FitsRow, Zenon
    <2>. QED BY <2>1, <2>2, <2>4, Zenon DEF q
  \* The row after a save.
  <1>SaveRow.
    ASSUME StoreInv, row # None, NEW doc, DocFits(doc), row' = Saved(row, doc)
    PROVE  /\ RowFits(row') /\ row' # None
           /\ row'.tokenVersion = IF "tokenVersion" \in doc.modified
                                    THEN doc.values.tokenVersion ELSE row.tokenVersion
           /\ row'.refreshTokens = IF "refreshTokens" \in DOMAIN doc.values
                                     THEN doc.values.refreshTokens ELSE row.refreshTokens
           /\ row'.emailVerificationToken = IF "emailVerificationToken" \in doc.modified
                                              THEN doc.values.emailVerificationToken
                                              ELSE row.emailVerificationToken
           /\ row'.passwordResetToken = IF "passwordResetToken" \in doc.modified
                                          THEN doc.values.passwordResetToken
                                          ELSE row.passwordResetToken
    <2>. USE <1>SaveRow
    <2>1. /\ RowFits(row')
          /\ \A x \in RowFields : row'[x] = IF x \in Writes(doc) THEN doc.values[x] ELSE row[x]
      BY <1>SavedFits, Zenon DEF StoreInv
    <2>2. row' # None
      BY <2>1, NoneAssumption, Zenon DEF RowFits
    <2>3. /\ "tokenVersion" \in Writes(doc) <=> "tokenVersion" \in doc.modified
          /\ "emailVerificationToken" \in Writes(doc) <=> "emailVerificationToken" \in doc.modified
          /\ "passwordResetToken" \in Writes(doc) <=> "passwordResetToken" \in doc.modified
          /\ "refreshTokens" \in Writes(doc) <=> "refreshTokens" \in DOMAIN doc.values
      BY Zenon DEF Writes, JSONB_FIELDS, DocFits
    <2>4. {"tokenVersion", "emailVerificationToken", "passwordResetToken",
          "refreshTokens"} \subseteq RowFields
      BY Zenon DEF RowFields
    <2>. QED BY <2>1, <2>2, <2>3, <2>4, Zenon
  \* A document, or the same with the new hash, is saved.
  <1>SaveStores.
    ASSUME StoreInv, NEW t, NEW v, NEW kind, NEW maker, Sound(kind, maker, t, v), Loaded(v),
           v.op = "reset" => Resetting(v),
           NEW doc, doc = v.doc \/ doc = Assign(v.doc, [password |-> "peppered"]),
           row' = Saved(row, doc)
    PROVE  SavedBy(v)
    <2>. USE <1>SaveStores
    <2>. DEFINE from == v.doc
    <2>0. DocOK(v) /\ Keeps(kind, maker, t, v)
      BY Zenon DEF Sound
    <2>1. row # None /\ DocFits(from) /\ from.modified \subseteq DOMAIN from.values
      BY <2>0, Zenon DEF DocOK, DocFits
    <2>2. /\ DocFits(doc)
          /\ \A x \in RowFields \ {"password"} :
               /\ x \in doc.modified <=> x \in from.modified
               /\ x \in DOMAIN doc.values <=> x \in DOMAIN from.values
               /\ x \in DOMAIN from.values => doc.values[x] = from.values[x]
      <3>1. CASE doc = Assign(from, [password |-> "peppered"])
        <4>. DEFINE f == [password |-> "peppered"]
        <4>1. Fits(f) /\ DOMAIN f = {"password"} /\ doc = Assign(from, f)
          BY <3>1, Columns DEF Fits, RowFields
        <4>. HIDE DEF f
        <4>. QED BY <2>1, <4>1, AssignFits
      <3>. QED BY <2>1, <3>1, Zenon
    <2>3. {"tokenVersion", "emailVerificationToken", "passwordResetToken", "refreshTokens"}
            \subseteq RowFields \ {"password"}
      BY Zenon DEF RowFields
    <2>4. /\ RowFits(row') /\ row' # None
          /\ row'.tokenVersion = IF "tokenVersion" \in from.modified
                                   THEN from.values.tokenVersion ELSE row.tokenVersion
          /\ row'.refreshTokens = IF "refreshTokens" \in DOMAIN from.values
                                    THEN from.values.refreshTokens ELSE row.refreshTokens
          /\ row'.emailVerificationToken = IF "emailVerificationToken" \in from.modified
                                             THEN from.values.emailVerificationToken
                                             ELSE row.emailVerificationToken
          /\ row'.passwordResetToken = IF "passwordResetToken" \in from.modified
                                         THEN from.values.passwordResetToken
                                         ELSE row.passwordResetToken
      BY <2>1, <2>2, <2>3, <1>SaveRow, Zenon
    <2>5. Stores(v)
      BY <2>0, <2>1, <2>4, Zenon DEF Stores, Keeps, Assigns
    <2>6. v.pc = "remove" => v.token \notin ListOf(row'.refreshTokens)
      BY <2>0, <2>4, Zenon DEF DocOK
    <2>7. v.pc = "reset" /\ Resetting(v) => row'.refreshTokens = <<>>
          /\ row'.tokenVersion = from.values.tokenVersion
      BY <2>0, <2>1, <2>4, Zenon DEF DocOK
    <2>8. v.pc = "reset" => v.op = "reset"
      BY Zenon DEF Sound, Control, OnRoute
    <2>9. Listed(v)
      BY <2>1, <2>4, Zenon DEF Listed
    <2>. QED BY <2>4, <2>5, <2>6, <2>7, <2>8, <2>9, SMTT(30) DEF SavedBy
  <1>1.
    ASSUME StoreInv, NEW t \in Tabs, NEW v, NEW w, Turns(t, v, w), NEW kind, NEW maker,
           Sound(kind, maker, t, v),
           Rehash(t) \/ Save(t) \/ KillSave(t) \/ LogoutSave(t) \/ ResetSave(t)
    PROVE  /\ SavedBy(v) /\ UNCHANGED <<issued, minted, mailed, floor>> /\ Spends(v)
           /\ End(t) \/ Saves(t, v, w)
    <2>. USE <1>1
    <2>0. v = req[t] /\ DOMAIN v = Fields /\ OnRoute(v.op, v.pc) /\ v.isNew \in BOOLEAN
          /\ (v.isNew => v.pc = "save")
      BY Zenon DEF Turns, Sound, Control
    <2>. DEFINE Row == row' = Saved(row, v.doc) \/ row' = Saved(row, Assign(v.doc,
                [password |-> "peppered"]))
                Keep == UNCHANGED <<issued, minted, mailed, floor>>
                At2 == v.pc \in {"rehash", "killed", "remove", "reset"} \/ (v.pc = "save"
                /\ ~ v.isNew)
                Next2 == \E pc, d : Then(v, pc, d) /\ Go(t, [pc |-> pc, doc |-> d])
    <2>1. Row /\ Keep /\ Spends(v) /\ At2 /\ (End(t) \/ Next2)
      <3>1. CASE Rehash(t)
        BY <2>0, <3>1, Zenon DEF Rehash, At, Spends, Then
      <3>2. CASE Save(t)
        BY <2>0, <3>2, Zenon DEF Save, At, Spends, Then
      <3>3. CASE KillSave(t)
        BY <2>0, <3>3, Zenon DEF KillSave, At, Spends, Then
      <3>4. CASE LogoutSave(t)
        BY <2>0, <3>4, Zenon DEF LogoutSave, At, Spends, Then
      <3>5. CASE ResetSave(t)
        <4>1. v.op = "reset"
          BY <2>0, <3>5, Zenon DEF ResetSave, At, OnRoute
        <4>. QED BY <2>0, <3>5, <4>1, Zenon DEF ResetSave, At, Spends, Then
      <3>. HIDE DEF Row, Keep, At2, Next2
      <3>. QED BY <3>1, <3>2, <3>3, <3>4, <3>5, Zenon
    <2>2. Loaded(v) /\ ~ v.isNew /\ v.isNew \in BOOLEAN /\ (v.op = "reset" => Resetting(v))
      BY <2>0, <2>1, Zenon DEF Loaded, Resetting, OnRoute
    <2>3. SavedBy(v)
      BY <2>1, <2>2, <1>SaveStores, Zenon
    <2>4. ASSUME Next2
          PROVE  Saves(t, v, w)
      <3>1. PICK pc, d : Then(v, pc, d) /\ Go(t, [pc |-> pc, doc |-> d])
        BY <2>4, Zenon
      <3>2. Turned(t) /\ Same(v, w, {"pc", "doc"}) /\ w.doc = d /\ w.pc = pc
        BY <2>0, <3>1, GoDoc
      <3>3. w.isNew = v.isNew /\ Same(v, w, {"pc", "doc", "isNew"})
        BY <3>2, Zenon DEF Same, Fields
      <3>. QED BY <2>2, <3>1, <3>2, <3>3, Zenon DEF Saves
    <2>. HIDE DEF Row, At2, Next2
    <2>. QED BY <2>1, <2>3, <2>4, Zenon
  <1>. QED BY <1>1, Zenon

\* The insertion of a new account.
LEMMA InsertSteps ==
  \A t \in Tabs : \A v, w, kind, maker :
    StoreInv /\ Turns(t, v, w) /\ Sound(kind, maker, t, v) /\ Insert(t)
    => /\ UNCHANGED <<issued, minted, mailed, floor, ended, spent>>
       /\ (End(t) /\ UNCHANGED row) \/ (SavedBy(v) /\ Saves(t, v, w))
  \* $set.
  <1>SetFits.
    ASSUME NEW r, RowFits(r), NEW f, Fits(f), issued \in Seq(Nat), minted \in Nat
    PROVE  /\ RowFits(SetFields(r, f))
           /\ \A x \in RowFields : SetFields(r, f)[x] = IF x \in DOMAIN f THEN f[x] ELSE r[x]
    <2>. USE <1>SetFits
    <2>. DEFINE q == SetFields(r, f)
    <2>1. q = [x \in RowFields |-> IF x \in DOMAIN f THEN f[x] ELSE r[x]]
      BY Zenon DEF SetFields, RowFits
    <2>. HIDE DEF q
    <2>2. Fits(q)
      BY <2>1, Zenon DEF Fits, RowFits
    <2>3. RowFits(q)
      BY <2>1, <2>2, FitsRow, Zenon
    <2>. QED BY <2>1, <2>3, Zenon DEF q
  \* The row of a new account.
  <1>InsertRow.
    ASSUME StoreInv, NEW f, Fits(f), row' = SetFields(Defaults, f)
    PROVE  /\ RowFits(row') /\ row' # None
           /\ \A x \in RowFields : row'[x] = IF x \in DOMAIN f THEN f[x] ELSE Defaults[x]
    <2>. USE <1>InsertRow
    <2>1. Defaults = [x \in RowFields |-> Defaults[x]] /\ DOMAIN Defaults = RowFields
      BY Zenon DEF Defaults, RowFields
    <2>2. Fits(Defaults)
      <3>1. /\ <<>> \in FieldSets.refreshTokens /\ <<>> \in FieldSets.activeAccessJtis
            /\ 0 \in FieldSets.emailVerificationToken /\ 0 \in FieldSets.passwordResetToken
            /\ 0 \in FieldSets.tokenVersion /\ "local" \in FieldSets.provider
            /\ "none" \in FieldSets.password
        BY CapAssumption, Columns DEF ListOf, StoreInv
      <3>2. FALSE \in FieldSets.isEmailVerified
        BY Columns, Zenon
      <3>3. \A b \in FieldSets.isEmailVerified :
              Fits([provider |-> "local", password |-> "none", isEmailVerified |-> b,
                    emailVerificationToken |-> 0, passwordResetToken |-> 0, tokenVersion |-> 0,
                    refreshTokens |-> <<>>, activeAccessJtis |-> <<>>])
        BY <3>1 DEF Fits, RowFields
      <3>. QED BY <3>2, <3>3, Zenon DEF Defaults
    <2>3. RowFits(Defaults)
      BY <2>1, <2>2, FitsRow, Zenon DEF StoreInv
    <2>4. /\ RowFits(row')
          /\ \A x \in RowFields : row'[x] = IF x \in DOMAIN f THEN f[x] ELSE Defaults[x]
      BY <2>3, <1>SetFits, Zenon DEF StoreInv
    <2>5. row' # None
      BY <2>4, NoneAssumption, Zenon DEF RowFits
    <2>. QED BY <2>4, <2>5, Zenon
  \* A new account is inserted.
  <1>InsertStores.
    ASSUME StoreInv, NEW t, NEW v, NEW kind, NEW maker, Sound(kind, maker, t, v),
           v.isNew, row = None, row' = SetFields(Defaults, v.doc.values)
    PROVE  SavedBy(v)
    <2>. USE <1>InsertStores
    <2>. DEFINE f == v.doc.values
    <2>0. Control(v) /\ DocOK(v) /\ Keeps(kind, maker, t, v)
      BY Zenon DEF Sound
    <2>1. /\ Fits(f) /\ DOMAIN f \subseteq v.doc.modified /\ "passwordResetToken" \notin DOMAIN f
          /\ "refreshTokens" \notin DOMAIN f
      BY <2>0, Zenon DEF DocOK, DocFits
    <2>2. /\ RowFits(row') /\ row' # None
          /\ \A x \in RowFields : row'[x] = IF x \in DOMAIN f THEN f[x] ELSE Defaults[x]
      BY <2>1, <1>InsertRow, Zenon
    <2>3. /\ Defaults.emailVerificationToken = 0 /\ Defaults.passwordResetToken = 0
          /\ Defaults.refreshTokens = <<>>
          /\ {"emailVerificationToken", "passwordResetToken", "refreshTokens"} \subseteq RowFields
      BY Zenon DEF RowFields, Defaults
    <2>4. v.pc = "save" /\ v.op \in {"register", "callback"}
      BY <2>0, Zenon DEF Control
    <2>5. /\ row'.passwordResetToken = 0
          /\ row'.emailVerificationToken = 0 \/ ("emailVerificationToken" \in v.doc.modified
                  /\ row'.emailVerificationToken = f.emailVerificationToken)
      BY <2>1, <2>2, <2>3, Zenon
    <2>6. Stores(v)
      BY <2>0, <2>4, <2>5, Zenon DEF Stores, Keeps, Assigns
    <2>7. Listed(v)
      BY <2>1, <2>2, <2>3, Zenon DEF Listed
    <2>. QED BY <2>2, <2>4, <2>6, <2>7, Zenon DEF SavedBy
  <1>1.
    ASSUME StoreInv, NEW t \in Tabs, NEW v, NEW w, Turns(t, v, w), NEW kind, NEW maker,
           Sound(kind, maker, t, v), Insert(t)
    PROVE  /\ UNCHANGED <<issued, minted, mailed, floor, ended, spent>>
           /\ (End(t) /\ UNCHANGED row) \/ (SavedBy(v) /\ Saves(t, v, w))
    <2>. USE <1>1
    <2>0. v = req[t] /\ DOMAIN v = Fields /\ (v.isNew => v.op \in {"register", "callback"})
      BY Zenon DEF Turns, Sound, Control
    <2>1. UNCHANGED <<issued, minted, mailed, floor, ended, spent>> /\ v.isNew /\ v.pc = "save"
      BY <2>0, Zenon DEF Insert, At
    <2>2. CASE row = None
      <3>. DEFINE g == [pc |-> "sync", doc |-> Whole(row'), isNew |-> FALSE]
      <3>1. row' = SetFields(Defaults, v.doc.values) /\ Go(t, g)
        BY <2>0, <2>2, Zenon DEF Insert, Doc
      <3>2. /\ DOMAIN g = {"pc", "doc", "isNew"} /\ g.pc = "sync" /\ g.doc = Whole(row')
               /\ (g.isNew <=> FALSE)
            /\ g.isNew \in BOOLEAN /\ DOMAIN g \subseteq Fields
        BY Zenon DEF Fields
      <3>. HIDE DEF g
      <3>3. SavedBy(v)
        BY <2>1, <2>2, <3>1, <1>InsertStores, Zenon
      <3>4. Turned(t) /\ Same(v, w, {"pc", "doc", "isNew"}) /\ \A x \in DOMAIN g : w[x] = g[x]
        BY <2>0, <3>1, <3>2, GoFields
      <3>5. w.pc = "sync" /\ w.doc = Whole(row') /\ ~ w.isNew /\ w.isNew \in BOOLEAN
        BY <3>2, <3>4, Zenon
      <3>6. Then(v, w.pc, w.doc)
        BY <2>0, <2>1, <3>5, Zenon DEF Then
      <3>. QED BY <2>1, <3>3, <3>4, <3>5, <3>6, Zenon DEF Saves
    <2>3. CASE row # None
      BY <2>1, <2>3, Zenon DEF Insert
    <2>. QED BY <2>1, <2>2, <2>3, Zenon
  <1>. QED BY <1>1, Zenon

\* A secret that is stored is no longer being made.
Released(v, maker) == IF Making(v) THEN [maker EXCEPT ![v.code.secret] = {}] ELSE maker

\* It is known from then on, and so are the others that were.
LEMMA ReleaseFacts ==
  ASSUME minted \in Nat, NEW t, NEW v, NEW kind, NEW maker, DOMAIN maker = Nat, Keeps(kind, maker,
         t, v),
         NEW m, m = Released(v, maker)
  PROVE  /\ DOMAIN m = Nat /\ Known(kind, m, v.code)
         /\ \A i \in 1 .. minted : maker[i] = {} => m[i] = {}
         /\ \A i \in 1 .. minted : maker[i] # {t} => m[i] = maker[i]
         /\ Making(v) => m[v.code.secret] = {} /\ maker[v.code.secret] = {t}
  <1>1. CASE Making(v)
    <2>1. /\ v.code.secret \in 1 .. minted /\ kind[v.code.secret] = v.code.kind
          /\ maker[v.code.secret] = {t} /\ m = [maker EXCEPT ![v.code.secret] = {}]
      BY <1>1, Zenon DEF Keeps, Released
    <2>2. /\ DOMAIN m = Nat /\ m[v.code.secret] = {}
          /\ \A i \in 1 .. minted : i # v.code.secret => m[i] = maker[i]
      BY <2>1
    <2>. QED BY <1>1, <2>1, <2>2, Zenon DEF Known
  <1>2. CASE ~ Making(v)
    BY <1>2, Zenon DEF Keeps, Released
  <1>. QED BY <1>1, <1>2, Zenon

\* The request after a save is sound.
LEMMA SavesSound ==
  ASSUME StoreInv, NEW t, NEW v, NEW w, NEW kind, NEW maker, Sound(kind, maker, t, v),
         DOMAIN maker = Nat, SavedBy(v), Saves(t, v, w), UNCHANGED <<issued, minted, floor>>,
         v.pc # "reset" => UNCHANGED ended, NEW m, m = Released(v, maker)
  PROVE  Sound(kind, m, t, w)'
  <1>0. Control(v) /\ DocOK(v) /\ (v.solo => Alone(v)) /\ Keeps(kind, maker, t, v) /\ minted \in Nat
    BY Zenon DEF Sound, StoreInv
  <1>1. /\ w.op = v.op /\ w.token = v.token /\ w.pair = v.pair /\ ~ w.isNew /\ w.isNew \in BOOLEAN
        /\ w.code = v.code /\ w.then = v.then /\ w.solo = v.solo /\ w.stored = v.stored
        /\ Same(v, w, {"pc", "doc", "isNew", "stored"})
    BY Zenon DEF Saves, Same, Fields
  <1>2. OnRoute(v.op, v.pc) /\ v.stored \in BOOLEAN
    BY <1>0, Zenon DEF Control
  <1>. DEFINE Row == /\ w.doc = Whole(row') /\ v.pc # "reset" /\ w.op # "reset"
                     /\ w.pc \in {"persist", "mail", "sync", "publish"}
              None2 == /\ w.doc = NoDoc /\ w.pc = "answer"
                       /\ (v.pc = "remove" /\ w.op = "logout") \/ (v.pc = "reset" /\ w.op = "reset")
  <1>3. /\ v.pc \in {"rehash", "save", "killed", "remove", "reset"} /\ OnRoute(w.op, w.pc)
           /\ w.op # "none"
        /\ Row \/ None2
        /\ w.op = "callback" => w.pc \notin {"publish", "answer"}
    <2>1. Then(v, w.pc, w.doc)
      BY Zenon DEF Saves
    <2>. QED BY <1>1, <1>2, <2>1, Zenon DEF Then, OnRoute
  <1>4. v.pair = None
    BY <1>0, <1>3, Zenon DEF Control
  <1>5. Control(w)'
    <2>1. /\ v.pc # "answer" /\ (w.pc = "answer" => w.op \notin {"redeem", "prepare", "callback"})
          /\ ~ (w.op = "callback" /\ w.pc \in {"publish", "exchange"})
          /\ UNCHANGED issued /\ w.stored \in BOOLEAN
      BY <1>1, <1>2, <1>3, Zenon
    <2>. HIDE DEF Row, None2
    <2>. QED BY <1>0, <1>1, <1>3, <1>4, <2>1, ControlMoves, Zenon
  <1>6. /\ DocFits(w.doc)' /\ w.doc.modified = {}
        /\ w.pc # "answer" => row' # None /\ "tokenVersion" \in DOMAIN w.doc.values
        /\ "tokenVersion" \in DOMAIN w.doc.values => w.doc.values.tokenVersion = row'.tokenVersion
    <2>1. CASE Row
      <3>1. Grows /\ w.doc.values = row' /\ w.doc.modified = {} /\ RowFits(row') /\ row' # None
        <4>1. w.doc.values = row' /\ w.doc.modified = {}
          BY <2>1, SMTT(30) DEF Whole
        <4>2. ended' = ended /\ minted' = minted /\ issued' = issued
          BY <2>1, Zenon
        <4>3. issued \in Seq(Nat) /\ RowFits(row') /\ row' # None
          BY Zenon DEF StoreInv, SavedBy
        <4>4. Grows
          BY <1>0, <4>2, <4>3, SMTT(30) DEF Grows
        <4>. QED BY <4>1, <4>3, <4>4, Zenon
      <3>2. Fits(row') /\ "tokenVersion" \in DOMAIN row'
        BY <3>1, Zenon DEF RowFits, RowFields
      <3>3. Fits(w.doc.values)'
        BY <3>1, <3>2, FitsGrows, Zenon
      <3>. QED BY <3>1, <3>2, <3>3, Zenon DEF DocFits
    <2>2. CASE None2
      BY <2>2 DEF NoDoc, DocFits, Fits
    <2>. QED BY <1>3, <2>1, <2>2, Zenon
  <1>7. /\ w.pc \notin {"killed", "reset", "remove", "save"}
           /\ (w.pc = "answer" => w.op \in {"logout", "reset"})
        /\ w.op = "reset" => w.pc = "answer"
    BY <1>3, Zenon
  <1>8. ~ Resetting(w)' /\ ~ Making(w)' /\ (Loaded(w)' => w.pc # "answer")
    BY <1>7, Zenon DEF Resetting, Loaded, Making
  <1>9. DocOK(w)'
    BY <1>1, <1>3, <1>6, <1>7, <1>8, Zenon DEF DocOK
  <1>10. Keeps(kind, m, t, w)'
    <2>0. /\ Known(kind, maker, v.then) /\ (v.op = "verify" => v.code.kind = "verify-email")
          /\ v.op = "reset" => v.code.kind = "reset-password"
      BY <1>0, Zenon DEF Keeps
    <2>1. Known(kind, m, v.code) /\ Known(kind, m, v.then)
      <3>1. Known(kind, m, v.code) /\ \A i \in 1 .. minted : maker[i] = {} => m[i] = {}
        <4>1. DOMAIN maker = Nat /\ m = Released(v, maker)
          BY Zenon
        <4>. QED BY <1>0, <4>1, ReleaseFacts, SMTT(30)
      <3>. QED BY <2>0, <3>1, Zenon DEF Known
    <2>2. Known(kind, m, w.code)' /\ Known(kind, m, w.then)'
      BY <1>1, <2>1, Zenon DEF Known
    <2>3. Assigns(w, "emailVerificationToken", "verify-email")'
          /\ Assigns(w, "passwordResetToken", "reset-password")'
      BY <1>6, Zenon DEF Assigns
    <2>. QED BY <1>1, <1>7, <1>8, <2>0, <2>2, <2>3, ZenonT(30) DEF Keeps
  <1>11. w.solo => Alone(w)'
    <2>1. w.op = "logout" /\ w.pc = "answer" => w.token \notin Sessions'
      BY <1>1, <1>3, Zenon DEF SavedBy, Sessions
    <2>2. w.solo /\ w.op = "reset" /\ w.pc = "answer" => floor' = row'.tokenVersion
          /\ Sessions' = {}
      <3>1. w.op = "reset" /\ w.pc = "answer" => v.pc = "reset"
        BY <1>3, Zenon
      <3>2. v.pc = "reset" => row' # None /\ row'.refreshTokens = <<>>
                               /\ row'.tokenVersion = v.doc.values.tokenVersion
        BY Zenon DEF SavedBy
      <3>3. v.pc = "reset" /\ v.solo => floor' = v.doc.values.tokenVersion
        BY <1>0, Zenon DEF Alone
      <3>4. ListOf(<<>>) = {}
        BY DEF ListOf
      <3>. QED BY <1>1, <3>1, <3>2, <3>3, <3>4, Zenon DEF Sessions
    <2>. QED BY <1>1, <1>4, <1>6, <1>7, <2>1, <2>2, Zenon DEF Alone
  <1>. QED BY <1>5, <1>9, <1>10, <1>11, Zenon DEF Sound
=============================================================================
