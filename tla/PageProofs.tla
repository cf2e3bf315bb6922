----------------------------- MODULE PageProofs -----------------------------
(***************************************************************************)
(* The sessions of uam-backend, for any number of tabs and any caps: the   *)
(* inductive invariant, the steps of the pages and the crash, the initial  *)
(* states, and what the invariant gives.  The steps of the handlers are in *)
(* RequestProofs and SessionProofs.                                        *)
(***************************************************************************)
EXTENDS AuthClient, ListProofs

-----------------------------------------------------------------------------
(* The bounded counters and the small sets *)

\* The bounded counters, the index and the ready flag.
Counters ==
  /\ index \subseteq {"email", "oauth"} /\ ready \in BOOLEAN
  /\ faults \in 0 .. MaxFaults /\ ops \in 0 .. MaxOps

\* What a step may do to each.
Counted ==
  /\ index' = index \/ index' \subseteq {"email", "oauth"}
  /\ ready' = ready \/ ready' \in BOOLEAN
  /\ faults' = faults \/ \E ok \in BOOLEAN : Outcome(ok)
  /\ ops' = ops \/ (ops < MaxOps /\ ops' = ops + 1)

\* A fault and a request are counted only below their bounds.
LEMMA CountedKeeps ==
  ASSUME Counters, Counted
  PROVE  Counters'
  <1>1. faults' \in 0 .. MaxFaults
    BY BoundAssumption DEF Counters, Counted, Outcome
  <1>2. ops' \in 0 .. MaxOps
    BY BoundAssumption DEF Counters, Counted
  <1>3. index' \subseteq {"email", "oauth"} /\ ready' \in BOOLEAN
    BY Zenon DEF Counters, Counted
  <1>. QED BY <1>1, <1>2, <1>3 DEF Counters

\* The step leaves the row and the index alone, and Redis answers at most once.
Calls == UNCHANGED <<row, index>> /\ ready' = ready
         /\ (faults' = faults \/ \E ok \in BOOLEAN : Outcome(ok))

\* The steps that write the row.
Writing(t) ==
  \/ Rehash(t) \/ Insert(t) \/ Save(t) \/ Persist(t) \/ Rotate(t) \/ KillSave(t)
  \/ ResetSave(t) \/ LogoutSave(t)

\* What every step does to the counters and the row.
LEMMA StepCounts ==
  [Next]_vars
  => Counted /\ (row' = row \/ \E t \in Tabs : Writing(t))
  \* The keys of an account are its address and its provider's.
  <1>KeysFacts.
    ASSUME NEW values
    PROVE  Keys(values) \subseteq {"email", "oauth"}
    BY <1>KeysFacts, Zenon DEF Keys
  \* The steps that make or use a one-time code.
  <1>CodeCalls.
    ASSUME NEW t \in Tabs,
           \/ SendVerificationEmail(t) \/ SendPasswordResetEmail(t) \/ MakePoll(t)
           \/ RedeemLink(t) \/ ConsumeFormToken(t) \/ ConsumeOAuthState(t)
           \/ ConsumeOAuthExchangeCode(t) \/ MakeForm(t) \/ Prepare(t) \/ MakeExchange(t)
    PROVE  Calls
    <2>. USE <1>CodeCalls
    <2>1. ASSUME NEW code, NEW made, Create(code, made), UNCHANGED <<row, index>>
          PROVE  Calls
      BY <2>1, Zenon DEF Create, Calls
    <2>2. ASSUME NEW after, Consume(t, after)
          PROVE  Calls
      BY <2>2, Zenon DEF Consume, Get, Del, serverVars, Calls
    <2>3. CASE SendVerificationEmail(t) \/ SendPasswordResetEmail(t) \/ MakePoll(t)
      BY <2>1, <2>3 DEF SendVerificationEmail, SendPasswordResetEmail, MakePoll, Mail, serverVars,
           CreateEmailLinkCode, CreateVerificationPollToken
    <2>4. CASE Prepare(t) \/ MakeExchange(t)
      BY <2>1, <2>4 DEF Prepare, MakeExchange, serverVars, CreateOAuthState, CreateOAuthExchangeCode
    <2>5. CASE MakeForm(t)
      BY <2>5, Zenon DEF MakeForm, Put, serverVars, Calls
    <2>. QED BY <2>2, <2>3, <2>4, <2>5
           DEF RedeemLink, ConsumeFormToken, ConsumeOAuthState, ConsumeOAuthExchangeCode
  \* The steps that read the row, and the two that only talk to Redis.
  <1>ReadCalls.
    ASSUME NEW t \in Tabs,
           \/ RegisterFind(t) \/ ResendFind(t) \/ ForgotFind(t) \/ LoginFind(t) \/ VerifyFind(t)
           \/ FindUserForOAuth(t) \/ CreateForOAuth(t) \/ Publish(t) \/ RefreshFind(t) \/ Recheck(t)
           \/ Kill(t) \/ ResetFind(t) \/ ReadBack(t) \/ LogoutFind(t)
    PROVE  Calls
    <2>. USE <1>ReadCalls
    <2>1. ASSUME UNCHANGED <<row, index, ready, faults>>
          PROVE  Calls
      BY <2>1, Zenon DEF Calls
    <2>2. CASE RegisterFind(t) \/ ResendFind(t) \/ ForgotFind(t)
      BY <2>1, <2>2, SMTT(30) DEF RegisterFind, ResendFind, ForgotFind, codeVars
    <2>3. CASE LoginFind(t) \/ VerifyFind(t) \/ RefreshFind(t)
      BY <2>1, <2>3, SMTT(30) DEF LoginFind, VerifyFind, RefreshFind, codeVars, serverVars
    <2>4. CASE FindUserForOAuth(t) \/ CreateForOAuth(t)
      BY <2>1, <2>4, SMTT(30) DEF FindUserForOAuth, CreateForOAuth, codeVars, serverVars
    <2>5. CASE Recheck(t) \/ Kill(t)
      BY <2>1, <2>5, SMTT(30) DEF Recheck, Kill, codeVars, serverVars
    <2>6. CASE ResetFind(t) \/ LogoutFind(t)
      BY <2>1, <2>6 DEF ResetFind, LogoutFind, codeVars, serverVars
    <2>7. CASE Publish(t) \/ ReadBack(t)
      BY <2>7, Zenon DEF Publish, ReadBack, Calls, serverVars
    <2>. QED BY <2>2, <2>3, <2>4, <2>5, <2>6, <2>7
  \* The steps that write the row or the index do not talk to Redis.
  <1>WriteCalls.
    ASSUME NEW t \in Tabs,
           \/ Rehash(t) \/ Insert(t) \/ Save(t) \/ Persist(t) \/ Rotate(t) \/ KillSave(t)
           \/ ResetSave(t) \/ LogoutSave(t) \/ Sync(t)
    PROVE  UNCHANGED <<ready, faults>> /\ (UNCHANGED index \/ (Sync(t) /\ UNCHANGED row))
    <2>. USE <1>WriteCalls
    <2>1. CASE Rehash(t) \/ Insert(t) \/ Save(t)
      BY <2>1, Zenon DEF Rehash, Insert, Save, codeVars
    <2>2. CASE Persist(t) \/ Rotate(t) \/ KillSave(t)
      BY <2>2 DEF Persist, Rotate, KillSave, codeVars
    <2>3. CASE ResetSave(t) \/ LogoutSave(t)
      BY <2>3 DEF ResetSave, LogoutSave, codeVars
    <2>4. CASE Sync(t)
      BY <2>4, Zenon DEF Sync, codeVars
    <2>. QED BY <2>1, <2>2, <2>3, <2>4
  \* The pages: a request is counted, and a fetch may fail.
  <1>PageCalls.
    ASSUME NEW t \in Tabs,
           \/ EnsureCsrf(t) \/ Reload(t) \/ LogoutRefused(t)
           \/ SendRegister(t) \/ SendLogin(t) \/ SendResend(t) \/ SendForgot(t)
           \/ OpenLink(t) \/ SubmitVerify(t) \/ SubmitReset(t) \/ SendRefresh(t) \/ SendLogout(t)
           \/ StartOAuth(t) \/ ProviderRedirect(t) \/ SendExchange(t)
    PROVE  Calls /\ (ops' = ops \/ (ops < MaxOps /\ ops' = ops + 1))
    <2>. USE <1>PageCalls
    <2>1. ASSUME NEW op, NEW pc, NEW f, Send(t, op, pc, f)
          PROVE  Calls /\ ops < MaxOps /\ ops' = ops + 1
      BY <2>1, Zenon DEF Send, Calls, serverVars, codeVars
    <2>2. CASE EnsureCsrf(t) \/ Reload(t) \/ LogoutRefused(t)
      BY <2>2, Zenon DEF EnsureCsrf, Reload, LogoutRefused, Calls, serverVars, codeVars
    <2>3. CASE SendRegister(t) \/ SendLogin(t) \/ SendResend(t) \/ SendForgot(t) \/ SendRefresh(t)
               \/ SendLogout(t)
      BY <2>1, <2>3, ZenonT(30) DEF SendRegister, SendLogin, SendResend, SendForgot, SendForm,
           SendRefresh, SendLogout,
           SendCookie
    <2>4. CASE OpenLink(t) \/ SubmitVerify(t) \/ SubmitReset(t) \/ StartOAuth(t)
               \/ ProviderRedirect(t) \/ SendExchange(t)
      BY <2>1, <2>4, ZenonT(30) DEF OpenLink, SubmitVerify, SubmitReset, SubmitForm, StartOAuth,
           ProviderRedirect,
           SendExchange
    <2>. QED BY <2>2, <2>3, <2>4
  \* The answers: a fetch may fail, no request is counted.
  <1>AnswerCalls.
    ASSUME NEW t \in Tabs,
           \/ RegisterAnswer(t) \/ LoginAnswer(t) \/ RefreshAnswer(t) \/ ExchangeAnswer(t)
           \/ VerifyAnswer(t)
           \/ LogoutAnswer(t) \/ RedeemAnswer(t) \/ PrepareAnswer(t) \/ CallbackAnswer(t)
           \/ ResetAnswer(t) \/ KilledAnswer(t) \/ LostAnswer(t)
    PROVE  Calls /\ ops' = ops
    <2>. USE <1>AnswerCalls
    <2>1. CASE LoginAnswer(t) \/ RefreshAnswer(t) \/ ExchangeAnswer(t) \/ VerifyAnswer(t)
      BY <2>1, Zenon DEF LoginAnswer, RefreshAnswer, ExchangeAnswer, VerifyAnswer, SignedInSynced, SignedIn,
           Calls,
           serverVars
    <2>2. CASE RegisterAnswer(t) \/ LostAnswer(t) \/ LogoutAnswer(t)
      BY <2>2, Zenon DEF RegisterAnswer, LostAnswer, LogoutAnswer, Calls, serverVars, codeVars
    <2>3. ASSUME NEW op, PlainAnswer(t, op)
          PROVE  Calls /\ ops' = ops
      BY <2>3, Zenon DEF PlainAnswer, Calls, serverVars, codeVars
    <2>. QED BY <2>1, <2>2, <2>3
           DEF RedeemAnswer, PrepareAnswer, CallbackAnswer, ResetAnswer, KilledAnswer
  <1>1.
    ASSUME [Next]_vars
    PROVE  Counted /\ (row' = row \/ \E t \in Tabs : Writing(t))
    <2>. USE <1>1
    <2>1. ASSUME Calls, ops' = ops \/ (ops < MaxOps /\ ops' = ops + 1)
          PROVE  Counted /\ row' = row
      BY <2>1, Zenon DEF Calls, Counted
    <2>2. ASSUME NEW t \in Tabs, Serve(t), UNCHANGED clientVars
          PROVE  Counted /\ (row' = row \/ Writing(t))
      <3>0. ops' = ops
        BY <2>2, Zenon DEF clientVars
      <3>1. CASE Writing(t) \/ Sync(t)
        <4>1. UNCHANGED <<ready, faults>> /\ (UNCHANGED index \/ (Sync(t) /\ UNCHANGED row))
          BY <3>1, <1>WriteCalls, ZenonT(30) DEF Writing
        <4>2. Sync(t) => index' \subseteq {"email", "oauth"} /\ row' = row
          BY <1>KeysFacts, Zenon DEF Sync
        <4>. QED BY <3>0, <3>1, <4>1, <4>2 DEF Counted
      <3>2. CASE Calls
        BY <2>1, <3>0, <3>2
      <3>. QED BY <2>2, <3>1, <3>2, <1>CodeCalls, <1>ReadCalls, ZenonT(30) DEF Serve, Writing
    <2>3. CASE Crash
      BY <2>3, <1>KeysFacts, Zenon DEF Crash, Counted
    <2>4. CASE (Disconnect \/ Reconnect) /\ UNCHANGED <<serverVars, req, clientVars>>
      BY <2>4, Zenon DEF Disconnect, Reconnect, serverVars, clientVars, Counted
    <2>5. CASE UNCHANGED vars
      BY <2>5, Zenon DEF vars, serverVars, codeVars, clientVars, Counted
    <2>. QED BY <2>1, <2>2, <2>3, <2>4, <2>5, <1>PageCalls, <1>AnswerCalls, ZenonT(60) DEF Next
  <1>. QED BY <1>1, Zenon

\* The counters stay within their bounds.
LEMMA CountersStep ==
  ASSUME Counters, [Next]_vars
  PROVE  Counters'
  BY StepCounts, CountedKeeps

\* They start within their bounds.
LEMMA CountersInit ==
  ASSUME Init
  PROVE  Counters
  <1>1. faults \in 0 .. MaxFaults /\ ops \in 0 .. MaxOps /\ index \subseteq {"email", "oauth"}
    BY BoundAssumption DEF Init
  <1>2. ready \in BOOLEAN
    BY Zenon DEF Init
  <1>. QED BY <1>1, <1>2 DEF Counters

-----------------------------------------------------------------------------
(* Rows *)

\* The fields of a row, and what each may hold at this moment.
FieldSets ==
  [provider               |-> {"local", "google"},
   password               |-> {"none", "legacy", "peppered"},
   isEmailVerified        |-> BOOLEAN,
   emailVerificationToken |-> 0 .. minted,
   passwordResetToken     |-> 0 .. minted,
   tokenVersion           |-> Nat,
   refreshTokens          |-> {s \in Seq(1 .. Len(issued)) :
                                 Len(s) <= MAX_REFRESH /\ ListOf(s) \cap ended = {}},
   activeAccessJtis       |-> {s \in Seq(Nat) : Len(s) <= MAX_JTIS}]

RowFields == {"provider", "password", "isEmailVerified", "emailVerificationToken",
              "passwordResetToken", "tokenVersion", "refreshTokens", "activeAccessJtis"}

\* Fields with values a row can hold: of a row, a document or an update.
Fits(f) == DOMAIN f \subseteq RowFields /\ \A x \in DOMAIN f : f[x] \in FieldSets[x]

\* A document with such fields.
DocFits(doc) == Fits(doc.values) /\ doc.modified \subseteq DOMAIN doc.values

\* A row with such fields.
RowFits(r) == Fits(r) /\ DOMAIN r = RowFields /\ r \in Rows

\* What each column may hold.
LEMMA Columns ==
  /\ FieldSets.provider = {"local", "google"} /\ FieldSets.password = {"none", "legacy", "peppered"}
  /\ FieldSets.isEmailVerified = BOOLEAN /\ FieldSets.tokenVersion = Nat
  /\ FieldSets.emailVerificationToken = 0 .. minted /\ FieldSets.passwordResetToken = 0 .. minted
  /\ FieldSets.refreshTokens = {s \in Seq(1 .. Len(issued)) :
                                  Len(s) <= MAX_REFRESH /\ ListOf(s) \cap ended = {}}
  /\ FieldSets.activeAccessJtis = {s \in Seq(Nat) : Len(s) <= MAX_JTIS}
  BY Zenon DEF FieldSets

\* What the columns of a row hold.
LEMMA RowFacts ==
  ASSUME NEW r, RowFits(r)
  PROVE  /\ r.provider \in {"local", "google"} /\ r.password \in {"none", "legacy", "peppered"}
         /\ r.isEmailVerified \in BOOLEAN /\ r.tokenVersion \in Nat
         /\ r.emailVerificationToken \in 0 .. minted /\ r.passwordResetToken \in 0 .. minted
         /\ r.refreshTokens \in Seq(1 .. Len(issued)) /\ Len(r.refreshTokens) <= MAX_REFRESH
         /\ ListOf(r.refreshTokens) \cap ended = {}
         /\ r.activeAccessJtis \in Seq(Nat) /\ Len(r.activeAccessJtis) <= MAX_JTIS
  <1>1. \A x \in RowFields : r[x] \in FieldSets[x]
    BY Zenon DEF RowFits, Fits
  <1>. QED BY <1>1, Columns, Zenon DEF RowFields

\* A row whose columns fit is a row, and not None.
LEMMA FitsRow ==
  ASSUME NEW r, r = [x \in RowFields |-> r[x]], Fits(r), issued \in Seq(Nat), minted \in Nat
  PROVE  RowFits(r)
  <1>0. DOMAIN r = RowFields /\ \A x \in RowFields : r[x] \in FieldSets[x]
    BY Zenon DEF Fits
  <1>1. /\ r.provider \in {"local", "google"} /\ r.password \in {"none", "legacy", "peppered"}
        /\ r.isEmailVerified \in BOOLEAN /\ r.emailVerificationToken \in 0 .. minted
        /\ r.passwordResetToken \in 0 .. minted /\ r.tokenVersion \in Nat
        /\ r.refreshTokens \in Seq(1 .. Len(issued)) /\ r.activeAccessJtis \in Seq(Nat)
    BY <1>0, Zenon DEF FieldSets, RowFields
  <1>2. r.refreshTokens \in Seq(Nat)
    BY <1>1
  <1>3. r \in Rows
    BY <1>1, <1>2 DEF Rows, RowFields
  <1>. QED BY <1>0, <1>3, Zenon DEF RowFits

-----------------------------------------------------------------------------
(* Requests *)

\* The steps of each handler.
OnRoute(op, pc) ==
  \/ op = "none" /\ pc = "idle"
  \/ op = "register" /\ pc \in {"find", "save", "sync", "mail", "poll", "answer"}
  \/ op \in {"resend", "forgot"} /\ pc \in {"find", "save", "mail"}
  \/ op = "login" /\ pc \in {"find", "rehash", "persist", "publish", "answer"}
  \/ op = "verify"
     /\ pc \in {"take", "drop", "find", "save", "sync", "persist", "publish", "answer"}
  \/ op = "reset" /\ pc \in {"take", "drop", "find", "publish", "readback", "reset", "answer"}
  \/ op = "refresh" /\ pc \in {"find", "recheck", "rotate", "kill", "killed", "publish", "answer"}
  \/ op = "logout" /\ pc \in {"find", "remove", "answer"}
  \/ op = "redeem" /\ pc \in {"take", "drop", "form", "answer"}
  \/ op = "prepare" /\ pc \in {"state", "answer"}
  \/ op = "callback" /\ pc \in {"find", "save", "sync", "persist", "publish", "exchange", "answer"}
  \/ op = "exchange" /\ pc \in {"take", "drop", "answer"}

\* The fields of a request, and the pair behind an exchange code.
Fields == {"op", "pc", "doc", "code", "then", "token", "pair", "isNew", "stored", "solo"}

PairOK(c) == c.k = "exchange" => c.pair \in 1 .. Len(issued)

\* The step, the codes and the token pairs of a request.
Control(v) ==
  /\ DOMAIN v = Fields
  /\ OnRoute(v.op, v.pc)
  /\ v.isNew \in BOOLEAN /\ v.stored \in BOOLEAN /\ v.solo \in BOOLEAN
  /\ v.isNew => v.pc = "save" /\ v.op \in {"register", "callback"}
  /\ v.token \in {None} \cup 1 .. Len(issued) /\ v.pair \in {None} \cup 1 .. Len(issued)
  /\ PairOK(v.code) /\ PairOK(v.then)
  /\ v.op = "refresh" \/ (v.op = "logout" /\ v.pc # "answer") => v.token # None
  /\ v.op = "redeem" => v.code.k = "link" /\ (v.pc = "answer" => v.then.k = "form")
  /\ v.op \in {"verify", "reset"} => v.code.k = "form"
  /\ v.op = "exchange" => v.code.k \in {"none", "state", "exchange"} /\ v.then.k = "exchange"
  /\ v.op = "prepare" /\ v.pc = "answer" => v.code.k = "state"
  /\ v.op = "callback" /\ v.pc = "answer" => v.then.k = "exchange"
  /\ v.op = "callback" /\ v.pc \in {"publish", "exchange"} => v.pair # None
  /\ v.pair # None => v.pc \in {"publish", "exchange", "answer"} /\ v.op # "reset"

\* The steps that have a document of the stored row, and those of a reset that
\* has its new values.
Loaded(v) ==
  \/ v.pc \in {"rehash", "sync", "persist", "recheck", "rotate", "killed", "publish", "readback",
               "reset", "remove"}
  \/ v.pc = "save" /\ ~ v.isNew

Resetting(v) == v.op = "reset" /\ v.pc \in {"publish", "readback", "reset"}

\* The document of a request.
DocOK(v) ==
  /\ DocFits(v.doc)
  /\ v.op = "none" => v = Idle
  /\ Loaded(v) => row # None /\ "tokenVersion" \in DOMAIN v.doc.values
  /\ v.isNew => /\ DOMAIN v.doc.values \subseteq v.doc.modified
                /\ "passwordResetToken" \notin DOMAIN v.doc.values
                /\ "tokenVersion" \notin DOMAIN v.doc.values
                /\ "refreshTokens" \notin DOMAIN v.doc.values
  /\ "tokenVersion" \in v.doc.modified => v.pc = "killed" \/ Resetting(v)
  /\ Resetting(v) => /\ "refreshTokens" \in v.doc.modified /\ "tokenVersion" \in v.doc.modified
                     /\ v.doc.values.refreshTokens = <<>>
  /\ v.pc = "remove" => /\ "refreshTokens" \in DOMAIN v.doc.values
                        /\ v.token \notin ListOf(v.doc.values.refreshTokens)

\* The stored state.
StoreInv ==
  /\ row # None => RowFits(row)
  /\ issued \in Seq(Nat) /\ minted \in Nat /\ ended \subseteq 1 .. Len(issued)
  /\ Len(issued) > 0 => row # None
  /\ \A c \in mailed : c.k = "link"

\* Nothing has overlapped v: its document is current, and so is its pair.
Alone(v) ==
  /\ "tokenVersion" \in DOMAIN v.doc.values \ v.doc.modified
       => v.doc.values.tokenVersion = row.tokenVersion
  /\ v.op = "logout" /\ v.pc = "answer" => v.token \notin Sessions
  /\ v.op # "exchange" /\ v.pair # None =>
       /\ issued[v.pair] = row.tokenVersion /\ v.pair \in Sessions
       /\ v.stored /\ v.pc # "publish" => floor = issued[v.pair]
  /\ v.pc = "reset" => floor = v.doc.values.tokenVersion
  /\ v.op = "reset" /\ v.pc = "answer" => floor = row.tokenVersion /\ Sessions = {}

\* The request has made a secret and not stored it yet.
Making(v) == v.pc = "save" /\ v.op \in {"register", "resend", "forgot"}

\* A code that may have left the server: its secret has one purpose, and no
\* request is still making it.
Known(kind, maker, c) ==
  c.k \in {"link", "form"} =>
    c.secret \in 1 .. minted /\ kind[c.secret] = c.kind /\ maker[c.secret] = {}

\* An assignment to a secret's column clears it or stores the new secret.
Assigns(v, field, purpose) ==
  field \in v.doc.modified =>
    \/ v.doc.values[field] = 0
    \/ Making(v) /\ v.code.kind = purpose /\ v.doc.values[field] = v.code.secret

\* The secret in a column of the row.
Holds(kind, maker, s, purpose) ==
  s # 0 => s \in 1 .. minted /\ kind[s] = purpose /\ maker[s] = {} /\ s \notin spent

\* The secrets of the request v of tab t.
Keeps(kind, maker, t, v) ==
  /\ IF Making(v)
       THEN /\ v.code.k = "link" /\ v.code.secret \in 1 .. minted
            /\ kind[v.code.secret] = v.code.kind /\ maker[v.code.secret] = {t}
       ELSE Known(kind, maker, v.code)
  /\ Known(kind, maker, v.then)
  /\ Assigns(v, "emailVerificationToken", "verify-email")
  /\ Assigns(v, "passwordResetToken", "reset-password")
  /\ v.op = "verify" => /\ v.code.kind = "verify-email"
                        /\ v.pc = "save" => /\ "emailVerificationToken" \in v.doc.modified
                                            /\ v.doc.values.emailVerificationToken = 0
  /\ v.op = "reset" => /\ v.code.kind = "reset-password"
                       /\ Resetting(v) => /\ "passwordResetToken" \in v.doc.modified
                                          /\ v.doc.values.passwordResetToken = 0

\* The stored secrets: in the inbox, in the row, and those that were used.
\* kind gives every secret its purpose, maker the tab whose request still
\* holds it back.
Secrets(kind, maker) ==
  /\ \A c \in mailed : Known(kind, maker, c)
  /\ row # None => /\ Holds(kind, maker, row.emailVerificationToken, "verify-email")
                   /\ Holds(kind, maker, row.passwordResetToken, "reset-password")
  /\ \A s \in spent : s \in 1 .. minted /\ maker[s] = {}

\* Everything about the request v of tab t.
Sound(kind, maker, t, v) ==
  Control(v) /\ DocOK(v) /\ (v.solo => Alone(v)) /\ Keeps(kind, maker, t, v)

\* A request that ends leaves its tab idle, and an idle tab is sound.
LEMMA IdleSound ==
  ASSUME NEW t, NEW kind, NEW maker
  PROVE  Sound(kind, maker, t, Idle)
  <1>1. Control(Idle)
    BY ZenonT(30) DEF Control, OnRoute, Fields, Idle, PairOK, NoCode
  <1>2. DocOK(Idle)
    BY Zenon DEF DocOK, DocFits, Fits, Idle, NoDoc, Loaded, Resetting
  <1>3. Keeps(kind, maker, t, Idle)
    BY ZenonT(30) DEF Keeps, Known, Assigns, Making, Resetting, Idle, NoDoc, NoCode
  <1>. QED BY <1>1, <1>2, <1>3, Zenon DEF Sound, Idle

\* An idle tab is sound whatever the store is.
LEMMA IdleStays ==
  ASSUME NEW t, NEW k, NEW m
  PROVE  Sound(k, m, t, Idle)'
  <1>1. Control(Idle)'
    BY ZenonT(30) DEF Control, OnRoute, Fields, Idle, PairOK, NoCode
  <1>2. DocOK(Idle)'
    BY Zenon DEF DocOK, DocFits, Fits, Idle, NoDoc, Loaded, Resetting
  <1>3. Keeps(k, m, t, Idle)'
    BY ZenonT(30) DEF Keeps, Known, Assigns, Making, Resetting, Idle, NoDoc, NoCode
  <1>4. ~ Idle.solo
    BY Zenon DEF Idle
  <1>. QED BY <1>1, <1>2, <1>3, <1>4 DEF Sound

\* A list of members of S is one of members of T.
LEMMA WiderSeq ==
  ASSUME NEW S, NEW T, S \subseteq T
  PROVE  Seq(S) \subseteq Seq(T)
  OBVIOUS

\* Pairs and secrets are only added, no session ends and the row stays.
Grows ==
  /\ minted' \in Nat /\ minted <= minted' /\ issued' \in Seq(Nat) /\ Len(issued) <= Len(issued')
  /\ ended' = ended

\* What fits still fits when pairs and secrets are added.
LEMMA FitsGrows ==
  ASSUME StoreInv, Grows
  PROVE  \A f : Fits(f) => Fits(f)'
  <1>1. /\ 1 .. Len(issued) \subseteq 1 .. Len(issued') /\ 0 .. minted \subseteq 0 .. minted'
        /\ ended' = ended
    BY DEF StoreInv, Grows
  <1>2. Seq(1 .. Len(issued)) \subseteq Seq(1 .. Len(issued'))
    BY <1>1, WiderSeq, Zenon
  <1>. DEFINE A == FieldSets
              B == FieldSets'
  <1>3. /\ A.provider = B.provider /\ A.password = B.password
           /\ A.isEmailVerified = B.isEmailVerified
        /\ A.tokenVersion = B.tokenVersion /\ A.activeAccessJtis = B.activeAccessJtis
    BY Zenon DEF FieldSets
  <1>4. A.emailVerificationToken \subseteq B.emailVerificationToken
        /\ A.passwordResetToken \subseteq B.passwordResetToken
    BY <1>1, Zenon DEF FieldSets
  <1>5. A.refreshTokens \subseteq B.refreshTokens
    <2>. DEFINE S == Seq(1 .. Len(issued))
                T == Seq(1 .. Len(issued'))
                P(s) == Len(s) <= MAX_REFRESH /\ ListOf(s) \cap ended = {}
    <2>1. A.refreshTokens = {s \in S : P(s)} /\ B.refreshTokens = {s \in T : P(s)}
      BY <1>1, Zenon DEF FieldSets
    <2>. HIDE DEF S, T, P, A, B
    <2>2. S \subseteq T
      BY <1>2, Zenon DEF S, T
    <2>. QED BY <2>1, <2>2, Zenon
  <1>. HIDE DEF A, B
  <1>6. \A x \in RowFields : A[x] \subseteq B[x]
    BY <1>3, <1>4, <1>5, Zenon DEF RowFields
  <1>. QED BY <1>6, Zenon DEF Fits, A, B

\* The secrets' purposes and makers k and m after a step of t: what is known
\* of a secret stays, but t may stop making one.
Alike(t, kind, maker, k, m) ==
  /\ DOMAIN k = Nat /\ DOMAIN m = Nat
  /\ \A i \in 1 .. minted : k[i] = kind[i] /\ (maker[i] # {t} => m[i] = maker[i])

\* What is known of a code is known of it afterwards.
LEMMA KnownAlike ==
  ASSUME minted \in Nat, minted' \in Nat, minted <= minted', NEW t, NEW kind, NEW maker, NEW k,
         NEW m,
         Alike(t, kind, maker, k, m)
  PROVE  \A c : Known(kind, maker, c) => Known(k, m, c)'
  <1>1. \A i \in 1 .. minted : i \in 1 .. minted' /\ (maker[i] = {} => m[i] = {}) /\ k[i] = kind[i]
    BY DEF Alike
  <1>. QED BY <1>1, Zenon DEF Known

-----------------------------------------------------------------------------
(* The invariant *)

\* What holds of every page.
PageOK(p) ==
  /\ DOMAIN p = {"csrf", "init", "form", "oauth", "code"}
  /\ p.csrf \in {"none", "match", "stale"} /\ p.init \in {"unset", "done", "failed"}
  /\ p.form = NoCode \/ p.form.k = "form"
  /\ p.oauth = NoCode \/ p.oauth.k = "state"
  /\ p.code = NoCode \/ (p.code.k = "exchange" /\ PairOK(p.code))

\* The cookie jars and the pages.
ClientInv ==
  /\ jarOf \in [Tabs -> Jars] /\ jar \in [Jars -> {None} \cup 1 .. Len(issued)]
  /\ DOMAIN tab = Tabs /\ \A t \in Tabs : \A p \in {tab[t]} : PageOK(p)

\* A request that was alone all along is alone now.
Flight == DOMAIN req = Tabs
/\ \A t \in Tabs : req[t].solo => \A u \in Tabs \ {t} : req[u].op = "none"

\* The secrets, and what the requests and pages hold of them.
Minds(kind, maker) ==
  /\ DOMAIN kind = Nat /\ DOMAIN maker = Nat /\ Secrets(kind, maker)
  /\ \A t \in Tabs : \A v \in {req[t]} : Sound(kind, maker, t, v)
  /\ \A t \in Tabs : \A p \in {tab[t]} : Known(kind, maker, p.form)

\* The inductive invariant.
SessionInv == StoreInv /\ ClientInv /\ Flight /\ \E kind, maker : Minds(kind, maker)

-----------------------------------------------------------------------------
(* Steps of the pages *)

\* What a step of the clients leaves alone, and the cookies and pages after it.
Clients(kind, maker) ==
  /\ UNCHANGED <<row, issued, minted, mailed, spent, floor, jarOf>>
  /\ jar' \in [Jars -> {None} \cup 1 .. Len(issued)] /\ DOMAIN tab' = Tabs
  /\ \A t \in Tabs : \A p \in {tab'[t]} : PageOK(p) /\ Known(kind, maker, p.form)

\* A request stays sound while the store stays as it is, also when another one
\* begins.
LEMMA SoundStays ==
  ASSUME StoreInv, UNCHANGED <<row, issued, minted, floor, ended>>, NEW t, NEW v, NEW w,
         NEW kind, NEW maker, Sound(kind, maker, t, v), w = v \/ w = [v EXCEPT !.solo = FALSE]
  PROVE  Sound(kind, maker, t, w)'
  <1>0. Control(v) /\ DocOK(v) /\ (v.solo => Alone(v)) /\ Keeps(kind, maker, t, v)
        /\ DOMAIN v = Fields
    BY Zenon DEF Sound, Control
  <1>1. /\ w.op = v.op /\ w.doc = v.doc /\ w.token = v.token /\ w.pair = v.pair /\ w.isNew = v.isNew
        /\ w.code = v.code /\ w.then = v.then /\ w.stored = v.stored /\ w.pc = v.pc
           /\ DOMAIN w = Fields
    BY <1>0, Zenon DEF Fields
  <1>2. w.solo \in BOOLEAN /\ (w.solo => w = v) /\ (v = Idle => w = Idle)
    <2>1. v.solo \in BOOLEAN
      BY <1>0, Zenon DEF Control
    <2>2. w = v \/ w.solo = FALSE
      BY <1>0, Zenon DEF Fields
    <2>3. ASSUME v = Idle, w = [v EXCEPT !.solo = FALSE]
          PROVE  w = v
      BY <2>3, Zenon DEF Idle
    <2>. QED BY <2>1, <2>2, <2>3, Zenon
  <1>3. Grows
    BY DEF Grows, StoreInv
  <1>4. Control(w)'
    BY <1>0, <1>1, <1>2 DEF Control, PairOK
  <1>5. DocOK(w)'
    <2>1. DocFits(w.doc)'
      BY <1>0, <1>1, <1>3, FitsGrows, SMTT(30) DEF DocOK, DocFits
    <2>. QED BY <1>0, <1>1, <1>2, <2>1, Zenon DEF DocOK, Loaded, Resetting
  <1>6. Keeps(kind, maker, t, w)'
    BY <1>0, <1>1 DEF Keeps, Known, Assigns, Making, Resetting
  <1>7. w.solo => Alone(w)'
    BY <1>0, <1>2, Zenon DEF Alone, Sessions
  <1>. QED BY <1>4, <1>5, <1>6, <1>7 DEF Sound

\* A step of the clients that keeps the requests sound.
LEMMA ClientStep ==
  \A kind, maker : \A S \in SUBSET (1 .. Len(issued)) :
    SessionInv /\ Minds(kind, maker) /\ Clients(kind, maker) /\ ended' = ended \cup S
      /\ S \cap Sessions = {} /\ Flight'
      /\ (\A t \in Tabs : \A v \in {req'[t]} : Sound(kind, maker, t, v)')
    => SessionInv'
  \* A session that is not stored can be counted among the ended ones.
  <1>EndedStore.
    ASSUME StoreInv, NEW kind, NEW maker, DOMAIN kind = Nat, DOMAIN maker = Nat, Secrets(kind, maker),
           UNCHANGED <<row, issued, minted, mailed, spent>>, NEW S \in SUBSET (1 .. Len(issued)),
           ended' = ended \cup S, S \cap Sessions = {}
    PROVE  StoreInv' /\ Secrets(kind, maker)'
    <2>. USE <1>EndedStore
    <2>1. row # None => RowFits(row)'
      <3>. SUFFICES ASSUME row # None
                    PROVE  RowFits(row)'
        BY Zenon
      <3>1. PICK r : r = row /\ row' = r
        BY Zenon
      <3>2. Fits(r) /\ DOMAIN r = RowFields /\ r \in Rows
        BY <3>1, Zenon DEF StoreInv, RowFits
      <3>. DEFINE A == FieldSets
                  B == FieldSets'
                  q == r.refreshTokens
      <3>3. q \in B.refreshTokens
        <4>1. q \in Seq(1 .. Len(issued)) /\ Len(q) <= MAX_REFRESH /\ ListOf(q) \cap ended = {}
          BY <3>2, RowFacts, Zenon DEF RowFits
        <4>2. ListOf(q) \cap S = {}
          BY <3>1, Zenon DEF Sessions
        <4>3. B.refreshTokens = {s \in Seq(1 .. Len(issued)) :
                                   Len(s) <= MAX_REFRESH /\ ListOf(s) \cap ended' = {}}
          BY Zenon DEF FieldSets
        <4>. HIDE DEF q, B
        <4>. QED BY <4>1, <4>2, <4>3
      <3>4. /\ A.provider = B.provider /\ A.password = B.password
               /\ A.isEmailVerified = B.isEmailVerified
            /\ A.tokenVersion = B.tokenVersion /\ A.activeAccessJtis = B.activeAccessJtis
            /\ A.emailVerificationToken = B.emailVerificationToken
            /\ A.passwordResetToken = B.passwordResetToken
        BY Zenon DEF FieldSets
      <3>5. \A x \in RowFields : r[x] \in A[x]
        BY <3>2, Zenon DEF Fits
      <3>. HIDE DEF A, B, q
      <3>6. \A x \in RowFields : r[x] \in B[x]
        BY <3>3, <3>4, <3>5, Zenon DEF RowFields, q
      <3>7. Fits(r)'
        BY <3>2, <3>6, Zenon DEF Fits, B
      <3>. QED BY <3>1, <3>2, <3>7, Zenon DEF RowFits
    <2>2. StoreInv'
      BY <2>1, Zenon DEF StoreInv
    <2>3. Secrets(kind, maker)'
      BY Zenon DEF Secrets, Holds, Known
    <2>. QED BY <2>2, <2>3, Zenon
  <1>1.
    ASSUME SessionInv, NEW kind, NEW maker, Minds(kind, maker), Clients(kind, maker),
           NEW S \in SUBSET (1 .. Len(issued)), ended' = ended \cup S, S \cap Sessions = {},
           Flight', \A t \in Tabs : \A v \in {req'[t]} : Sound(kind, maker, t, v)'
    PROVE  SessionInv'
    <2>. USE <1>1
    <2>1. StoreInv /\ ClientInv /\ DOMAIN kind = Nat /\ DOMAIN maker = Nat /\ Secrets(kind, maker)
      BY Zenon DEF SessionInv, Minds
    <2>2. StoreInv' /\ Secrets(kind, maker)'
      BY <2>1, <1>EndedStore, ZenonT(30) DEF Clients
    <2>3. \A p : PageOK(p) => PageOK(p)'
      BY Zenon DEF PageOK, PairOK, Clients
    <2>4. ClientInv'
      BY <2>1, <2>3, Zenon DEF ClientInv, Clients
    <2>5. \A c : Known(kind, maker, c) => Known(kind, maker, c)'
      BY Zenon DEF Known, Clients
    <2>6. Minds(kind, maker)'
      BY <2>1, <2>2, <2>5 DEF Minds, Clients
    <2>. QED BY <2>2, <2>4, <2>6 DEF SessionInv
  <1>. QED BY <1>1, Zenon

\* A step that changes pages only.
LEMMA PageStep ==
  ASSUME SessionInv, NEW kind, NEW maker, Minds(kind, maker), Clients(kind, maker), UNCHANGED <<req,
         ended>>
  PROVE  SessionInv'
  <1>1. StoreInv /\ Flight
    BY Zenon DEF SessionInv
  <1>2. \A t \in Tabs : \A v \in {req'[t]} : Sound(kind, maker, t, v)'
    BY <1>1, SoundStays DEF Minds, Clients
  <1>3. Flight'
    BY <1>1, Zenon DEF Flight
  <1>4. ended' = ended \cup {} /\ {} \in SUBSET (1 .. Len(issued)) /\ {} \cap Sessions = {}
    BY Zenon
  <1>. QED BY <1>2, <1>3, <1>4, ClientStep, Zenon

\* A step in which the request of t ends.
LEMMA AnswerStep ==
  ASSUME SessionInv, NEW kind, NEW maker, Minds(kind, maker), Clients(kind, maker),
         NEW t \in Tabs, End(t), NEW S \in SUBSET (1 .. Len(issued)), ended' = ended \cup S,
         S \cap Sessions = {},
         req[t].solo \/ S = {}
  PROVE  SessionInv'
  <1>1. StoreInv /\ Flight /\ DOMAIN req = Tabs
    BY Zenon DEF SessionInv, Flight
  <1>2. DOMAIN req' = Tabs /\ req'[t] = Idle /\ \A u \in Tabs \ {t} : req'[u] = req[u]
    BY <1>1, Zenon DEF End
  <1>3. Idle.op = "none" /\ ~ Idle.solo
    BY Zenon DEF Idle
  <1>4. ASSUME NEW u \in Tabs, NEW v, v = req'[u]
        PROVE  Sound(kind, maker, u, v)'
    <2>1. CASE v = Idle
      BY <2>1, IdleStays, Zenon
    <2>2. CASE v # Idle
      <3>1. u # t /\ v = req[u] /\ Sound(kind, maker, u, v)
        BY <1>2, <1>4, <2>2, SMTT(30) DEF Minds
      <3>2. ~ req[t].solo
        BY <1>1, <2>2, <3>1 DEF Flight, Sound, DocOK
      <3>. QED BY <1>1, <3>1, <3>2, SoundStays DEF Clients
    <2>. QED BY <2>1, <2>2, Zenon
  <1>5. Flight'
    BY <1>1, <1>2, <1>3 DEF Flight
  <1>. QED BY <1>4, <1>5, ClientStep, Zenon

\* What a page may send.
Asks(kind, maker, op, pc, code, then, token) ==
  /\ token \in {None} \cup 1 .. Len(issued)
  /\ Known(kind, maker, code) /\ Known(kind, maker, then) /\ PairOK(code) /\ PairOK(then)
  /\ \/ op \in {"register", "login", "resend", "forgot", "callback"} /\ pc = "find"
     \/ op = "redeem" /\ pc = "take" /\ code.k = "link"
     \/ op = "verify" /\ pc = "take" /\ code.k = "form" /\ code.kind = "verify-email"
     \/ op = "reset" /\ pc = "take" /\ code.k = "form" /\ code.kind = "reset-password"
     \/ op \in {"refresh", "logout"} /\ pc = "find" /\ token # None
     \/ op = "logout" /\ pc = "answer" /\ token = None
     \/ op = "prepare" /\ pc = "state"
     \/ op = "exchange" /\ pc = "take" /\ code.k \in {"none", "state"} /\ then.k = "exchange"

\* The request that it becomes.
Starts(kind, maker, w) ==
  /\ DOMAIN w = Fields /\ w.doc = NoDoc /\ w.isNew = FALSE /\ w.stored = FALSE /\ w.solo \in BOOLEAN
  /\ w.pair = None /\ Asks(kind, maker, w.op, w.pc, w.code, w.then, w.token)

\* The requests after one of t began.
Begun(t, op, pc, f, w) ==
  /\ DOMAIN w = Fields /\ w.doc = NoDoc /\ w.isNew = FALSE /\ w.stored = FALSE /\ w.solo \in BOOLEAN
  /\ w.pair = None /\ w.op = op /\ w.pc = pc
  /\ w.code = IF "code" \in DOMAIN f THEN f.code ELSE NoCode
  /\ w.then = IF "then" \in DOMAIN f THEN f.then ELSE NoCode
  /\ w.token = IF "token" \in DOMAIN f THEN f.token ELSE None
  /\ w.solo => \A u \in Tabs \ {t} : req[u].op = "none"
  /\ DOMAIN req' = Tabs /\ \A u \in Tabs \ {t} : req'[u] = [req[u] EXCEPT !.solo = FALSE]

\* A page in order.
Fine(kind, maker, p) == PageOK(p) /\ Known(kind, maker, p.form)

\* What a page may be given.
Given(kind, maker, f) ==
  /\ DOMAIN f \subseteq {"csrf", "init", "form", "oauth", "code"}
  /\ "csrf" \in DOMAIN f => f.csrf \in {"none", "match", "stale"}
  /\ "init" \in DOMAIN f => f.init \in {"unset", "done", "failed"}
  /\ "form" \in DOMAIN f => (f.form = NoCode \/ f.form.k = "form") /\ Known(kind, maker, f.form)
  /\ "oauth" \in DOMAIN f => f.oauth = NoCode \/ f.oauth.k = "state"
  /\ "code" \in DOMAIN f => f.code = NoCode \/ (f.code.k = "exchange" /\ PairOK(f.code))

\* It stays in order.
LEMMA FineOver ==
  ASSUME NEW kind, NEW maker, NEW p, Fine(kind, maker, p), NEW f, Given(kind, maker, f)
  PROVE  Fine(kind, maker, Over(f, p))
  <1>. DEFINE q == Over(f, p)
              All == {"csrf", "init", "form", "oauth", "code"}
  <1>1. DOMAIN q = All /\ \A x \in All : q[x] = IF x \in DOMAIN f THEN f[x] ELSE p[x]
    BY Zenon DEF Over, Given, Fine, PageOK
  <1>. HIDE DEF q
  <1>2. PageOK(q)
    BY <1>1 DEF Fine, PageOK, Given
  <1>3. Known(kind, maker, q.form)
    BY <1>1, Zenon DEF Fine, Given
  <1>. QED BY <1>2, <1>3 DEF Fine, q

\* What the answers give a page is fine.
LEMMA GivenFacts ==
  ASSUME NEW kind, NEW maker
  PROVE  /\ Given(kind, maker, Synced) /\ Given(kind, maker, SignedOut)
         /\ Given(kind, maker, [init |-> "failed"]) /\ Given(kind, maker, [csrf |-> "stale"])
         /\ \A ok : Given(kind, maker, SyncCsrf(ok))
         /\ Given(kind, maker, [csrf |-> "none", init |-> "unset", form |-> NoCode])
         /\ Given(kind, maker, [oauth |-> NoCode, code |-> NoCode])
  <1>1. Given(kind, maker, Synced) /\ Given(kind, maker, SignedOut)
        /\ \A ok : Given(kind, maker, SyncCsrf(ok))
    BY Zenon DEF Given, Synced, SignedOut, SyncCsrf
  <1>2. Given(kind, maker, [init |-> "failed"]) /\ Given(kind, maker, [csrf |-> "stale"])
    BY Zenon DEF Given
  <1>3. Given(kind, maker, [csrf |-> "none", init |-> "unset", form |-> NoCode])
        /\ Given(kind, maker, [oauth |-> NoCode, code |-> NoCode])
    BY Zenon DEF Given, Known, NoCode
  <1>. QED BY <1>1, <1>2, <1>3

\* ... and when its cookie jar has a new CSRF cookie.
LEMMA JarPages ==
  \A kind, maker : \A t \in Tabs : \A f :
    ClientInv /\ Minds(kind, maker)
      /\ (Given(kind,
maker, f))
      /\ tab' = [OutOfStep(t) EXCEPT ![t] = Over(f, @)]
    => DOMAIN tab' = Tabs /\ \A u \in Tabs : \A q \in {tab'[u]} : PageOK(q)
       /\ Known(kind, maker, q.form)
  \* ... when its CSRF token is out of step ...
  <1>FineStale.
    ASSUME NEW kind, NEW maker, NEW p, Fine(kind, maker, p)
    PROVE  Fine(kind, maker, [p EXCEPT !.csrf = "stale"])
    <2>. USE <1>FineStale
    <2>. DEFINE q == [p EXCEPT !.csrf = "stale"]
    <2>1. /\ DOMAIN q = {"csrf", "init", "form", "oauth", "code"}
          /\ q.csrf = "stale" /\ q.init = p.init /\ q.form = p.form /\ q.oauth = p.oauth
             /\ q.code = p.code
      BY Zenon DEF Fine, PageOK
    <2>. HIDE DEF q
    <2>. QED BY <2>1, Zenon DEF Fine, PageOK, q
  <1>1.
    ASSUME ClientInv, NEW kind, NEW maker, Minds(kind, maker), NEW t \in Tabs, NEW f, Given(kind,
           maker, f),
           tab' = [OutOfStep(t) EXCEPT ![t] = Over(f, @)]
    PROVE  DOMAIN tab' = Tabs /\ \A u \in Tabs : \A q \in {tab'[u]} : PageOK(q)
           /\ Known(kind, maker, q.form)
    <2>. USE <1>1
    <2>1. \A u \in Tabs : Fine(kind, maker, tab[u])
      BY Zenon DEF ClientInv, Minds, Fine
    <2>2. DOMAIN OutOfStep(t) = Tabs /\ \A u \in Tabs : Fine(kind, maker, OutOfStep(t)[u])
      BY <2>1, <1>FineStale DEF OutOfStep
    <2>3. DOMAIN tab' = Tabs /\ \A u \in Tabs : Fine(kind, maker, tab'[u])
      BY <2>2, FineOver, Zenon
    <2>. QED BY <2>3 DEF Fine
  <1>. QED BY <1>1, Zenon

\* ... and when it is loaded anew.
LEMMA FineFresh ==
  ASSUME NEW kind, NEW maker
  PROVE  Fine(kind, maker, FreshPage)
  BY Zenon DEF Fine, FreshPage, PageOK, Known, NoCode

\* The pages when only that of t changes ...
LEMMA OnePage ==
  ASSUME ClientInv, NEW kind, NEW maker, Minds(kind, maker), NEW t \in Tabs, NEW p, Fine(kind,
         maker, p),
         tab' = [tab EXCEPT ![t] = p]
  PROVE  DOMAIN tab' = Tabs /\ \A u \in Tabs : \A q \in {tab'[u]} : PageOK(q)
         /\ Known(kind, maker, q.form)
  BY Zenon DEF ClientInv, Minds, Fine

\* The pages' requests.
LEMMA SendsStep ==
  \A t \in Tabs :
    SessionInv
      /\ (\/ SendRegister(t) \/ SendLogin(t) \/ SendResend(t) \/ SendForgot(t)
          \/ OpenLink(t) \/ SubmitVerify(t) \/ SubmitReset(t)
          \/ SendRefresh(t) \/ SendLogout(t)
          \/ StartOAuth(t) \/ ProviderRedirect(t) \/ SendExchange(t))
    => SessionInv'
  \* It is sound.
  <1>StartSound.
    ASSUME StoreInv, UNCHANGED <<row, issued, minted, floor, ended>>, NEW t, NEW w,
           NEW kind, NEW maker, Starts(kind, maker, w)
    PROVE  Sound(kind, maker, t, w)'
    <2>. USE <1>StartSound
    <2>1. w.doc.modified = {} /\ DOMAIN w.doc.values = {} /\ DocFits(w.doc)'
      BY DEF Starts, NoDoc, DocFits, Fits
    <2>2. w.pc \in {"find", "take", "answer", "state"} /\ w.isNew = FALSE /\ w.op # "none"
          /\ w.pair = None
          /\ (w.op = "reset" => w.pc = "take") /\ (w.op = "logout"
             /\ w.pc = "answer" => w.token = None)
          /\ (w.op = "verify" => w.code.kind = "verify-email")
             /\ (w.op = "reset" => w.code.kind = "reset-password")
      BY Zenon DEF Starts, Asks
    <2>3. OnRoute(w.op, w.pc)
      BY Zenon DEF Starts, Asks, OnRoute
    <2>4. Control(w)'
      BY <2>3, Zenon DEF Starts, Asks, Control, PairOK
    <2>5. DocOK(w)'
      BY <2>1, <2>2, Zenon DEF DocOK, Loaded, Resetting
    <2>6. Keeps(kind, maker, t, w)'
      <3>1. Known(kind, maker, w.code)' /\ Known(kind, maker, w.then)' /\ ~ Making(w)'
        BY <2>2, Zenon DEF Starts, Asks, Known, Making
      <3>. QED BY <2>1, <2>2, <3>1 DEF Keeps, Assigns, Resetting
    <2>7. Alone(w)'
      <3>1. None \notin Sessions'
        BY NoneAssumption, RowFacts, SMTT(30) DEF Sessions, StoreInv, ListOf
      <3>. QED BY <2>1, <2>2, <3>1 DEF Alone
    <2>. QED BY <2>4, <2>5, <2>6, <2>7, SMTT(30) DEF Sound
  \* What Begin makes of the fields it is given.
  <1>BeginFields.
    ASSUME NEW t \in Tabs, NEW op, NEW pc, NEW f, DOMAIN f \subseteq {"code", "then", "token"},
           Begin(t, op, pc, f), NEW w, w = req'[t]
    PROVE  Begun(t, op, pc, f, w)
    <2>. USE <1>BeginFields
    <2>. DEFINE solo == \A u \in Tabs \ {t} : req[u].op = "none"
                g == [Idle EXCEPT !.op = op, !.pc = pc, !.solo = solo]
    <2>1. w = Over(f, g) /\ DOMAIN req' = Tabs
          /\ \A u \in Tabs \ {t} : req'[u] = [req[u] EXCEPT !.solo = FALSE]
      BY Zenon DEF Begin
    <2>2. /\ DOMAIN g = Fields /\ g.doc = NoDoc /\ g.isNew = FALSE /\ g.stored = FALSE
             /\ g.pair = None
          /\ g.op = op /\ g.pc = pc /\ g.code = NoCode /\ g.then = NoCode /\ g.token = None
      BY Zenon DEF Idle, Fields
    <2>3. g.solo = solo
      BY Zenon DEF Idle
    <2>. HIDE DEF g
    <2>4. /\ DOMAIN w = Fields \cup DOMAIN f
          /\ \A x \in Fields \cup DOMAIN f : w[x] = IF x \in DOMAIN f THEN f[x] ELSE g[x]
      BY <2>1, <2>2, Zenon DEF Over
    <2>5. w.solo = solo
      BY <2>3, <2>4, Zenon DEF Fields
    <2>. HIDE DEF solo
    <2>6. DOMAIN w = Fields
      BY <2>4, Zenon DEF Fields
    <2>7. /\ w.doc = NoDoc /\ w.isNew = FALSE /\ w.stored = FALSE /\ w.pair = None /\ w.op = op
             /\ w.pc = pc
          /\ w.code = IF "code" \in DOMAIN f THEN f.code ELSE NoCode
          /\ w.then = IF "then" \in DOMAIN f THEN f.then ELSE NoCode
          /\ w.token = IF "token" \in DOMAIN f THEN f.token ELSE None
      BY <2>2, <2>4 DEF Fields
    <2>8. w.solo \in BOOLEAN /\ (w.solo => \A u \in Tabs \ {t} : req[u].op = "none")
      BY <2>5, Zenon DEF solo
    <2>. QED BY <2>1, <2>6, <2>7, <2>8, Zenon DEF Begun
  \* A step in which a request of t begins.
  <1>BeginStep.
    ASSUME SessionInv, NEW kind, NEW maker, Minds(kind, maker), Clients(kind, maker), UNCHANGED ended,
           NEW t \in Tabs, NEW w, w = req'[t], Starts(kind, maker, w),
           w.solo => \A u \in Tabs \ {t} : req[u].op = "none",
           DOMAIN req' = Tabs, \A u \in Tabs \ {t} : req'[u] = [req[u] EXCEPT !.solo = FALSE]
    PROVE  SessionInv'
    <2>. USE <1>BeginStep
    <2>1. StoreInv /\ Flight /\ DOMAIN req = Tabs /\ UNCHANGED <<row, issued, minted, floor, ended>>
      BY Zenon DEF SessionInv, Flight, Clients
    <2>2. ASSUME NEW u \in Tabs \ {t}
          PROVE  \A v \in {req'[u]} : Sound(kind, maker, u, v)'
      BY <2>1, <2>2, SoundStays, Zenon DEF Minds
    <2>3. Sound(kind, maker, t, w)'
      BY <2>1, <1>StartSound, Zenon
    <2>4. ASSUME NEW u \in Tabs \ {t}
          PROVE  ~ req'[u].solo /\ req'[u].op = req[u].op
      <3>1. DOMAIN req[u] = Fields
        BY <2>4, Zenon DEF Minds, Sound, Control
      <3>. QED BY <3>1, Zenon DEF Fields
    <2>5. Flight'
      BY <2>1, <2>4 DEF Flight
    <2>6. ended' = ended \cup {} /\ {} \in SUBSET (1 .. Len(issued)) /\ {} \cap Sessions = {}
      BY <2>1, Zenon
    <2>. QED BY <2>2, <2>3, <2>5, <2>6, ClientStep, Z3T(30)
  \* A request is sent.
  <1>SendStep.
    ASSUME SessionInv, NEW kind, NEW maker, Minds(kind, maker), NEW t \in Tabs, NEW op, NEW pc, NEW f,
           DOMAIN f \subseteq {"code", "then", "token"}, Send(t, op, pc, f),
           Asks(kind, maker, op, pc, IF "code" \in DOMAIN f THEN f.code ELSE NoCode,
                IF "then" \in DOMAIN f THEN f.then ELSE NoCode,
                IF "token" \in DOMAIN f THEN f.token ELSE None),
           DOMAIN tab' = Tabs,
           \A u \in Tabs : \A p \in {tab'[u]} : PageOK(p) /\ Known(kind, maker, p.form)
    PROVE  SessionInv'
    <2>. USE <1>SendStep
    <2>1. Begin(t, op, pc, f) /\ UNCHANGED <<serverVars, jarOf, jar>>
      BY Zenon DEF Send
    <2>2. Clients(kind, maker) /\ UNCHANGED ended
      BY <2>1, Zenon DEF Clients, SessionInv, ClientInv, serverVars
    <2>3. PICK w : w = req'[t]
      BY Zenon
    <2>4. /\ Starts(kind, maker, w) /\ (w.solo => \A u \in Tabs \ {t} : req[u].op = "none")
          /\ DOMAIN req' = Tabs /\ \A u \in Tabs \ {t} : req'[u] = [req[u] EXCEPT !.solo = FALSE]
      <3>1. Begun(t, op, pc, f, w)
        BY <2>1, <2>3, <1>BeginFields
      <3>2. Asks(kind, maker, w.op, w.pc, w.code, w.then, w.token)
        BY <3>1, Zenon DEF Begun
      <3>. QED BY <3>1, <3>2, Zenon DEF Starts, Begun
    <2>. QED BY <2>2, <2>3, <2>4, <1>BeginStep
  \* A code that is none, or a state, says nothing of secrets or pairs.
  <1>PlainCode.
    ASSUME NEW kind, NEW maker, NEW c, c = NoCode \/ c.k = "state"
    PROVE  Known(kind, maker, c) /\ PairOK(c) /\ c.k \in {"none", "state"}
    BY <1>PlainCode DEF NoCode, Known, PairOK
  <1>1.
    ASSUME SessionInv, NEW t \in Tabs,
           \/ SendRegister(t) \/ SendLogin(t) \/ SendResend(t) \/ SendForgot(t)
           \/ OpenLink(t) \/ SubmitVerify(t) \/ SubmitReset(t)
           \/ SendRefresh(t) \/ SendLogout(t)
           \/ StartOAuth(t) \/ ProviderRedirect(t) \/ SendExchange(t)
    PROVE  SessionInv'
    <2>. USE <1>1
    <2>1. PICK kind, maker : Minds(kind, maker)
      BY Zenon DEF SessionInv
    <2>. DEFINE p == tab[t]
                Pages == /\ DOMAIN tab' = Tabs
                         /\ \A u \in Tabs : \A q \in {tab'[u]} : PageOK(q)
                            /\ Known(kind, maker, q.form)
    <2>2. ClientInv /\ StoreInv /\ Fine(kind, maker, p)
      BY <2>1, Zenon DEF SessionInv, ClientInv, Minds, Fine
    <2>3. ASSUME UNCHANGED tab
          PROVE  Pages
      BY <2>1, <2>2, <2>3 DEF ClientInv, Minds
    <2>4. Known(kind, maker, NoCode) /\ PairOK(NoCode)
      BY <1>PlainCode
    <2>5. jar[jarOf[t]] \in {None} \cup 1 .. Len(issued)
      BY <2>2, SMTT(30) DEF ClientInv
    <2>6. CASE SendRegister(t) \/ SendLogin(t) \/ SendResend(t) \/ SendForgot(t) \/ StartOAuth(t)
      <3>1. PICK op, pc : /\ Send(t, op, pc, <<>>) /\ UNCHANGED tab
                          /\ \/ op \in {"register", "login", "resend", "forgot"} /\ pc = "find"
                             \/ op = "prepare" /\ pc = "state"
        BY <2>6, Zenon DEF SendRegister, SendLogin, SendResend, SendForgot, StartOAuth, SendForm
      <3>2. Asks(kind, maker, op, pc, NoCode, NoCode, None)
        BY <2>4, <3>1 DEF Asks
      <3>3. PICK f : f = <<>> /\ DOMAIN f = {}
        BY Z3T(30)
      <3>. HIDE DEF Pages
      <3>. QED BY <2>1, <2>3, <3>1, <3>2, <3>3, <1>SendStep DEF Pages
    <2>7. CASE OpenLink(t)
      <3>1. PICK link \in mailed : Send(t, "redeem", "take", [code |-> link]) /\ UNCHANGED tab
        BY <2>7, Zenon DEF OpenLink
      <3>2. Known(kind, maker, link) /\ link.k = "link"
        BY <2>1, <2>2, <3>1 DEF Minds, Secrets, StoreInv
      <3>3. Asks(kind, maker, "redeem", "take", link, NoCode, None)
        BY <2>4, <3>2 DEF Asks, PairOK
      <3>. DEFINE f == [code |-> link]
      <3>4. DOMAIN f = {"code"} /\ f.code = link /\ Send(t, "redeem", "take", f)
        BY <3>1, Zenon
      <3>. HIDE DEF f
      <3>. QED BY <2>1, <2>3, <3>1, <3>3, <3>4, <1>SendStep, ZenonT(30)
    <2>8. CASE SubmitVerify(t) \/ SubmitReset(t)
      <3>1. PICK op : /\ Send(t, op, "take", [code |-> p.form]) /\ UNCHANGED tab /\ p.form # NoCode
                      /\ \/ op = "verify" /\ p.form.kind = "verify-email"
                         \/ op = "reset" /\ p.form.kind = "reset-password"
        BY <2>8, Zenon DEF SubmitVerify, SubmitReset, SubmitForm
      <3>2. Known(kind, maker, p.form) /\ p.form.k = "form"
        BY <2>2, <3>1, ZenonT(30) DEF Fine, PageOK
      <3>3. Asks(kind, maker, op, "take", p.form, NoCode, None)
        BY <2>4, <3>1, <3>2 DEF Asks, PairOK
      <3>. DEFINE f == [code |-> p.form]
      <3>4. DOMAIN f = {"code"} /\ f.code = p.form /\ Send(t, op, "take", f)
        BY <3>1, ZenonT(30)
      <3>. HIDE DEF f
      <3>. QED BY <2>1, <2>3, <3>1, <3>3, <3>4, <1>SendStep
    <2>9. CASE SendRefresh(t) \/ SendLogout(t)
      <3>1. PICK op, pc : /\ Send(t, op, pc, [token |-> jar[jarOf[t]]]) /\ UNCHANGED tab
                          /\ \/ op \in {"refresh", "logout"} /\ pc = "find" /\ jar[jarOf[t]] # None
                             \/ op = "logout" /\ pc = "answer" /\ jar[jarOf[t]] = None
        BY <2>9, Zenon DEF SendRefresh, SendLogout, SendCookie
      <3>2. Asks(kind, maker, op, pc, NoCode, NoCode, jar[jarOf[t]])
        BY <2>4, <2>5, <3>1 DEF Asks
      <3>. DEFINE f == [token |-> jar[jarOf[t]]]
      <3>3. DOMAIN f = {"token"} /\ f.token = jar[jarOf[t]] /\ Send(t, op, pc, f)
        BY <3>1, Zenon
      <3>. HIDE DEF f
      <3>. QED BY <2>1, <2>3, <3>1, <3>2, <3>3, <1>SendStep
    <2>10. CASE ProviderRedirect(t)
      <3>. DEFINE g == [oauth |-> p.oauth]
      <3>1. Send(t, "callback", "find", [code |-> p.oauth])
            /\ tab' = [tab EXCEPT ![t] = Over(g, FreshPage)]
        BY <2>10, Zenon DEF ProviderRedirect
      <3>2. p.oauth = NoCode \/ p.oauth.k = "state"
        BY <2>2, Zenon DEF Fine, PageOK
      <3>3. Asks(kind, maker, "callback", "find", p.oauth, NoCode, None)
        BY <2>4, <3>2, <1>PlainCode DEF Asks
      <3>4. Given(kind, maker, g)
        BY <3>2, ZenonT(30) DEF Given
      <3>5. Pages
        BY <2>1, <2>2, <3>1, <3>4, FineFresh, FineOver, OnePage, Zenon
      <3>. DEFINE f == [code |-> p.oauth]
      <3>6. DOMAIN f = {"code"} /\ f.code = p.oauth /\ Send(t, "callback", "find", f)
        BY <3>1, ZenonT(30)
      <3>. HIDE DEF f
      <3>. QED BY <2>1, <3>1, <3>3, <3>5, <3>6, <1>SendStep
    <2>11. CASE SendExchange(t)
      <3>. DEFINE g == [oauth |-> NoCode, code |-> NoCode]
      <3>1. /\ Send(t, "exchange", "take", [code |-> p.oauth, then |-> p.code])
            /\ tab' = [tab EXCEPT ![t] = Over(g, @)] /\ p.code # NoCode
        BY <2>11, ZenonT(30) DEF SendExchange, Page
      <3>2. (p.oauth = NoCode \/ p.oauth.k = "state") /\ p.code.k = "exchange" /\ PairOK(p.code)
        BY <2>2, <3>1, ZenonT(30) DEF Fine, PageOK
      <3>3. Asks(kind, maker, "exchange", "take", p.oauth, p.code, None)
        BY <3>2, <1>PlainCode, ZenonT(30) DEF Asks, Known
      <3>4. Fine(kind, maker, Over(g, p)) /\ tab' = [tab EXCEPT ![t] = Over(g, p)]
        BY <2>2, <3>1, GivenFacts, FineOver, ZenonT(30)
      <3>5. Pages
        BY <2>1, <2>2, <3>4, OnePage, Zenon
      <3>. DEFINE f == [code |-> p.oauth, then |-> p.code]
      <3>6. /\ DOMAIN f = {"code", "then"} /\ f.code = p.oauth /\ f.then = p.code
            /\ Send(t, "exchange", "take", f)
        BY <3>1, Zenon
      <3>. HIDE DEF f
      <3>. QED BY <2>1, <3>1, <3>3, <3>5, <3>6, <1>SendStep, Zenon
    <2>. QED BY <2>6, <2>7, <2>8, <2>9, <2>10, <2>11
  <1>. QED BY <1>1, Zenon

\* What a step on pages and answers needs of the client's state.
LEMMA PagesFine ==
  ASSUME SessionInv, NEW kind, NEW maker, Minds(kind, maker), NEW t \in Tabs
  PROVE  /\ ClientInv /\ Fine(kind, maker, tab[t]) /\ Fine(kind, maker, Unanswered(t))
         /\ \A v \in {req[t]} : Sound(kind, maker, t, v)
  <1>1. ClientInv /\ Fine(kind, maker, tab[t]) /\ \A v \in {req[t]} : Sound(kind, maker, t, v)
    BY Zenon DEF SessionInv, ClientInv, Minds, Fine
  <1>2. Fine(kind, maker, Unanswered(t))
    BY <1>1, GivenFacts, FineOver DEF Unanswered
  <1>. QED BY <1>1, <1>2, Zenon

\* A page gets new fields, and no cookie changes.
LEMMA NewPage ==
  ASSUME SessionInv, NEW kind, NEW maker, Minds(kind, maker), NEW t \in Tabs, NEW p, Fine(kind,
         maker, p),
         tab' = [tab EXCEPT ![t] = p], UNCHANGED <<row, issued, minted, mailed, spent, floor, jarOf,
         jar>>
  PROVE  Clients(kind, maker)
  <1>1. ClientInv
    BY Zenon DEF SessionInv
  <1>2. DOMAIN tab' = Tabs /\ \A u \in Tabs : \A q \in {tab'[u]} : PageOK(q)
        /\ Known(kind, maker, q.form)
    BY <1>1, OnePage, Zenon
  <1>. QED BY <1>1, <1>2 DEF Clients, ClientInv

\* EnsureCsrf, a page load, and a sign-out that the server refused.
LEMMA PagesStep ==
  ASSUME SessionInv, NEW t \in Tabs, EnsureCsrf(t) \/ Reload(t) \/ LogoutRefused(t)
  PROVE  SessionInv'
  <1>1. PICK kind, maker : Minds(kind, maker)
    BY Zenon DEF SessionInv
  <1>2. PICK f : Given(kind, maker, f) /\ Page(t, f)
    <2>1. CASE EnsureCsrf(t)
      BY <2>1, GivenFacts DEF EnsureCsrf
    <2>2. CASE Reload(t)
      BY <2>2, GivenFacts, Zenon DEF Reload
    <2>3. CASE LogoutRefused(t)
      BY <2>3, GivenFacts, Zenon DEF LogoutRefused, SignedOut
    <2>. QED BY <2>1, <2>2, <2>3
  <1>3. UNCHANGED <<serverVars, req, jarOf, jar>>
    BY Zenon DEF EnsureCsrf, Reload, LogoutRefused
  <1>4. Fine(kind, maker, Over(f, tab[t])) /\ tab' = [tab EXCEPT ![t] = Over(f, tab[t])]
    BY <1>1, <1>2, PagesFine, FineOver, SMTT(30) DEF Page
  <1>5. Clients(kind, maker)
    BY <1>1, <1>3, <1>4, NewPage, Zenon DEF serverVars
  <1>. QED BY <1>1, <1>3, <1>5, PageStep DEF serverVars

\* An answer that no session ends with.
LEMMA PlainStep ==
  ASSUME SessionInv, NEW kind, NEW maker, Minds(kind, maker), NEW t \in Tabs, End(t),
         Clients(kind, maker), UNCHANGED ended
  PROVE  SessionInv'
  <1>1. ended' = ended \cup {} /\ {} \in SUBSET (1 .. Len(issued)) /\ {} \cap Sessions = {}
    BY Zenon
  <1>. QED BY <1>1, AnswerStep, Zenon

\* The answers that set the session cookies.
LEMMA SignedInStep ==
  ASSUME SessionInv, NEW t \in Tabs, NEW f, \A kind, maker : Given(kind, maker, f), SignedIn(t, f)
  PROVE  SessionInv'
  <1>1. PICK kind, maker : Minds(kind, maker)
    BY Zenon DEF SessionInv
  <1>2. ClientInv /\ Control(req[t])
    BY <1>1, PagesFine DEF Sound
  <1>3. /\ req[t].pair # None /\ jar' = [jar EXCEPT ![jarOf[t]] = req[t].pair] /\ End(t)
        /\ tab' = [OutOfStep(t) EXCEPT ![t] = Over(f, @)] /\ UNCHANGED <<serverVars, jarOf>>
    BY ZenonT(30) DEF SignedIn
  <1>4. jar' \in [Jars -> {None} \cup 1 .. Len(issued)]
    BY <1>2, <1>3, ZenonT(30) DEF ClientInv, Control
  <1>5. DOMAIN tab' = Tabs /\ \A u \in Tabs : \A q \in {tab'[u]} : PageOK(q)
        /\ Known(kind, maker, q.form)
    BY <1>1, <1>2, <1>3, JarPages, ZenonT(30)
  <1>6. Clients(kind, maker) /\ UNCHANGED ended
    BY <1>3, <1>4, <1>5, Zenon DEF Clients, serverVars
  <1>. QED BY <1>1, <1>3, <1>6, PlainStep, Zenon

\* logout's answer.
LEMMA LogoutStep ==
  ASSUME SessionInv, NEW t \in Tabs, LogoutAnswer(t)
  PROVE  SessionInv'
  <1>1. PICK kind, maker : Minds(kind, maker)
    BY Zenon DEF SessionInv
  <1>2. PICK v : v = req[t]
    BY Zenon
  <1>3. ClientInv /\ Control(v) /\ (v.solo => Alone(v))
    BY <1>1, <1>2, PagesFine DEF Sound
  <1>4. /\ v.pc = "answer" /\ v.op = "logout" /\ jar' = [jar EXCEPT ![jarOf[t]] = None] /\ End(t)
        /\ tab' = [OutOfStep(t) EXCEPT ![t] = Over(SignedOut, @)]
        /\ UNCHANGED <<row, floor, issued, minted, mailed, spent, jarOf>>
        /\ ended' = IF v.solo THEN ended \cup ({v.token} \ {None}) ELSE ended
    BY <1>2, Zenon DEF LogoutAnswer, At
  <1>5. jar' \in [Jars -> {None} \cup 1 .. Len(issued)]
    BY <1>3, <1>4, SMTT(30) DEF ClientInv
  <1>6. DOMAIN tab' = Tabs /\ \A u \in Tabs : \A q \in {tab'[u]} : PageOK(q)
        /\ Known(kind, maker, q.form)
    BY <1>1, <1>3, <1>4, GivenFacts, JarPages, Zenon
  <1>7. Clients(kind, maker)
    BY <1>4, <1>5, <1>6 DEF Clients
  <1>8. PICK S : S = IF v.solo THEN {v.token} \ {None} ELSE {}
    BY Zenon
  <1>9. S \in SUBSET (1 .. Len(issued)) /\ ended' = ended \cup S /\ S \cap Sessions = {}
        /\ (v.solo \/ S = {})
    BY <1>3, <1>4, <1>8 DEF Control, Alone
  <1>. QED BY <1>1, <1>2, <1>4, <1>7, <1>9, AnswerStep, Zenon

\* The other answers, and the answers that get lost.
LEMMA AnswersStep ==
  ASSUME SessionInv, NEW t \in Tabs,
         \/ RegisterAnswer(t) \/ RedeemAnswer(t) \/ PrepareAnswer(t) \/ CallbackAnswer(t)
         \/ ResetAnswer(t) \/ KilledAnswer(t) \/ LostAnswer(t)
  PROVE  SessionInv'
  <1>1. PICK kind, maker : Minds(kind, maker)
    BY Zenon DEF SessionInv
  <1>2. PICK v : v = req[t]
    BY ZenonT(30)
  <1>3. /\ ClientInv /\ Fine(kind, maker, tab[t]) /\ Fine(kind, maker, Unanswered(t))
        /\ Control(v) /\ Keeps(kind, maker, t, v)
    BY <1>1, <1>2, PagesFine DEF Sound
  <1>4. v.pc = "answer" /\ End(t) /\ UNCHANGED <<serverVars, jarOf, jar>>
    BY <1>2, Zenon DEF RegisterAnswer, RedeemAnswer, PrepareAnswer, CallbackAnswer, ResetAnswer,
         KilledAnswer,
                LostAnswer, PlainAnswer, At
  <1>5. Known(kind, maker, v.then)
    BY <1>3, Zenon DEF Keeps
  <1>6. ASSUME NEW f, Given(kind, maker, f), Page(t, f)
        PROVE  Clients(kind, maker)
    <2>1. Fine(kind, maker, Over(f, tab[t])) /\ tab' = [tab EXCEPT ![t] = Over(f, tab[t])]
      BY <1>3, <1>6, FineOver DEF Page
    <2>. QED BY <1>1, <1>4, <2>1, NewPage, Zenon DEF serverVars
  <1>7. Clients(kind, maker)
    <2>1. CASE RegisterAnswer(t)
      BY <1>6, <2>1, GivenFacts, Zenon DEF RegisterAnswer
    <2>2. CASE RedeemAnswer(t)
      <3>1. Page(t, [form |-> v.then]) /\ v.op = "redeem"
        BY <1>2, <2>2, ZenonT(30) DEF RedeemAnswer, PlainAnswer
      <3>2. Given(kind, maker, [form |-> v.then])
        BY <1>3, <1>4, <1>5, <3>1, Zenon DEF Given, Control
      <3>. QED BY <1>6, <3>1, <3>2
    <2>3. CASE PrepareAnswer(t)
      <3>1. Page(t, [oauth |-> v.code]) /\ v.op = "prepare"
        BY <1>2, <2>3, ZenonT(30) DEF PrepareAnswer, PlainAnswer
      <3>2. Given(kind, maker, [oauth |-> v.code])
        BY <1>3, <1>4, <3>1, Zenon DEF Given, Control
      <3>. QED BY <1>6, <3>1, <3>2
    <2>4. CASE CallbackAnswer(t)
      <3>1. Page(t, [code |-> v.then]) /\ v.op = "callback"
        BY <1>2, <2>4, ZenonT(30) DEF CallbackAnswer, PlainAnswer
      <3>2. Given(kind, maker, [code |-> v.then])
        BY <1>3, <1>4, <3>1, ZenonT(30) DEF Given, Control
      <3>. QED BY <1>6, <3>1, <3>2
    <2>5. CASE ResetAnswer(t) \/ KilledAnswer(t)
      <3>1. tab' = tab
        BY <2>5, Zenon DEF ResetAnswer, KilledAnswer
      <3>. QED BY <1>1, <1>3, <1>4, <3>1, Zenon DEF Clients, ClientInv, Minds, serverVars
    <2>6. CASE LostAnswer(t)
      <3>1. tab' = [tab EXCEPT ![t] = Unanswered(t)]
        BY <2>6, Zenon DEF LostAnswer
      <3>. QED BY <1>1, <1>3, <1>4, <3>1, NewPage, Zenon DEF serverVars
    <2>. QED BY <2>1, <2>2, <2>3, <2>4, <2>5, <2>6, SMTT(30)
  <1>. QED BY <1>1, <1>4, <1>7, PlainStep DEF serverVars

\* The process restarts: every request is gone.
LEMMA CrashStep ==
  ASSUME SessionInv, Crash
  PROVE  SessionInv'
  <1>1. PICK kind, maker : Minds(kind, maker)
    BY Zenon DEF SessionInv
  <1>2. /\ req' = [t \in Tabs |-> Idle] /\ tab' = [t \in Tabs |-> Unanswered(t)]
        /\ UNCHANGED <<row, floor, issued, minted, mailed, spent, ended, jarOf, jar>>
    BY Zenon DEF Crash
  <1>3. \A t \in Tabs : \A p \in {tab'[t]} : PageOK(p) /\ Known(kind, maker, p.form)
    BY <1>1, <1>2, PagesFine, SMTT(30) DEF Fine
  <1>4. Clients(kind, maker)
    BY <1>2, <1>3 DEF Clients, SessionInv, ClientInv
  <1>5. \A t \in Tabs : \A v \in {req'[t]} : Sound(kind, maker, t, v)'
    BY <1>2, IdleStays, Zenon
  <1>6. Flight'
    BY <1>2, Zenon DEF Flight, Idle
  <1>7. ended' = ended \cup {} /\ {} \in SUBSET (1 .. Len(issued)) /\ {} \cap Sessions = {}
    BY <1>2
  <1>. QED BY <1>1, <1>4, <1>5, <1>6, <1>7, ClientStep

-----------------------------------------------------------------------------
(* The initial states *)

\* The account it may have: none, a new one with a link in the inbox, an old
\* one with two sessions.
FirstStore ==
  \/ row = None /\ issued = <<>> /\ minted = 0 /\ mailed = {}
  \/ /\ RowFits(row) /\ issued = <<>> /\ minted = 1 /\ mailed = {Link("verify-email", 1)}
     /\ row.emailVerificationToken = 1 /\ row.passwordResetToken = 0
  \/ /\ RowFits(row) /\ issued = <<0, 0>> /\ minted = 1 /\ mailed = {}
     /\ row.emailVerificationToken = 0 /\ row.passwordResetToken = 1

\* No secret is being made, and nothing is in flight.
LEMMA SessionInit ==
  Init
  => SessionInv
  \* The initial rows fit.
  <1>InitStore.
    ASSUME Init
    PROVE  FirstStore
    <2>. USE <1>InitStore
    <2>. DEFINE New(h) == Over([password |-> h, emailVerificationToken |-> 1], Defaults)
                Old == Over([passwordResetToken |-> 1], Account)
    <2>1. /\ ended = {}
          /\ \/ row = None /\ issued = <<>> /\ minted = 0 /\ mailed = {}
             \/ /\ minted = 1 /\ issued = <<>> /\ mailed = {Link("verify-email", 1)}
                /\ \E h \in {"peppered", "legacy"} : row = New(h)
             \/ minted = 1 /\ issued = <<0, 0>> /\ row = Old /\ mailed = {}
      BY Zenon DEF Init
    <2>2. ASSUME NEW h \in {"peppered", "legacy"}
          PROVE  /\ DOMAIN New(h) = RowFields /\ New(h).provider = "local" /\ New(h).password = h
                 /\ New(h).isEmailVerified = FALSE /\ New(h).emailVerificationToken = 1
                 /\ New(h).passwordResetToken = 0 /\ New(h).tokenVersion = 0
                 /\ New(h).refreshTokens = <<>> /\ New(h).activeAccessJtis = <<>>
      BY Zenon DEF Over, Defaults, RowFields
    <2>3. /\ DOMAIN Old = RowFields /\ Old.provider = "local" /\ Old.password = "legacy"
          /\ Old.isEmailVerified = TRUE /\ Old.emailVerificationToken = 0
          /\ Old.passwordResetToken = 1 /\ Old.tokenVersion = 0
          /\ Old.refreshTokens = <<1, 2>> /\ Old.activeAccessJtis = <<1, 2>>
      BY Zenon DEF Over, Account, Defaults, RowFields
    <2>4. ASSUME NEW h \in {"peppered", "legacy"}
          PROVE  New(h) = [x \in RowFields |-> New(h)[x]]
      BY <2>2, <2>4 DEF Over
    <2>5. Old = [x \in RowFields |-> Old[x]]
      BY <2>3, Zenon DEF Over
    <2>. HIDE DEF New, Old
    <2>6. <<0, 0>> \in Seq(Nat) /\ <<>> \in Seq(Nat) /\ Len(<<0, 0>>) = 2
      OBVIOUS
    <2>7. CASE row = Old /\ minted = 1 /\ issued = <<0, 0>> /\ mailed = {}
      <3>1. /\ Old.provider \in FieldSets.provider /\ Old.password \in FieldSets.password
            /\ Old.emailVerificationToken \in FieldSets.emailVerificationToken
            /\ Old.passwordResetToken \in FieldSets.passwordResetToken
            /\ Old.tokenVersion \in FieldSets.tokenVersion
        BY <2>3, <2>7, Columns
      <3>2. <<1, 2>> \in Seq(1 .. 2) /\ <<1, 2>> \in Seq(Nat) /\ Len(<<1, 2>>) = 2
        OBVIOUS
      <3>3. Old.refreshTokens \in FieldSets.refreshTokens
            /\ Old.activeAccessJtis \in FieldSets.activeAccessJtis
        BY <2>1, <2>3, <2>6, <2>7, <3>2, Columns, CapAssumption, Zenon
      <3>4. Old.isEmailVerified \in FieldSets.isEmailVerified
        BY <2>3, Columns, Zenon
      <3>5. Fits(Old)
        BY <2>3, <3>1, <3>3, <3>4, SMTT(30) DEF Fits, RowFields
      <3>. QED BY <2>3, <2>5, <2>6, <2>7, <3>5, FitsRow, SMTT(30) DEF FirstStore
    <2>8. ASSUME NEW h \in {"peppered", "legacy"}, row = New(h), minted = 1, issued = <<>>
          PROVE  /\ RowFits(row) /\ row.emailVerificationToken = 1 /\ row.passwordResetToken = 0
      <3>. DEFINE r == New(h)
      <3>0. /\ DOMAIN r = RowFields /\ r.provider = "local" /\ r.password = h
            /\ r.isEmailVerified = FALSE /\ r.emailVerificationToken = 1
            /\ r.passwordResetToken = 0 /\ r.tokenVersion = 0 /\ r.refreshTokens = <<>>
               /\ r.activeAccessJtis = <<>>
        BY <2>2, <2>8, Zenon
      <3>. HIDE DEF r
      <3>1. /\ r.provider \in FieldSets.provider /\ r.password \in FieldSets.password
            /\ r.emailVerificationToken \in FieldSets.emailVerificationToken
            /\ r.passwordResetToken \in FieldSets.passwordResetToken
            /\ r.tokenVersion \in FieldSets.tokenVersion
        BY <2>8, <3>0, Columns, SMTT(30)
      <3>2. r.refreshTokens \in FieldSets.refreshTokens
            /\ r.activeAccessJtis \in FieldSets.activeAccessJtis
        BY <2>1, <2>6, <3>0, Columns, CapAssumption
      <3>3. r.isEmailVerified \in FieldSets.isEmailVerified
        BY <3>0, Columns, Zenon
      <3>4. Fits(r)
        BY <3>0, <3>1, <3>2, <3>3 DEF Fits, RowFields
      <3>5. row = r /\ r = [x \in RowFields |-> r[x]]
        BY <2>4, <2>8 DEF r
      <3>. QED BY <2>6, <2>8, <3>0, <3>4, <3>5, FitsRow
    <2>. QED BY <2>1, <2>7, <2>8 DEF FirstStore
  <1>1.
    ASSUME Init
    PROVE  SessionInv
    <2>. USE <1>1
    <2>1. /\ spent = {} /\ ended = {} /\ DOMAIN req = Tabs /\ (\A t \in Tabs : req[t] = Idle)
          /\ jarOf \in [Tabs -> Jars] /\ FirstStore
      BY <1>InitStore, Zenon DEF Init
    <2>2. <<0, 0>> \in Seq(Nat) /\ <<>> \in Seq(Nat) /\ Len(<<0, 0>>) = 2 /\ Len(<<>>) = 0
          /\ <<0, 0>> # <<>>
      OBVIOUS
    <2>3. RowFits(row) => row # None
      BY NoneAssumption, Zenon DEF RowFits
    <2>4. StoreInv
      <3>1. issued \in Seq(Nat) /\ minted \in Nat /\ (Len(issued) > 0 => row # None)
            /\ (row # None => RowFits(row))
        <4>1. (issued = <<>> \/ (issued = <<0, 0>> /\ row # None)) /\ minted \in {0, 1}
              /\ (row = None \/ RowFits(row))
          BY <2>1, <2>3, Zenon DEF FirstStore
        <4>2. issued \in Seq(Nat)
          BY <2>2, <4>1, Zenon
        <4>3. Len(issued) = 0 \/ row # None
          BY <2>2, <4>1, Zenon
        <4>. QED BY <4>1, <4>2, <4>3
      <3>2. \A c \in mailed : c.k = "link"
        BY <2>1, SMTT(30) DEF FirstStore, Link
      <3>. QED BY <2>1, <3>1, <3>2 DEF StoreInv
    <2>5. Flight
      BY <2>1 DEF Flight, Idle
    <2>6. PICK purpose : purpose = IF mailed = {} THEN "reset-password" ELSE "verify-email"
      BY Zenon
    <2>7. PICK kind, maker : kind = [n \in Nat |-> purpose] /\ maker = [n \in Nat |-> {}]
      BY Zenon
    <2>8. Secrets(kind, maker)
      <3>1. \A n \in Nat : kind[n] = purpose /\ maker[n] = {}
        BY <2>7, Zenon
      <3>2. \A c \in mailed : Known(kind, maker, c)
        BY <2>1, <2>6, <3>1, SMTT(30) DEF FirstStore, Known, Link
      <3>3. row # None => /\ Holds(kind, maker, row.emailVerificationToken, "verify-email")
                          /\ Holds(kind, maker, row.passwordResetToken, "reset-password")
        BY <2>1, <2>6, <3>1 DEF FirstStore, Holds
      <3>. QED BY <2>1, <3>2, <3>3, Zenon DEF Secrets
    <2>9. \A t \in Tabs : \A v \in {req[t]} : Sound(kind, maker, t, v)
      BY <2>1, IdleSound
    <2>10. DOMAIN tab = Tabs /\ \A t \in Tabs : Fine(kind, maker, tab[t])
      <3>1. Fine(kind, maker, Over(Synced, FreshPage))
        BY FineFresh, GivenFacts, FineOver
      <3>2. ASSUME NEW t, minted = 1, mailed = {}
            PROVE  Fine(kind, maker, Over(Synced, [FreshPage EXCEPT !.form = Form("reset-password", 1,
                   t)]))
        <4>1. Fine(kind, maker, [FreshPage EXCEPT !.form = Form("reset-password", 1, t)])
          BY <2>1, <2>6, <2>7, <3>2 DEF Fine, FreshPage, PageOK, PairOK, Known, NoCode, Form,
               FirstStore
        <4>. QED BY <4>1, GivenFacts, FineOver
      <3>3. [FreshPage EXCEPT !.form = FreshPage.form] = FreshPage
        BY Zenon DEF FreshPage
      <3>4. CASE tab = [t \in Tabs |-> Over(Synced, FreshPage)]
        BY <3>1, <3>4, Zenon
      <3>5. ASSUME NEW t \in Tabs, minted = 1, mailed = {},
                   tab = [u \in Tabs |-> Over(Synced,
                            [FreshPage EXCEPT !.form = IF u = t THEN Form("reset-password", 1,
                            t) ELSE @])]
            PROVE  DOMAIN tab = Tabs /\ \A u \in Tabs : Fine(kind, maker, tab[u])
        BY <3>1, <3>2, <3>3, <3>5, Zenon
      <3>. QED BY <3>4, <3>5, Zenon DEF Init
    <2>11. jar \in [Jars -> {None} \cup 1 .. Len(issued)]
      <3>1. CASE jar = [j \in Jars |-> None]
        BY <3>1, Zenon
      <3>2. ASSUME NEW i, issued = <<0, 0>>, jar = [j \in Jars |-> IF j = i THEN 2 ELSE 1]
            PROVE  jar \in [Jars -> {None} \cup 1 .. Len(issued)]
        <4>1. Len(issued) = 2
          BY <2>2, <3>2, Zenon
        <4>. QED BY <3>2, <4>1
      <3>. QED BY <3>1, <3>2, ZenonT(30) DEF Init
    <2>12. ClientInv
      BY <2>1, <2>10, <2>11 DEF ClientInv, Fine
    <2>13. Minds(kind, maker)
      <3>1. DOMAIN kind = Nat /\ DOMAIN maker = Nat
        BY <2>7, Zenon
      <3>. QED BY <2>8, <2>9, <2>10, <3>1 DEF Minds, Fine
    <2>. QED BY <2>4, <2>5, <2>12, <2>13 DEF SessionInv
  <1>. QED BY <1>1, Zenon

-----------------------------------------------------------------------------
(* What the invariant gives *)

\* The invariant and the counters give the type invariant.
LEMMA InvTyped ==
  ASSUME SessionInv, Counters
  PROVE  TypeOK
  <1>1. StoreInv /\ ClientInv /\ \E kind, maker : Minds(kind, maker)
    BY Zenon DEF SessionInv
  <1>2. ASSUME row # None
        PROVE  /\ Len(row.refreshTokens) <= MAX_REFRESH /\ Len(row.activeAccessJtis) <= MAX_JTIS
               /\ Sessions \subseteq 1 .. Len(issued) /\ row \in Rows
    <2>1. RowFits(row)
      BY <1>1, <1>2, Zenon DEF StoreInv
    <2>2. row.refreshTokens \in Seq(1 .. Len(issued))
      BY <2>1, RowFacts, Zenon
    <2>3. Sessions \subseteq 1 .. Len(issued)
      BY <1>2, <2>2 DEF Sessions, ListOf
    <2>. QED BY <2>1, <2>3, RowFacts, Zenon DEF RowFits
  <1>3. ASSUME NEW t \in Tabs
        PROVE  DOMAIN req[t] = DOMAIN Idle
    <2>1. Control(req[t])
      BY <1>1, <1>3, Zenon DEF Minds, Sound
    <2>. QED BY <2>1, Zenon DEF Control, Fields, Idle
  <1>4. /\ jar \in [Jars -> {None} \cup 1 .. Len(issued)]
        /\ \A t \in Tabs : /\ tab[t].csrf \in {"none", "match", "stale"}
                           /\ tab[t].init \in {"unset", "done", "failed"}
    BY <1>1, Zenon DEF ClientInv, PageOK
  <1>. QED BY <1>2, <1>3, <1>4, Zenon DEF TypeOK, Counters

\* ... and what a lone request and the row can rely on.
LEMMA InvSafe ==
  ASSUME SessionInv
  PROVE  SpentStaysSpent /\ EndedStaysEnded /\ IssuedIsAdmitted /\ KillIsPublished
  <1>1. StoreInv /\ \E kind, maker : Minds(kind, maker)
    BY Zenon DEF SessionInv
  <1>2. PICK kind, maker : Minds(kind, maker)
    BY <1>1, Zenon
  <1>3. SpentStaysSpent
    <2>1. 0 \notin spent
      BY <1>1, <1>2 DEF Minds, Secrets, StoreInv
    <2>. QED BY <1>2, <2>1, SMTT(30) DEF SpentStaysSpent, Minds, Secrets, Holds
  <1>4. EndedStaysEnded
    BY <1>1, RowFacts, Zenon DEF EndedStaysEnded, Sessions, StoreInv
  <1>5. \A t \in Tabs : Control(req[t]) /\ (req[t].solo => Alone(req[t]))
    BY <1>2, Zenon DEF Minds, Sound
  <1>6. IssuedIsAdmitted
    <2>. SUFFICES ASSUME NEW t \in Tabs, NEW n, n = req[t].pair,
                         req[t].pc \in {"answer", "exchange"},
                         req[t].op \in {"login", "verify", "refresh", "callback"},
                         n # None, req[t].solo, req[t].stored
                  PROVE  floor = issued[n] /\ Authenticates(n) /\ n \in Sessions
      BY Zenon DEF IssuedIsAdmitted
    <2>1. issued[n] = row.tokenVersion /\ n \in Sessions /\ floor = issued[n]
      BY <1>5, Zenon DEF Alone
    <2>2. row # None
      BY <2>1, SMTT(30) DEF Sessions
    <2>. QED BY <2>1, <2>2, Zenon DEF Authenticates, TokenVersionStale
  <1>7. KillIsPublished
    BY <1>5 DEF KillIsPublished, Alone, At
  <1>. QED BY <1>3, <1>4, <1>6, <1>7
=============================================================================
