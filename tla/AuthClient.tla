----------------------------- MODULE AuthClient -----------------------------
(***************************************************************************)
(* The account's browsers (uam-frontend api/client.ts, AuthContext.tsx and *)
(* the pages that sign in, verify and reset) in front of Sessions.  Tabs   *)
(* of one browser share a cookie jar; each tab has its own in-memory CSRF  *)
(* token.  The access token a tab holds changes nothing in these handlers  *)
(* but the best-effort revocation.  An answer may be lost after the server *)
(* acted, and the server may crash between two steps of a request.         *)
(***************************************************************************)
EXTENDS Sessions

CONSTANTS
  Jars,      \* cookie jars
  MaxOps     \* bound: requests sent

ASSUME BoundAssumption == MaxOps \in Nat /\ MaxFaults \in Nat

VARIABLES
  jarOf,   \* jarOf[t]: the jar of tab t
  jar,     \* jar[j]: the pair in the uam_refresh cookie, or None
  tab,     \* tab[t]: [csrf, init, form, oauth, code]
  ops      \* how many requests were sent

clientVars == <<jarOf, jar, tab, ops>>
vars == <<serverVars, codeVars, req, clientVars>>

\* csrf compares the tab's CSRF token with the jar's uam_csrf cookie: none
\* held, the same, or another.  init is csrfInit: a promise not yet made,
\* or one that is settled for good.
FreshPage == [csrf |-> "none", init |-> "unset", form |-> NoCode,
              oauth |-> NoCode, code |-> NoCode]

Synced == [csrf |-> "match", init |-> "done"]
Account == Over([password |-> "legacy", isEmailVerified |-> TRUE, refreshTokens |-> <<1, 2>>,
                 activeAccessJtis |-> <<1, 2>>], Defaults)

\* An empty database; an account whose verification link is in the inbox; an
\* account with a legacy hash and two sessions, the later one in the browser of
\* a tab that has redeemed a reset link.
Init ==
  /\ ready = TRUE /\ memory = {} /\ faults = 0 /\ spent = {} /\ ended = {}
  /\ req = [t \in Tabs |-> Idle] /\ ops = 0
  /\ jarOf \in [Tabs -> Jars]
  /\ \/ /\ row = None /\ index = {} /\ floor = None /\ issued = <<>>
        /\ minted = 0 /\ mailed = {} /\ cache = {}
        /\ jar = [j \in Jars |-> None]
        /\ tab = [t \in Tabs |-> Over(Synced, FreshPage)]
     \/ /\ \E hash \in {"peppered", "legacy"} :
             row = Over([password |-> hash, emailVerificationToken |-> 1], Defaults)
        /\ index = {"email"} /\ floor = None /\ issued = <<>>
        /\ minted = 1 /\ mailed = {Link("verify-email", 1)} /\ cache = mailed
        /\ jar = [j \in Jars |-> None]
        /\ tab = [t \in Tabs |-> Over(Synced, FreshPage)]
     \/ \E t \in Tabs :
        /\ row = Over([passwordResetToken |-> 1], Account)
        /\ index = {"email"} /\ floor = 0 /\ issued = <<0, 0>>
        /\ minted = 1 /\ mailed = {} /\ cache = {Form("reset-password", 1, t)}
        /\ jar = [j \in Jars |-> IF j = jarOf[t] THEN 2 ELSE 1]
        /\ tab = [u \in Tabs |-> Over(Synced,
                    [FreshPage EXCEPT !.form = IF u = t THEN Form("reset-password", 1, t) ELSE @])]

-----------------------------------------------------------------------------
(* Sending *)

Page(t, fields) == tab' = [tab EXCEPT ![t] = Over(fields, @)]

\* ensureCsrf: fetch the token once.  A rejected promise stays in csrfInit.
EnsureCsrf(t) ==
  /\ req[t].op = "none" /\ tab[t].csrf = "none" /\ tab[t].init = "unset"
  /\ \E ok \in BOOLEAN : Outcome(ok) /\ Page(t, IF ok THEN Synced ELSE [init |-> "failed"])
  /\ UNCHANGED <<serverVars, ready, cache, memory, req, jarOf, jar, ops>>

\* A page load makes a new ApiClient; sessionStorage survives.  A tab that is
\* in step has nothing to gain from it.
Reload(t) ==
  /\ req[t].op = "none" /\ tab[t].csrf # "match"
  /\ Page(t, [csrf |-> "none", init |-> "unset", form |-> NoCode])
  /\ tab' # tab
  /\ UNCHANGED <<serverVars, codeVars, req, jarOf, jar, ops>>

Send(t, op, pc, fields) ==
  /\ ops < MaxOps /\ ops' = ops + 1
  /\ Begin(t, op, pc, fields)
  /\ UNCHANGED <<serverVars, codeVars, jarOf, jar>>

\* requireCsrf lets through what a tab in step with its cookie sends.
InStep(t) == tab[t].csrf = "match"

SendForm(t, op) == InStep(t) /\ Send(t, op, "find", <<>>) /\ UNCHANGED tab

\* RegisterPage, through AuthContext's register.
SendRegister(t) == SendForm(t, "register")

\* LoginPage, through AuthContext's login.
SendLogin(t) == SendForm(t, "login")

\* VerifyEmailPage's resend button.
SendResend(t) == SendForm(t, "resend")

\* ForgotPasswordPage.
SendForgot(t) == SendForm(t, "forgot")

\* The page of an e-mailed link redeems its code as it opens.
OpenLink(t) ==
  /\ tab[t].csrf # "none"
  /\ \E link \in mailed : Send(t, "redeem", "take", [code |-> link])
  /\ UNCHANGED tab

\* VerifyEmailPage and ResetPasswordPage send their form with its token.
SubmitForm(t, kind, op) ==
  /\ InStep(t) /\ tab[t].form # NoCode /\ tab[t].form.kind = kind
  /\ Send(t, op, "take", [code |-> tab[t].form])
  /\ UNCHANGED tab

SubmitVerify(t) == SubmitForm(t, "verify-email", "verify")
SubmitReset(t) == SubmitForm(t, "reset-password", "reset")

\* refreshToken and logout carry the jar's cookie.
SendCookie(t, op, pc) ==
  InStep(t) /\ Send(t, op, pc, [token |-> jar[jarOf[t]]]) /\ UNCHANGED tab

\* AuthContext's refreshUser; without a cookie the answer is a 401.
SendRefresh(t) == jar[jarOf[t]] # None /\ SendCookie(t, "refresh", "find")

\* AuthContext's logout; another tab may have removed the cookie.
SendLogout(t) == SendCookie(t, "logout", IF jar[jarOf[t]] = None THEN "answer" ELSE "find")

\* startOAuth asks for a state ...
StartOAuth(t) ==
  /\ tab[t].csrf # "none" /\ tab[t].code = NoCode
  /\ Send(t, "prepare", "state", <<>>)
  /\ UNCHANGED tab

\* ... and leaves the page for the provider, which redirects to the callback.
ProviderRedirect(t) ==
  /\ tab[t].oauth # NoCode /\ tab[t].code = NoCode
  /\ Send(t, "callback", "find", [code |-> tab[t].oauth])
  /\ tab' = [tab EXCEPT ![t] = Over([oauth |-> tab[t].oauth], FreshPage)]

\* OAuthCallbackPage clears what startOAuth stored, then exchanges the code.
SendExchange(t) ==
  /\ InStep(t) /\ tab[t].code # NoCode
  /\ Send(t, "exchange", "take", [code |-> tab[t].oauth, then |-> tab[t].code])
  /\ Page(t, [oauth |-> NoCode, code |-> NoCode])

\* logout in a tab whose CSRF token is out of step: the server answers 403,
\* the client forgets its tokens all the same.
LogoutRefused(t) ==
  /\ req[t].op = "none" /\ tab[t].csrf = "stale"
  /\ Page(t, [csrf |-> "none", init |-> "unset"])
  /\ UNCHANGED <<serverVars, codeVars, req, jarOf, jar, ops>>

-----------------------------------------------------------------------------
(* Receiving *)

Neighbours(t) == {u \in Tabs : jarOf[u] = jarOf[t]}
SignedOut == [csrf |-> "none", init |-> "unset"]

\* A new uam_csrf cookie, or none, in t's jar: no tab of it is in step.
OutOfStep(t) ==
  [u \in Tabs |-> IF u \in Neighbours(t) /\ tab[u].csrf = "match"
                    THEN [tab[u] EXCEPT !.csrf = "stale"] ELSE tab[u]]

\* setAuthCookies: the new pair in the jar; csrf is what the client makes of
\* its own CSRF token.
SignedIn(t, csrf) ==
  /\ At(t, "answer") /\ req[t].pair # None
  /\ jar' = [jar EXCEPT ![jarOf[t]] = req[t].pair]
  /\ tab' = [OutOfStep(t) EXCEPT ![t] = Over(csrf, @)]
  /\ End(t)
  /\ UNCHANGED <<serverVars, ready, cache, memory, jarOf, ops>>

\* syncCsrf, which fails when its fetch does.
SyncCsrf(ok) == IF ok THEN Synced ELSE [csrf |-> "none", init |-> "failed"]

\* login, refreshToken and exchangeOAuthCode go on to syncCsrf.
SignedInSynced(t) == \E ok \in BOOLEAN : Outcome(ok) /\ SignedIn(t, SyncCsrf(ok))

LoginAnswer(t) == req[t].op = "login" /\ SignedInSynced(t)
RefreshAnswer(t) == req[t].op = "refresh" /\ SignedInSynced(t)
ExchangeAnswer(t) == req[t].op = "exchange" /\ SignedInSynced(t)

\* verifyEmail does not re-sync.
VerifyAnswer(t) ==
  req[t].op = "verify" /\ SignedIn(t, [csrf |-> "stale"]) /\ UNCHANGED faults

\* clearAuthCookies and the client's half of logout.
LogoutAnswer(t) ==
  /\ At(t, "answer") /\ req[t].op = "logout"
  /\ jar' = [jar EXCEPT ![jarOf[t]] = None]
  /\ tab' = [OutOfStep(t) EXCEPT ![t] = Over(SignedOut, @)]
  /\ ended' = IF req[t].solo THEN ended \cup ({req[t].token} \ {None}) ELSE ended
  /\ End(t)
  /\ UNCHANGED <<row, index, floor, issued, minted, mailed, spent, codeVars, jarOf, ops>>

\* register sets no cookie but goes on to syncCsrf.
RegisterAnswer(t) ==
  /\ At(t, "answer") /\ req[t].op = "register"
  /\ \E ok \in BOOLEAN : Outcome(ok) /\ Page(t, SyncCsrf(ok))
  /\ End(t)
  /\ UNCHANGED <<serverVars, ready, cache, memory, jarOf, jar, ops>>

\* The answers that change no cookie and no CSRF token: a form token, an OAuth
\* state, the callback's code, a password that was reset, a refresh that ended
\* every session.
PlainAnswer(t, op) ==
  /\ At(t, "answer") /\ req[t].op = op
  /\ End(t)
  /\ UNCHANGED <<serverVars, codeVars, jarOf, jar, ops>>

RedeemAnswer(t) == PlainAnswer(t, "redeem") /\ Page(t, [form |-> req[t].then])
PrepareAnswer(t) == PlainAnswer(t, "prepare") /\ Page(t, [oauth |-> req[t].code])
CallbackAnswer(t) == PlainAnswer(t, "callback") /\ Page(t, [code |-> req[t].then])
ResetAnswer(t) == PlainAnswer(t, "reset") /\ UNCHANGED tab
KilledAnswer(t) == PlainAnswer(t, "refresh") /\ req[t].pair = None /\ UNCHANGED tab

\* The client's view when no answer arrives.
Unanswered(t) == IF req[t].op = "logout" THEN Over(SignedOut, tab[t]) ELSE tab[t]

LostAnswer(t) ==
  /\ At(t, "answer")
  /\ Outcome(FALSE)
  /\ tab' = [tab EXCEPT ![t] = Unanswered(t)]
  /\ End(t)
  /\ UNCHANGED <<serverVars, ready, cache, memory, jarOf, jar, ops>>

\* The process dies and starts again: connectDatabase backfills the index.
Crash ==
  /\ \E t \in Tabs : req[t].op # "none"
  /\ Outcome(FALSE)
  /\ req' = [t \in Tabs |-> Idle]
  /\ tab' = [t \in Tabs |-> Unanswered(t)]
  /\ memory' = {} /\ ready' = TRUE
  /\ index' = IF row = None THEN {} ELSE Keys(row)
  /\ UNCHANGED <<row, floor, issued, minted, mailed, spent, ended, cache, jarOf, jar, ops>>

-----------------------------------------------------------------------------

Serve(t) ==
  \/ RegisterFind(t) \/ ResendFind(t) \/ ForgotFind(t) \/ LoginFind(t) \/ Rehash(t) \/ VerifyFind(t)
  \/ FindUserForOAuth(t) \/ CreateForOAuth(t)
  \/ Insert(t) \/ Save(t) \/ Sync(t)
  \/ SendVerificationEmail(t) \/ SendPasswordResetEmail(t) \/ MakePoll(t)
  \/ RedeemLink(t) \/ ConsumeFormToken(t) \/ ConsumeOAuthState(t)
  \/ ConsumeOAuthExchangeCode(t) \/ MakeForm(t) \/ Prepare(t) \/ MakeExchange(t)
  \/ Persist(t) \/ Publish(t) \/ RefreshFind(t) \/ Recheck(t) \/ Rotate(t)
  \/ Kill(t) \/ KillSave(t) \/ ResetFind(t) \/ ReadBack(t) \/ ResetSave(t)
  \/ LogoutFind(t) \/ LogoutSave(t)

Next ==
  \/ \E t \in Tabs :
       \/ ops < MaxOps /\ (EnsureCsrf(t) \/ Reload(t) \/ LogoutRefused(t))
       \/ SendRegister(t) \/ SendLogin(t) \/ SendResend(t) \/ SendForgot(t)
       \/ OpenLink(t) \/ SubmitVerify(t) \/ SubmitReset(t)
       \/ SendRefresh(t) \/ SendLogout(t)
       \/ StartOAuth(t) \/ ProviderRedirect(t) \/ SendExchange(t)
       \/ RegisterAnswer(t) \/ LoginAnswer(t) \/ RefreshAnswer(t) \/ ExchangeAnswer(t)
       \/ VerifyAnswer(t)
       \/ LogoutAnswer(t) \/ RedeemAnswer(t) \/ PrepareAnswer(t) \/ CallbackAnswer(t)
       \/ ResetAnswer(t) \/ KilledAnswer(t) \/ LostAnswer(t)
       \/ Serve(t) /\ UNCHANGED clientVars
  \/ Crash
  \/ /\ ops < MaxOps \/ \E t \in Tabs : req[t].op # "none"
     /\ Disconnect \/ Reconnect
     /\ UNCHANGED <<serverVars, req, clientVars>>

Spec == Init /\ [][Next]_vars

-----------------------------------------------------------------------------
(* Properties *)

\* Type invariant; the stored lists never outgrow their caps, whatever
\* documents overlapping requests save (MAX_REFRESH, MAX_JTIS).
TypeOK ==
  /\ row # None => /\ Len(row.refreshTokens) <= MAX_REFRESH
                   /\ Len(row.activeAccessJtis) <= MAX_JTIS
                   /\ Sessions \subseteq 1..Len(issued)
                   /\ row \in Rows
  /\ index \subseteq {"email", "oauth"}
  /\ ready \in BOOLEAN /\ faults \in 0..MaxFaults /\ ops \in 0..MaxOps
  /\ jar \in [Jars -> {None} \cup 1..Len(issued)]
  /\ \A t \in Tabs : /\ tab[t].csrf \in {"none", "match", "stale"}
                     /\ tab[t].init \in {"unset", "done", "failed"}
                     /\ DOMAIN req[t] = DOMAIN Idle

\* A secret that verified the address or reset the password never becomes
\* valid again, although requests that loaded it before still save their
\* documents afterwards (verifyEmail, resetPassword, User.save).
SpentStaysSpent ==
  row # None => {row.emailVerificationToken, row.passwordResetToken} \cap spent = {}

\* A session that ended by a sign-out or a password reset which no other
\* request overlapped is never stored again (logout, resetPassword).
EndedStaysEnded == Sessions \cap ended = {}

\* A pair that is handed out, if its version was published and no other
\* request overlapped, passes the gateway's version check and authenticate's,
\* and its refresh token is stored, also after a crash left the gateway's
\* key ahead of the row (persistSessionTokens, rotateSessionTokens).
IssuedIsAdmitted ==
  \A t \in Tabs :
    LET n == req[t].pair IN
    (/\ req[t].pc \in {"answer", "exchange"}
     /\ req[t].op \in {"login", "verify", "refresh", "callback"}
     /\ n # None /\ req[t].solo /\ req[t].stored)
      => floor = issued[n] /\ Authenticates(n) /\ n \in Sessions

\* A reset that answers success, overlapped by nothing, has the gateway's key
\* at the row's new version and no session stored (resetPassword's "publish
\* first, 503 unless it is stored").
KillIsPublished ==
  \A t \in Tabs : (At(t, "answer") /\ req[t].op = "reset" /\ req[t].solo)
                    => floor = row.tokenVersion /\ Sessions = {}

\* Why session n may leave the list in a step of t: its rotation or sign-out,
\* a kill, its eviction as the oldest of a full list, or a document that
\* loaded the list before n was stored and is saved after.
EndsFor(t, n) ==
  \/ n = req[t].token
  \/ req[t].pc \in {"killed", "reset"}
  \/ /\ req[t].pc \in {"persist", "rotate"}
     /\ Len(row.refreshTokens) = MAX_REFRESH /\ n = Head(row.refreshTokens)
  \/ Has(req[t].doc, "refreshTokens") /\ n \notin ListOf(Doc(t).refreshTokens)

\* A session leaves the stored list only for one of those causes, and enters
\* it only when it is issued or from a document that loaded it
\* (User.save writes no list that the handler's query did not ask for).
SessionsChangeForCause ==
  [][\A n \in 1..Len(issued') : (n \in Sessions) # (n \in Sessions') =>
       \E t \in Tabs : /\ req'[t] # req[t]
                       /\ IF n \in Sessions THEN EndsFor(t, n)
                          ELSE n = req'[t].pair \/ n \in ListOf(Doc(t).refreshTokens)]_vars
=============================================================================
